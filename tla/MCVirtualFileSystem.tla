------------------------ MODULE MCVirtualFileSystem ------------------------
(* An instance of VirtualFileSystem for TLC: the checkpoint of one task, and two threads,  *)
(* one in each of two processes or (MCOneProcessOf) both in one.                           *)
EXTENDS VirtualFileSystem, TLC

CONSTANTS daemon, script, t1, t2, checkpoint, file, small, large

MCProcesses == {daemon, script}
MCThreads == {t1, t2}
MCProcessOf == (t1 :> daemon) @@ (t2 :> script)
MCOneProcessOf == [t \in MCThreads |-> daemon]
MCPaths == {checkpoint}
MCFiles == {file}
MCSafePath == (checkpoint :> file)
MCValues == {small, large}
MCLarge == {large}
=============================================================================
