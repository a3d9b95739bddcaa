------------------------------ MODULE DeployGate ------------------------------
(***************************************************************************)
(* The gate before a deployment: scripts/pre_deploy_security_check.py,     *)
(* with the guard of core/deploy_guard.py and the checks of                *)
(* core/security_gate, one after the other.                                *)
(*                                                                         *)
(* Each tool that a check runs may find anything, fail, or answer with     *)
(* what cannot be read.  A report is the set of the severities it names.   *)
(***************************************************************************)
EXTENDS FiniteSets

CONSTANTS
    Targets,    \* directories with packages, of those that exist
    Files,      \* files that are scanned, of any number
    Reports     \* the sets of severities that a report may name

Tools == {"trivy", "osv-scanner", "semgrep", "gitleaks"}

\* SEVERITY_ORDER, and words of the tools that are not in it
Grave == {"critical", "high"}
Ordered == Grave \cup {"medium", "low", "info"}
Words == Ordered \cup {"moderate", "error"}

\* What the instances and the theorems assume
ReportsAssumption == Reports \subseteq SUBSET Words

VARIABLES
    local,      \* the guard has no reason to refuse: no CI, a known system, the files
    user,       \* the user may deploy
    token,      \* the token of a deployment: "unasked", "right" or "wrong"
    enabled, strict, installed,     \* the external scanners: run, required, there
    at, todo,   \* the check that runs, and what it has still to look at
    issues,     \* the severities of its issues
    blocked,    \* the checks that do not allow the deployment
    result,
    said        \* history: the severities of what the tools and patterns found

vars == <<local, user, token, enabled, strict, installed, at, todo, issues, blocked, result, said>>
settings == <<local, user, token, enabled, strict, installed>>

Found(severities, words) ==
    /\ issues' = issues \cup severities
    /\ said' = said \cup words

Nothing == UNCHANGED <<issues, said>>

\* An exception of a check ends the script, and with it the deployment
Raised ==
    /\ at' = "end" /\ result' = "raised"
    /\ UNCHANGED <<settings, todo, issues, blocked, said>>

\* A check has ended: it does not allow the deployment with an issue of those severities
Conclude(check, severities, next, things) ==
    /\ blocked' = IF issues \cap severities # {} THEN blocked \cup {check} ELSE blocked
    /\ issues' = {}
    /\ at' = next /\ todo' = things
    /\ UNCHANGED <<settings, result, said>>

-----------------------------------------------------------------------------

\* DeployGuard.evaluate
Guard ==
    /\ at = "guard"
    /\ IF local THEN at' = "authorize" /\ UNCHANGED result
       ELSE at' = "end" /\ result' = "refused"
    /\ UNCHANGED <<settings, todo, issues, blocked, said>>

\* PreDeployAuthorization: any issue is one too many
Authorize ==
    /\ at = "authorize"
    /\ blocked' = IF user /\ token # "wrong" THEN blocked ELSE blocked \cup {"authorization"}
    /\ at' = "audit" /\ todo' = Targets
    /\ UNCHANGED <<settings, issues, result, said>>

\* What npm names goes into the issues as it is, and its counts into one more issue
Counted(named) ==
    IF named = {} THEN {} ELSE IF named \cap Grave # {} THEN {"high"} ELSE {"medium"}

\* DependencyAuditCheck: an audit that fails, or that cannot be read, found nothing; npm
\* that is not there raises
Audit(target) ==
    /\ at = "audit" /\ target \in todo
    /\ \/ Raised
       \/ /\ todo' = todo \ {target}
          /\ \/ Nothing
             \/ \E named \in Reports : Found(named \cup Counted(named), named)
          /\ UNCHANGED <<settings, at, blocked, result>>

EndAuditCritical ==
    at = "audit" /\ todo = {} /\ Conclude("dependencies", {"critical"}, "scan", Files)

EndAudit == at = "audit" /\ todo = {} /\ Conclude("dependencies", Grave, "scan", Files)

\* _scan_file: SQL put together with + and calls that run code are of severity high; SQL
\* in a template is medium unless the file has been reviewed, and weak secrets are medium
Patterns == [plus |-> "high", code |-> "high", template |-> "medium", secret |-> "medium"]

Matches(found, reviewed) ==
    {Patterns[p] : p \in found \ (IF reviewed THEN {"template"} ELSE {})}

\* A file that cannot be read has no issue
Scan(file) ==
    /\ at = "scan" /\ file \in todo
    /\ todo' = todo \ {file}
    /\ \/ Nothing
       \/ \E found \in SUBSET DOMAIN Patterns, reviewed \in BOOLEAN :
            Found(Matches(found, reviewed), Matches(found, reviewed))
    /\ UNCHANGED <<settings, at, blocked, result>>

EndScan ==
    /\ at = "scan" /\ todo = {}
    /\ Conclude("static", Grave, IF enabled THEN "dependabot" ELSE "verdict", {})

\* The configuration of Dependabot is asked for, and is not required
Dependabot ==
    /\ at = "dependabot"
    /\ \/ Nothing \/ Found({"medium"}, {})
    /\ at' = "tools" /\ todo' = Tools
    /\ UNCHANGED <<settings, blocked, result>>

\* _parse_json_findings: a word that is not in the order is medium, but for trivy's,
\* which counts as nothing; each finding of gitleaks is critical
Severity(tool, word) ==
    CASE tool = "gitleaks" -> "critical"
      [] tool = "trivy" -> word
      [] OTHER -> IF word \in Ordered THEN word ELSE "medium"

\* A scanner that is not there is an issue only if the scanners are required
Missing(tool) ==
    /\ tool \notin installed
    /\ IF strict THEN Found({"high"}, {}) ELSE Nothing

\* A scanner's output: findings, what cannot be read or is empty, or an exit code with
\* the severity that its error text names first, or medium
Report(tool) ==
    \/ \E named \in Reports :
        LET severities == {Severity(tool, w) : w \in named}
        IN  Found(severities, IF tool = "gitleaks" THEN severities ELSE named)
    \/ Nothing
    \/ \E word \in Ordered \cap UNION Reports : Found({word}, {word})
    \/ Found({"medium"}, {})

\* Output of another shape raises
RunTool(tool) ==
    /\ at = "tools" /\ tool \in todo
    /\ \/ tool \in installed /\ Raised
       \/ /\ todo' = todo \ {tool}
          /\ Missing(tool) \/ (tool \in installed /\ Report(tool))
          /\ UNCHANGED <<settings, at, blocked, result>>

EndTools == at = "tools" /\ todo = {} /\ Conclude("external", Grave, "verdict", {})

\* SecurityGate.run: every check that ran must allow the deployment
Verdict ==
    /\ at = "verdict"
    /\ result' = IF blocked = {} THEN "allowed" ELSE "blocked"
    /\ at' = "end"
    /\ UNCHANGED <<settings, todo, issues, blocked, said>>

Init ==
    /\ local \in BOOLEAN /\ user \in BOOLEAN /\ token \in {"unasked", "right", "wrong"}
    /\ enabled \in BOOLEAN /\ strict \in BOOLEAN /\ installed \in SUBSET Tools
    /\ at = "guard" /\ todo = {} /\ issues = {} /\ blocked = {}
    /\ result = "none" /\ said = {}

Next ==
    \/ Guard \/ Authorize
    \/ \E target \in Targets : Audit(target)
    \/ \E file \in Files : Scan(file)
    \/ \E tool \in Tools : RunTool(tool)
    \/ EndAudit \/ EndScan \/ Dependabot \/ EndTools
    \/ Verdict

Spec == Init /\ [][Next]_vars

-----------------------------------------------------------------------------

TypeOK ==
    /\ local \in BOOLEAN /\ user \in BOOLEAN /\ token \in {"unasked", "right", "wrong"}
    /\ enabled \in BOOLEAN /\ strict \in BOOLEAN /\ installed \subseteq Tools
    /\ at \in {"guard", "authorize", "audit", "scan", "dependabot", "tools", "verdict", "end"}
    /\ todo \subseteq Targets \cup Files \cup Tools
    /\ issues \subseteq Words
    /\ blocked \subseteq {"authorization", "dependencies", "static", "external"}
    /\ result \in {"none", "refused", "raised", "blocked", "allowed"}
    /\ said \subseteq Words

\* A deployment is let through only on the machine of a user who may deploy, when no
\* tool and no pattern has found anything of severity high or critical in its own words,
\* and every external scanner is there if they are run and required.  Semgrep's own word
\* for its gravest findings, error, counts as medium, and a tool that fails has found
\* nothing (policy.py:29-32, external_scanners.py:143-145, dependency_audit.py:72).
LetThroughIsClean ==
    result = "allowed" =>
        /\ local /\ user /\ token # "wrong"
        /\ said \cap Grave = {}
        /\ enabled /\ strict => installed = Tools

=============================================================================
