SPECIFICATION Spec
CONSTANTS
    admin = admin  member = member  root = root  editor = editor  user = user
    manage = manage  edit = edit  q1 = q1  q2 = q2
    Users <- MCUsers
    Roles <- MCRoles
    Perms <- MCPerms
    Requests <- MCRequests
    Root = root
    AdminRoles <- MCAdminRoles
    Priority <- MCPriority
    LegacyRole <- MCLegacyRole
    StaticGrants <- MCStaticGrants
    RoutePerm <- MCRoutePerm
    InitRoles <- MCInitRoles
    InitGrants <- MCInitGrants
    NamedRoles <- MCNamedRoles
    NamedPerms <- MCNamedPerms
    ProfileTTL = 1
    PermissionTTL = 1
    Latency = 1
    MaxChanges = 2
    MaxClock = 3
SYMMETRY Symmetry
INVARIANTS
    TypeOK
PROPERTIES
    AdmittedByRecentRole
    LongHolderAdmitted
