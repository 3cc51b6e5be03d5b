---------------------------- MODULE HostedAccess ----------------------------
(***************************************************************************)
(* Who sees what in hosted mode.  A human's access to a client is an       *)
(* active membership, read again in every transaction: by the row level    *)
(* security of PostgreSQL and by the queries' own tenant scope.  People    *)
(* with the platform administrator's role see every client and engagement, *)
(* but the rows under an engagement only as members of its client.         *)
(***************************************************************************)
CONSTANTS
    Humans,  \* verified human principals
    Clients, \* tenants
    Admins,  \* humans whose memberships carry PLATFORM_ADMIN
    Unstable \* memberships that are suspended and restored

ASSUME AccessAssumption == Admins \subseteq Humans /\ Unstable \subseteq Humans \X Clients

VARIABLE members \* ClientMembershipRow: the active memberships

AccessInit == members = Humans \X Clients

IsMember(h, client) == <<h, client>> \in members

\* is_platform_admin, secscan_human_is_platform_admin.
IsPlatformAdmin(h) == h \in Admins /\ \E client \in Clients : IsMember(h, client)

\* require_client_access, _client_scope and the policy on engagements.
CanAccess(h, client) == IsPlatformAdmin(h) \/ IsMember(h, client)

\* Memberships are suspended and restored outside this code.
ChangeMembership(h, client) ==
    /\ <<h, client>> \in Unstable
    /\ members' = IF IsMember(h, client) THEN members \ {<<h, client>>} ELSE members \cup {<<h, client>>}
=============================================================================
