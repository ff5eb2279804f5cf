--------------------------- MODULE InstanceAccess ---------------------------
(***************************************************************************)
(* Access of MCP clients to an instance (instanceAccess.ts) and its OAuth  *)
(* front (instanceOAuth.ts), with the HostScripts a client may run: a      *)
(* client asks for access, for its renewal or for more permissions, the    *)
(* owner reviews, edits and decides, the client claims a credential, and   *)
(* either side may end the access.  Every operation is synchronous, an     *)
(* action; deadlines pass at any time between two of them.                 *)
(*                                                                         *)
(* A client is known by its id; "change" stands for the create, update and *)
(* delete permissions, "run" for Tools Run.  Reading is always permitted.  *)
(***************************************************************************)
EXTENDS HostScripts, FiniteSets

CONSTANTS Requests,    \* rows of instance_access_requests; a deleted row's name is used again
          OwnerSets    \* the permission sets the owner chooses from

Permissions == {"change", "run"}
ASSUME AccessAssumption == OwnerSets \subseteq SUBSET Permissions

VARIABLES
  request,     \* instance_access_requests, with the OAuth flow of each
  access,      \* the access level each client asked for first
  permitted,   \* the permissions of each client
  oauth        \* instance_oauth_tokens: the clients that signed in through OAuth

accessVars == <<request, access, permitted, oauth>>
vars == <<standing, caller, scriptVars, accessVars>>

\* "basis" is what the client was permitted when it asked for a renewal; no code reads it.
NoRequest == [state |-> "absent", purpose |-> "access", client |-> None, access |-> "read",
              permissions |-> {}, flow |-> None, basis |-> {}]
\* Of a request that is decided for good nothing matters, but which permissions were denied.
Closed(row, state) == IF row.purpose = "permissions" /\ state = "denied" THEN [row EXCEPT !.state = state]
                      ELSE [NoRequest EXCEPT !.state = state]
Outstanding == {"pending", "approved"}

Init ==
  /\ ScriptInit
  /\ standing = [c \in Callers |-> "absent"] /\ caller = [c \in Callers |-> "absent"]
  /\ request = [r \in Requests |-> NoRequest]
  /\ access = [c \in Callers |-> "read"] /\ permitted = [c \in Callers |-> {}]
  /\ oauth = {}

DefaultPermissions(level) == IF level = "write" THEN {"change"} ELSE {}

-----------------------------------------------------------------------------
(* What the operations are made of.                                        *)
Deny(rows, R) == [r \in Requests |-> IF r \in R /\ rows[r].state \in Outstanding
                                     THEN Closed(rows[r], "denied") ELSE rows[r]]
Of(rows, c) == {r \in Requests : rows[r].client = c}

\* checkOAuthPermissions: a read-only OAuth identity never gets more.
RefusedToClient(c, P) == P # {} /\ c \in oauth /\ access[c] = "read"
RefusedToRequest(r, P) ==
  /\ P # {} /\ request[r].access = "read"
  /\ request[r].flow # None \/ request[r].client \in oauth

\* ensureToolCaller leaves a row that exists as it is, revoked or not.
EnsureToolCaller(c) == caller' = [caller EXCEPT ![c] = IF @ = "absent" THEN "live" ELSE @]

RevokeToolGrants(c) ==
  /\ grant' = Revoked(GrantsOf(c))
  /\ job' = [j \in Jobs |-> IF job[j].app = c /\ job[j].state \in Open
                            THEN Terminated("cancelled") ELSE job[j]]

KeepsScripts == UNCHANGED <<caller, scriptVars>>
KeepsClients == UNCHANGED <<standing, access, permitted, oauth>>

-----------------------------------------------------------------------------
(* Requests.  (Of limitRequests' limits only the number of rows is kept,   *)
(* by the constant Requests.)                                              *)
\* wm-identity-request-access, or authorize of the OAuth server, which alone knows the secret.
\* (Bound: no more strangers ask than Callers has ids left for.)
Strangers == {r \in Requests : request[r].client = None /\ request[r].state \in Outstanding}
RequestAccess(r, level, flow) ==
  /\ request[r] = NoRequest
  /\ Cardinality(Strangers) < Cardinality({c \in Callers : standing[c] = "absent"})
  /\ request' = [request EXCEPT ![r] =
       [NoRequest EXCEPT !.state = "pending", !.access = level, !.flow = flow,
                         !.permissions = DefaultPermissions(level)]]
  /\ KeepsClients /\ KeepsScripts

\* refresh: true, with the latest credential, which may be expired but not revoked.
RequestRenewal(r, c) ==
  /\ standing[c] \in {"valid", "expired"}
  /\ request[r] = NoRequest
  /\ request' = [Deny(request, Of(request, c)) EXCEPT ![r] =
       [NoRequest EXCEPT !.state = "pending", !.client = c, !.access = access[c],
                         !.permissions = permitted[c], !.basis = permitted[c]]]
  /\ KeepsClients /\ KeepsScripts

\* A request for the same permissions that is pending or denied stands for the new one.
RequestPermissions(r, c, P) ==
  LET delta == P \ permitted[c] IN
  /\ standing[c] = "valid" /\ delta # {} /\ ~RefusedToClient(c, delta)
  /\ \A q \in Of(request, c) : ~(/\ request[q].purpose = "permissions"
                                   /\ request[q].state \in {"pending", "denied"}
                                   /\ request[q].permissions = delta)
  /\ request[r] = NoRequest
  /\ request' = [request EXCEPT ![r] =
       [NoRequest EXCEPT !.state = "pending", !.purpose = "permissions", !.client = c,
                         !.permissions = delta]]
  /\ KeepsClients /\ KeepsScripts

-----------------------------------------------------------------------------
(* The owner's decisions.                                                  *)
Reviewable(r) == request[r].state = "pending"

Refuse(r) ==
  /\ Reviewable(r)
  /\ request' = Deny(request, {r})
  /\ KeepsClients /\ KeepsScripts

ApproveAccess(r) ==
  /\ Reviewable(r) /\ request[r].purpose = "access"
  /\ request' = [request EXCEPT ![r].state = "approved"]
  /\ KeepsClients /\ KeepsScripts

\* Added permissions hold at once; a renewal requested before would undo them.
ApprovePermissionsKeepingRenewals(r) ==   \* faulty: an outstanding renewal stays
  LET c == request[r].client IN
  /\ Reviewable(r) /\ request[r].purpose = "permissions"
  /\ standing[c] = "valid" /\ ~RefusedToClient(c, request[r].permissions)
  /\ permitted' = [permitted EXCEPT ![c] = @ \cup request[r].permissions]
  /\ IF "run" \in request[r].permissions THEN EnsureToolCaller(c) ELSE UNCHANGED caller
  /\ request' = [request EXCEPT ![r] = Closed(@, "consumed")]
  /\ UNCHANGED <<standing, access, oauth, scriptVars>>
ApprovePermissions(r) ==
  LET c == request[r].client IN
  /\ Reviewable(r) /\ request[r].purpose = "permissions"
  /\ standing[c] = "valid" /\ ~RefusedToClient(c, request[r].permissions)
  /\ permitted' = [permitted EXCEPT ![c] = @ \cup request[r].permissions]
  /\ IF "run" \in request[r].permissions THEN EnsureToolCaller(c) ELSE UNCHANGED caller
  /\ request' = [Deny(request, {q \in Of(request, c) : request[q].purpose = "access"})
                   EXCEPT ![r] = Closed(@, "consumed")]
  /\ UNCHANGED <<standing, access, oauth, scriptVars>>

\* setPermissions of a request that asks for access.
EditRequestUnchecked(r, P) ==   \* faulty: what OAuth asked for is forgotten
  /\ request[r].state \in Outstanding /\ request[r].purpose = "access"
  /\ request' = [request EXCEPT ![r].permissions = P]
  /\ KeepsClients /\ KeepsScripts
EditRequest(r, P) ==
  /\ request[r].state \in Outstanding /\ request[r].purpose = "access"
  /\ ~RefusedToRequest(r, P)
  /\ request' = [request EXCEPT ![r].permissions = P]
  /\ KeepsClients /\ KeepsScripts

\* setPermissions of a client.
EditClient(c, P) ==
  /\ standing[c] = "valid" /\ ~RefusedToClient(c, P)
  /\ permitted' = [permitted EXCEPT ![c] = P]
  /\ request' = Deny(request, Of(request, c))
  /\ IF "run" \in P THEN EnsureToolCaller(c) /\ UNCHANGED <<grant, job>>
                    ELSE RevokeToolGrants(c) /\ UNCHANGED caller
  /\ UNCHANGED <<standing, access, oauth, task, runner, ran>>

RevokeClient(c) ==
  /\ standing[c] \in {"valid", "expired"}
  /\ standing' = [standing EXCEPT ![c] = "revoked"]
  /\ request' = Deny(request, Of(request, c))
  /\ RevokeToolGrants(c)
  /\ UNCHANGED <<caller, access, permitted, oauth, task, runner, ran>>

-----------------------------------------------------------------------------
(* claimApproved issues the one credential of an approved request, to a    *)
(* new client or to the one it renews; signedIn are the clients the OAuth  *)
(* server records with it.  The variant before it renews revoked clients.  *)
Claimable(r) == request[r].purpose = "access" /\ request[r].state = "approved"

ClaimForRevoked(r, c, renews) ==
  /\ Claimable(r)
  /\ IF request[r].client = None THEN standing[c] = "absent" /\ ~renews
                                 ELSE c = request[r].client /\ renews
Claims(r, c, renews) ==
  /\ Claimable(r)
  /\ IF request[r].client = None THEN standing[c] = "absent" /\ ~renews
     ELSE c = request[r].client /\ renews /\ standing[c] # "revoked"

Issue(r, c, renews) ==
  /\ standing' = [standing EXCEPT ![c] = "valid"]
  /\ access' = [access EXCEPT ![c] = IF renews THEN @ ELSE request[r].access]
  /\ permitted' = [permitted EXCEPT ![c] = request[r].permissions]
  /\ IF "run" \notin request[r].permissions THEN UNCHANGED <<caller, grant, job>>
     ELSE IF renews THEN RevokeToolGrants(c) /\ caller' = [caller EXCEPT ![c] = "live"]
     ELSE EnsureToolCaller(c) /\ UNCHANGED <<grant, job>>
  /\ UNCHANGED <<task, runner, ran>>

Consumed(r, c) ==
  [Deny(request, Of(request, c) \ {r}) EXCEPT ![r] = Closed(@, "consumed")]

\* wm-identity-claim-access with the request's secret.
Claim(r, c) ==
  /\ request[r].flow = None
  /\ \E renews \in BOOLEAN : Claims(r, c, renews) /\ Issue(r, c, renews)
  /\ request' = Consumed(r, c)
  /\ UNCHANGED oauth

\* The approval page returns the one code of an approved flow ...
ReturnCode(r) ==
  /\ request[r].flow = "open" /\ request[r].state = "approved"
  /\ request' = [request EXCEPT ![r].flow = "coded"]
  /\ KeepsClients /\ KeepsScripts

\* ... which is exchanged within 60 seconds.
Exchange(r, c) ==
  /\ request[r].flow = "coded"
  /\ \E renews \in BOOLEAN : Claims(r, c, renews) /\ Issue(r, c, renews)
  /\ request' = Consumed(r, c)
  /\ oauth' = oauth \cup {c}

\* revokeToken of the OAuth server: nothing but the client's row.
RevokeToken(c) ==
  /\ c \in oauth /\ standing[c] \in {"valid", "expired"}
  /\ standing' = [standing EXCEPT ![c] = "revoked"]
  /\ UNCHANGED <<accessVars, caller, scriptVars>>

-----------------------------------------------------------------------------
(* Deadlines: ten minutes, 60 seconds, 90 days.                            *)
\* An overdue request is as good as deleted, which the next request does with its flow.
RequestLapses(r) ==
  /\ request[r] # NoRequest
  /\ request' = [request EXCEPT ![r] = NoRequest]
  /\ KeepsClients /\ KeepsScripts

CodeLapses(r) ==
  /\ request[r].flow = "coded"
  /\ request' = [request EXCEPT ![r].flow = "lapsed"]
  /\ KeepsClients /\ KeepsScripts

ClientLapses(c) ==
  /\ standing[c] = "valid"
  /\ standing' = [standing EXCEPT ![c] = "expired"]
  /\ UNCHANGED <<accessVars, caller, scriptVars>>

\* A client runs a script: dispatchInstanceTask wants Tools Run, then asks the broker.
ClientRuns(j, c) == "run" \in permitted[c] /\ CallerRuns(j, c) /\ UNCHANGED accessVars

Next ==
  \/ \E r \in Requests :
       \/ \E level \in {"read", "write"}, flow \in {None, "open"} : RequestAccess(r, level, flow)
       \/ \E c \in Callers : \/ RequestRenewal(r, c)
                             \/ \E P \in OwnerSets : RequestPermissions(r, c, P)
                             \/ Claim(r, c) \/ Exchange(r, c)
       \/ Refuse(r) \/ ApproveAccess(r) \/ ApprovePermissions(r)
       \/ \E P \in OwnerSets : EditRequest(r, P)
       \/ ReturnCode(r) \/ RequestLapses(r) \/ CodeLapses(r)
  \/ \E c \in Callers : \/ \E P \in OwnerSets : EditClient(c, P)
                        \/ RevokeClient(c) \/ RevokeToken(c) \/ ClientLapses(c)
                        \/ \E j \in Jobs : ClientRuns(j, c)
  \/ ScriptNext /\ UNCHANGED accessVars

Spec == Init /\ [][Next]_vars

-----------------------------------------------------------------------------
AccessTypeOK ==
  /\ ScriptTypeOK
  /\ request \in [Requests -> [state : {"absent", "denied", "consumed"} \cup Outstanding,
                    purpose : {"access", "permissions"}, client : Callers \cup {None},
                    access : {"read", "write"}, permissions : SUBSET Permissions,
                    flow : {None, "open", "coded", "lapsed"}, basis : SUBSET Permissions]]
  /\ access \in [Callers -> {"read", "write"}] /\ permitted \in [Callers -> SUBSET Permissions]
  /\ oauth \subseteq {c \in Callers : standing[c] # "absent"}

(* A client has at most one renewal that can still be approved or claimed, *)
(* and it was asked for with the permissions the client has now: neither   *)
(* does a claim restore what the owner took away, nor undo what was added  *)
(* (README.md:1797, "Changing an active identity invalidates outstanding   *)
(* renewal requests so they cannot restore older permissions").            *)
IsOpenRenewal(r) ==
  request[r].purpose = "access" /\ request[r].client # None /\ request[r].state \in Outstanding

RenewalsAreCurrent ==
  \A r \in Requests : IsOpenRenewal(r) =>
    /\ request[r].basis = permitted[request[r].client]
    /\ \A q \in Of(request, request[r].client) : IsOpenRenewal(q) => q = r

(* A revoked client stays out, though revoking a token leaves its approved *)
(* renewals and permission requests as they are: it gets no credential and *)
(* no permission ever again (README.md:2242).                              *)
RevokedStaysOut ==
  [][\A c \in Callers : standing[c] = "revoked" =>
       standing'[c] = "revoked" /\ permitted'[c] = permitted[c]]_<<standing, permitted>>

(* An identity that signed in through OAuth for reading only never gets to *)
(* change or run anything, by edits, renewals and requests in any order    *)
(* (README.md:1798).                                                       *)
ReadOnlyStaysReadOnly ==
  \A c \in oauth : access[c] = "read" => permitted[c] = {}

(* README.md:1814: "Removing Run or revoking a client cancels its jobs and *)
(* grants; enabling Run again does not restore those grants."  Whenever    *)
(* Run is removed from a client, no grant of its caller stays.             *)
RemovingRunEndsGrants ==
  [][\A c \in Callers : "run" \in permitted[c] /\ "run" \notin permitted'[c] =>
       \A g \in GrantsOf(c) : grant'[g].revoked]_<<permitted, grant>>
=============================================================================
