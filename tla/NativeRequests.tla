---------------------------- MODULE NativeRequests ----------------------------
(***************************************************************************)
(* Native TinyCloud delegation, first half: the life of a pushed           *)
(* authorization request, from PAR to the redemption of its code.          *)
(*                                                                         *)
(*   PENDING --resolve--> RESOLVED --approve--> APPROVED --code--> REDEEMED *)
(*                           |  |                  |                        *)
(*                         deny withdraw        withdraw                    *)
(*                                                                         *)
(* There is one OAuth client.  A database transaction that takes the row   *)
(* locks of the global order (consent, generation, request, grant, tokens) *)
(* is one action; whatever a handler reads before its transaction is read  *)
(* by an action of its own, so that everything else may happen in between. *)
(* NativeDelegation extends this module with the grants and the tokens.    *)
(***************************************************************************)
EXTENDS Naturals, Sequences

CONSTANTS
  User,            \* signed-in users
  Request,         \* ids of pushed requests; an id is never reused
  Tab,             \* handlers of consent pages, each with the page it works for
  Key,             \* managed keys
  Perm,            \* permission atoms (service, path, action) beside capabilities/read,
                   \* which every request has
  Ceilings,        \* the configurations an administrator may give the client
  Host,            \* TinyCloud hosts named by the ceilings
  NoUser, NoKey, NoHost, NoRequest,
  RequestTtls,     \* values of ttl_seconds a client asks for
  UriTtl,          \* 90 s: life of request_uri
  RequestTtl,      \* 10 min: life of the request
  Retention,       \* 24 h: a row is kept this long past its expiry
  MaxTime,         \* bound on the clock
  LastPar,         \* bound: no request is pushed after this time
  MaxRevisions,    \* bound on the preparations of one request
  MaxWithdrawals   \* bound on the consent generation

Ceiling == [enabled: BOOLEAN, perms: SUBSET Perm, maxTtl: Nat, lifetime: Nat, host: Host]

ASSUME RequestAssumption ==
  /\ NoUser \notin User
  /\ NoKey \notin Key
  /\ NoHost \notin Host
  /\ NoRequest \notin Request
  /\ Ceilings \subseteq Ceiling
  /\ RequestTtls \subseteq Nat
  /\ UriTtl \in Nat /\ RequestTtl \in Nat /\ Retention \in Nat
  /\ MaxTime \in Nat /\ LastPar \in Nat /\ MaxRevisions \in Nat /\ MaxWithdrawals \in Nat

VARIABLES
  now,         \* the database and process clock
  consent,     \* oauth_consent row of each user: present, and with the delegation scope
  generation,  \* tinycloud_native_consent_generation
  key,         \* primary managed key of each user
  ceiling,     \* tinycloudNativeDelegation of the client
  req,         \* tinycloud_native_request
  prep,        \* tinycloud_native_preparation, by request, in revision order
  tab,         \* the handler each consent page is in the middle of
  sweeping     \* the request sweep has been started in this process

requestVars == <<now, consent, generation, key, ceiling, req, prep, tab, sweeping>>

-------------------------------------------------------------------------------
Consent == [present: BOOLEAN, id: Nat, scoped: BOOLEAN]

Statuses == {"ABSENT", "PENDING", "RESOLVED", "APPROVED", "DENIED", "WITHDRAWN",
             "REDEEMED", "SWEPT"}

RequestRow ==
  [status: Statuses, user: User \cup {NoUser}, perms: SUBSET Perm, ttl: Nat,
   uriExpiresAt: Nat, expiresAt: Nat, approvedRevision: Nat, consentGeneration: Nat,
   delegationExpiresAt: Nat, hosting: {"none", "existing", "created", "failed"},
   hostSigned: BOOLEAN]

Revision ==
  [user: User, key: Key, host: Host, perms: SUBSET Perm, ttl: Nat, hostPlan: BOOLEAN]

TabState ==
  [stage: {"idle", "preparing", "shown", "approving", "activating", "submitting"},
   user: User \cup {NoUser}, req: Request \cup {NoRequest}, revision: Nat,
   preKey: Key \cup {NoKey}, preHost: Host \cup {NoHost}]

RequestTypeOK ==
  /\ now \in Nat
  /\ consent \in [User -> Consent]
  /\ generation \in [User -> Nat]
  /\ key \in [User -> Key]
  /\ ceiling \in Ceilings
  /\ req \in [Request -> RequestRow]
  /\ prep \in [Request -> Seq(Revision)]
  /\ tab \in [Tab -> TabState]
  /\ sweeping \in BOOLEAN

AbsentRequest ==
  [status |-> "ABSENT", user |-> NoUser, perms |-> {}, ttl |-> 0, uriExpiresAt |-> 0,
   expiresAt |-> 0, approvedRevision |-> 0, consentGeneration |-> 0,
   delegationExpiresAt |-> 0, hosting |-> "none", hostSigned |-> FALSE]

IdleTab ==
  [stage |-> "idle", user |-> NoUser, req |-> NoRequest, revision |-> 0,
   preKey |-> NoKey, preHost |-> NoHost]

RequestInit ==
  /\ now = 0
  /\ consent = [u \in User |-> [present |-> FALSE, id |-> 0, scoped |-> FALSE]]
  /\ generation = [u \in User |-> 0]
  /\ key \in [User -> Key]
  /\ ceiling \in Ceilings
  /\ req = [r \in Request |-> AbsentRequest]
  /\ prep = [r \in Request |-> <<>>]
  /\ tab = [t \in Tab |-> IdleTab]
  /\ sweeping = FALSE

-------------------------------------------------------------------------------
(* What the handlers read.                                                 *)

MinOf(a, b) == IF a < b THEN a ELSE b

\* active(row): RESOLVED and not expired.
Active(r) == req[r].status = "RESOLVED" /\ now < req[r].expiresAt

\* The request belongs to nobody yet, or to this user.
MayAct(u, r) == req[r].user \in {NoUser, u}

\* currentRevision of the row: prepare numbers the revisions 1, 2, ...
CurrentRevision(r) == Len(prep[r])

\* enabledNativeDelegation and validatePermissions against the current ceiling.
InCeiling(perms) == ceiling.enabled /\ perms \subseteq ceiling.perms

-------------------------------------------------------------------------------
(* PAR, resolution and the sweep.                                          *)

\* POST /par: an anonymous client pushes a request within the ceiling.  The first one
\* starts the sweep of its process.
Par(r) ==
  /\ req[r].status = "ABSENT"
  /\ now <= LastPar
  /\ \E perms \in SUBSET Perm, ttl \in RequestTtls :
       /\ InCeiling(perms)
       /\ ttl <= ceiling.maxTtl
       /\ req' = [req EXCEPT ![r] =
            [AbsentRequest EXCEPT !.status = "PENDING", !.perms = perms, !.ttl = ttl,
                                  !.uriExpiresAt = now + UriTtl, !.expiresAt = now + RequestTtl]]
  /\ sweeping' = TRUE
  /\ UNCHANGED <<now, consent, generation, key, ceiling, prep, tab>>

\* The authorize endpoint resolves request_uri: single use, and only while fresh.
Resolve(r) ==
  /\ req[r].status = "PENDING"
  /\ now < req[r].uriExpiresAt
  /\ now < req[r].expiresAt
  /\ req' = [req EXCEPT ![r].status = "RESOLVED"]
  /\ UNCHANGED <<now, consent, generation, key, ceiling, prep, tab, sweeping>>

\* Mutant of Sweepable: the retention clause is missing.
SweepableUnused(r) ==
  \/ req[r].status = "PENDING" /\ req[r].user = NoUser /\ req[r].uriExpiresAt < now
  \/ req[r].status \in {"PENDING", "RESOLVED"} /\ req[r].user = NoUser /\ req[r].expiresAt < now

Sweepable(r) ==
  \/ req[r].status = "PENDING" /\ req[r].user = NoUser /\ req[r].uriExpiresAt < now
  \/ req[r].status \in {"PENDING", "RESOLVED"} /\ req[r].user = NoUser /\ req[r].expiresAt < now
  \/ req[r].status \notin {"ABSENT", "SWEPT"} /\ req[r].expiresAt + Retention < now

\* One deleteMany; the preparations go with their request.
Sweep ==
  /\ sweeping
  /\ \E r \in Request : Sweepable(r)
  /\ req' = [r \in Request |-> IF Sweepable(r) THEN [AbsentRequest EXCEPT !.status = "SWEPT"]
                                               ELSE req[r]]
  /\ prep' = [r \in Request |-> IF Sweepable(r) THEN <<>> ELSE prep[r]]
  /\ UNCHANGED <<now, consent, generation, key, ceiling, tab, sweeping>>

-------------------------------------------------------------------------------
(* The consent page: prepare, approve, deny.                               *)

\* prepare reads the request, the key and the ceiling, then asks the node for its
\* peer id with no lock held.
PrepareRead(t, u, r) ==
  /\ tab[t].stage \in {"idle", "shown"}
  /\ MayAct(u, r)
  /\ Active(r)
  /\ InCeiling(req[r].perms)
  /\ tab' = [tab EXCEPT ![t] =
       [IdleTab EXCEPT !.stage = "preparing", !.user = u, !.req = r,
                       !.preKey = key[u], !.preHost = ceiling.host]]
  /\ UNCHANGED <<now, consent, generation, key, ceiling, req, prep, sweeping>>

\* What a prepare writes.
NewRevision(t) ==
  LET u == tab[t].user
      r == tab[t].req
  IN
  /\ CurrentRevision(r) < MaxRevisions
  /\ \E perms \in SUBSET req[r].perms, hostPlan \in BOOLEAN :
       prep' = [prep EXCEPT ![r] = Append(@,
         [user |-> u, key |-> key[u], host |-> ceiling.host, perms |-> perms,
          ttl |-> MinOf(req[r].ttl, MinOf(ceiling.maxTtl, ceiling.lifetime)),
          hostPlan |-> hostPlan])]
  /\ req' = [req EXCEPT ![r].user = u]
  /\ tab' = [tab EXCEPT ![t] = [IdleTab EXCEPT !.stage = "shown", !.req = r,
                                               !.revision = CurrentRevision(r) + 1]]
  /\ UNCHANGED <<now, consent, generation, key, ceiling, sweeping>>

\* Mutant of PrepareCommit: the status read before the peer lookup is trusted.
PrepareCommitStale(t) ==
  LET u == tab[t].user
      r == tab[t].req
  IN
  /\ tab[t].stage = "preparing"
  /\ req[r].status # "SWEPT"
  /\ MayAct(u, r)
  /\ InCeiling(req[r].perms)
  /\ ceiling.host = tab[t].preHost
  /\ key[u] = tab[t].preKey
  /\ NewRevision(t)

\* Under the locks everything is read again; a new revision replaces the current one
\* and the request is bound to the user.
PrepareCommit(t) ==
  LET u == tab[t].user
      r == tab[t].req
  IN
  /\ tab[t].stage = "preparing"
  /\ Active(r)
  /\ MayAct(u, r)
  /\ InCeiling(req[r].perms)
  /\ ceiling.host = tab[t].preHost
  /\ key[u] = tab[t].preKey
  /\ NewRevision(t)

\* One page sends its approval twice: a second handler works from what the page shows.
SendAgain(t, s) ==
  /\ tab[t].stage = "idle"
  /\ tab[s].stage \notin {"idle", "preparing"}
  /\ tab' = [tab EXCEPT ![t] = [IdleTab EXCEPT !.stage = "shown", !.req = tab[s].req,
                                               !.revision = tab[s].revision]]
  /\ UNCHANGED <<now, consent, generation, key, ceiling, req, prep, sweeping>>

\* approve reads the request, checks the revision and digest the page sends back, and
\* unseals the key (none when the request is approved already), with no lock held.
ApproveRead(t, u) ==
  LET r == tab[t].req
  IN
  /\ tab[t].stage = "shown"
  /\ MayAct(u, r)
  /\ req[r].status = "APPROVED" \/ Active(r)
  /\ now < req[r].expiresAt
  /\ tab[t].revision = CurrentRevision(r)
  /\ tab' = [tab EXCEPT ![t].stage = "approving", ![t].user = u,
                        ![t].preKey = IF req[r].status = "APPROVED" THEN NoKey ELSE key[u]]
  /\ UNCHANGED <<now, consent, generation, key, ceiling, req, prep, sweeping>>

\* lockRequest with allowApproved, then the checks every approval repeats.
ApprovalLocked(t) ==
  LET r == tab[t].req
  IN
  /\ tab[t].stage = "approving"
  /\ req[r].status \in {"RESOLVED", "APPROVED"}
  /\ now < req[r].expiresAt
  /\ req[r].user = tab[t].user
  /\ tab[t].revision = CurrentRevision(r)

\* Mutant of ApproveCommit: an approved request is signed again.
ApproveCommitTwice(t) ==
  LET u == tab[t].user
      r == tab[t].req
      rev == prep[r][tab[t].revision]
  IN
  /\ ApprovalLocked(t)
  /\ key[u] = rev.key
  /\ key[u] = tab[t].preKey
  /\ InCeiling(rev.perms)
  /\ rev.host = ceiling.host
  /\ rev.ttl <= MinOf(ceiling.maxTtl, ceiling.lifetime)
  /\ req' = [req EXCEPT ![r].status = "APPROVED",
                        ![r].approvedRevision = tab[t].revision,
                        ![r].consentGeneration = generation[u],
                        ![r].delegationExpiresAt = now + rev.ttl,
                        ![r].hosting = "failed"]
  /\ tab' = [tab EXCEPT ![t].stage = "activating"]
  /\ UNCHANGED <<now, consent, generation, key, ceiling, prep, sweeping>>

\* The approval signs the revision the page shows, rebuilt with the current key, and
\* ties the request to the current consent generation.
ApproveCommit(t) ==
  LET u == tab[t].user
      r == tab[t].req
      rev == prep[r][tab[t].revision]
  IN
  /\ ApprovalLocked(t)
  /\ req[r].status = "RESOLVED"
  /\ key[u] = rev.key
  /\ key[u] = tab[t].preKey
  /\ InCeiling(rev.perms)
  /\ rev.host = ceiling.host
  /\ rev.ttl <= MinOf(ceiling.maxTtl, ceiling.lifetime)
  /\ req' = [req EXCEPT ![r].status = "APPROVED",
                        ![r].approvedRevision = tab[t].revision,
                        ![r].consentGeneration = generation[u],
                        ![r].delegationExpiresAt = now + rev.ttl,
                        ![r].hosting = "failed"]
  /\ tab' = [tab EXCEPT ![t].stage = "activating"]
  /\ UNCHANGED <<now, consent, generation, key, ceiling, prep, sweeping>>

\* A repeated approval of the approved revision changes nothing.
ApproveAgain(t) ==
  /\ ApprovalLocked(t)
  /\ req[tab[t].req].status = "APPROVED"
  /\ req[tab[t].req].approvedRevision = tab[t].revision
  /\ tab' = [tab EXCEPT ![t].stage = "shown", ![t].user = NoUser, ![t].preKey = NoKey]
  /\ UNCHANGED <<now, consent, generation, key, ceiling, req, prep, sweeping>>

\* After the commit: the node skipped the session because the space has no host, so
\* whoever first sets hostSignedAt signs the host delegation.
MarkHostSigned(t) ==
  LET r == tab[t].req
  IN
  /\ tab[t].stage = "activating"
  /\ req[r].status # "SWEPT"
  /\ prep[r][tab[t].revision].hostPlan
  /\ ~req[r].hostSigned
  /\ req' = [req EXCEPT ![r].hostSigned = TRUE]
  /\ tab' = [tab EXCEPT ![t].stage = "submitting"]
  /\ UNCHANGED <<now, consent, generation, key, ceiling, prep, sweeping>>

\* The last write of approve records how hosting went, whatever the row has become.
RecordHosting(t) ==
  LET r == tab[t].req
  IN
  /\ tab[t].stage \in {"activating", "submitting"}
  /\ req[r].status # "SWEPT"
  /\ \E outcome \in {"failed", IF tab[t].stage = "activating" THEN "existing" ELSE "created"} :
       req' = [req EXCEPT ![r].hosting = outcome]
  /\ tab' = [tab EXCEPT ![t].stage = "shown", ![t].user = NoUser, ![t].preKey = NoKey]
  /\ UNCHANGED <<now, consent, generation, key, ceiling, prep, sweeping>>

\* A refused or failed handler, or a crashed process, changes nothing in the database.
\* The page starts over, or sends the same approval once more.
Abandon(t) ==
  /\ tab[t].stage # "idle"
  /\ \/ tab' = [tab EXCEPT ![t] = IdleTab]
     \/ /\ tab[t].stage \in {"approving", "activating", "submitting"}
        /\ tab' = [tab EXCEPT ![t].stage = "shown", ![t].user = NoUser, ![t].preKey = NoKey]
  /\ UNCHANGED <<now, consent, generation, key, ceiling, req, prep, sweeping>>

Deny(u, r) ==
  /\ Active(r)
  /\ MayAct(u, r)
  /\ req' = [req EXCEPT ![r].status = "DENIED"]
  /\ UNCHANGED <<now, consent, generation, key, ceiling, prep, tab, sweeping>>

-------------------------------------------------------------------------------
(* Consent, and what changes around the requests.                          *)

\* The provider's consent endpoint stores the accepted scopes: a new row, or the scope
\* back on the row that is there.
AcceptConsent(u) ==
  consent' = [consent EXCEPT ![u] = [present |-> TRUE, scoped |-> TRUE,
                                     id |-> IF @.present THEN @.id ELSE @.id + 1]]

\* The consent row is deleted, or its scopes lose tinycloud:delegation.
ConsentLost(u) ==
  /\ consent[u].present
  /\ \/ consent' = [consent EXCEPT ![u].present = FALSE, ![u].scoped = FALSE]
     \/ consent[u].scoped /\ consent' = [consent EXCEPT ![u].scoped = FALSE]

\* Mutant of WithdrawRequests: approved requests are left alone.
WithdrawResolved(u) ==
  /\ generation[u] < MaxWithdrawals
  /\ generation' = [generation EXCEPT ![u] = @ + 1]
  /\ req' = [r \in Request |->
       IF req[r].user = u /\ req[r].status = "RESOLVED"
         THEN [req[r] EXCEPT !.status = "WITHDRAWN"] ELSE req[r]]

\* tinycloud_native_withdraw_consent, the part about requests.
WithdrawRequests(u) ==
  /\ generation[u] < MaxWithdrawals
  /\ generation' = [generation EXCEPT ![u] = @ + 1]
  /\ req' = [r \in Request |->
       IF req[r].user = u /\ req[r].status \in {"RESOLVED", "APPROVED"}
         THEN [req[r] EXCEPT !.status = "WITHDRAWN"] ELSE req[r]]

\* Mutant of RedeemRequest: the consent is not read again.
RedeemUnconsented(u, r) ==
  /\ req[r].status = "APPROVED"
  /\ req[r].user = u
  /\ req[r].consentGeneration = generation[u]
  /\ ceiling.enabled
  /\ req[r].delegationExpiresAt <= now + ceiling.lifetime
  /\ req' = [req EXCEPT ![r].status = "REDEEMED"]

\* Mutant of RedeemRequest: the status is compared and not swapped.
RedeemNoSwap(u, r) ==
  /\ consent[u].present /\ consent[u].scoped
  /\ req[r].status = "APPROVED"
  /\ req[r].user = u
  /\ req[r].consentGeneration = generation[u]
  /\ ceiling.enabled
  /\ req[r].delegationExpiresAt <= now + ceiling.lifetime
  /\ UNCHANGED req

\* Mutant of RedeemRequest: the delegation's end is not compared with the grant's.
RedeemOutliving(u, r) ==
  /\ consent[u].present /\ consent[u].scoped
  /\ req[r].status = "APPROVED"
  /\ req[r].user = u
  /\ req[r].consentGeneration = generation[u]
  /\ ceiling.enabled
  /\ req' = [req EXCEPT ![r].status = "REDEEMED"]

\* The part of a code exchange that decides: consent, generation and the atomic
\* APPROVED -> REDEEMED swap.
RedeemRequest(u, r) ==
  /\ consent[u].present /\ consent[u].scoped
  /\ req[r].status = "APPROVED"
  /\ req[r].user = u
  /\ req[r].consentGeneration = generation[u]
  /\ ceiling.enabled
  /\ req[r].delegationExpiresAt <= now + ceiling.lifetime
  /\ req' = [req EXCEPT ![r].status = "REDEEMED"]

\* The user makes another key primary.
ChangeKey(u) ==
  /\ \E k \in Key \ {key[u]} : key' = [key EXCEPT ![u] = k]
  /\ UNCHANGED <<now, consent, generation, ceiling, req, prep, tab, sweeping>>

\* An administrator edits or disables the client's native delegation.
ChangeCeiling ==
  /\ \E c \in Ceilings \ {ceiling} : ceiling' = c
  /\ UNCHANGED <<now, consent, generation, key, req, prep, tab, sweeping>>

Tick ==
  /\ now < MaxTime
  /\ now' = now + 1
  /\ UNCHANGED <<consent, generation, key, ceiling, req, prep, tab, sweeping>>

-------------------------------------------------------------------------------
\* Every step of a request but those that also touch codes, grants or tokens.
RequestStep ==
  \/ \E r \in Request : Par(r) \/ Resolve(r)
  \/ Sweep
  \/ \E t \in Tab, u \in User, r \in Request : PrepareRead(t, u, r)
  \/ \E t \in Tab, s \in Tab : SendAgain(t, s)
  \/ \E t \in Tab, u \in User : ApproveRead(t, u)
  \/ \E t \in Tab : \/ PrepareCommit(t) \/ ApproveCommit(t) \/ ApproveAgain(t)
                    \/ MarkHostSigned(t) \/ RecordHosting(t) \/ Abandon(t)
  \/ \E u \in User, r \in Request : Deny(u, r)
  \/ \E u \in User : ChangeKey(u)
  \/ ChangeCeiling
  \/ Tick

RequestNext ==
  \/ RequestStep
  \/ \E u \in User :
       AcceptConsent(u) /\ UNCHANGED <<now, generation, key, ceiling, req, prep, tab, sweeping>>
  \/ \E u \in User :
       ConsentLost(u) /\ WithdrawRequests(u) /\ UNCHANGED <<now, key, ceiling, prep, tab, sweeping>>
  \/ \E u \in User, r \in Request :
       RedeemRequest(u, r)
       /\ UNCHANGED <<now, consent, generation, key, ceiling, prep, tab, sweeping>>

RequestSpec == RequestInit /\ [][RequestNext]_requestVars

\* The sweep runs every ten seconds of a running process: unless there is nothing to sweep
\* again and again, it sweeps again and again (weak fairness, what enables Sweep written out).
SweepDue == sweeping /\ \E r \in Request : Sweepable(r)

SweepRuns == []<>~SweepDue \/ []<><<Sweep>>_requestVars

\* Time passes up to the bound; no user or administrator is made to do anything.
TimePasses == <>(now >= MaxTime)

FairRequestSpec == RequestSpec /\ SweepRuns /\ TimePasses

-------------------------------------------------------------------------------
(* Properties.                                                             *)

\* An APPROVED request always belongs to the consent generation that is current: a
\* withdrawal leaves no approval behind for a later consent to pick up, and an approval
\* that waited for the withdrawal does not record the generation it saw before.
ApprovalIsCurrent ==
  \A r \in Request : req[r].status = "APPROVED" =>
    /\ req[r].user \in User
    /\ req[r].consentGeneration = generation[req[r].user]

\* What was signed is the newest preparation, made for the same user: no prepare of
\* another tab slips in between the page's preview and the signature, or after it.
ApprovalIsNewestRevision ==
  \A r \in Request : req[r].status \in {"APPROVED", "REDEEMED"} =>
    /\ req[r].approvedRevision \in 1 .. Len(prep[r])
    /\ req[r].approvedRevision = Len(prep[r])
    /\ prep[r][req[r].approvedRevision].user = req[r].user

\* A request is signed for at most once: two tabs approving together, a repeated
\* approval and a late one leave the first approval's revision, generation and expiry.
SignedOnce ==
  [][\A r \in Request : req[r].approvedRevision # 0 /\ req'[r].status # "SWEPT" =>
       /\ req'[r].approvedRevision = req[r].approvedRevision
       /\ req'[r].consentGeneration = req[r].consentGeneration
       /\ req'[r].delegationExpiresAt = req[r].delegationExpiresAt]_requestVars

\* A denied, withdrawn or redeemed request never comes back: a handler that read the
\* request before its transaction does not overwrite what happened since.
TerminalStays ==
  [][\A r \in Request : req[r].status \in {"DENIED", "WITHDRAWN", "REDEEMED", "SWEPT"} =>
       req'[r].status \in {req[r].status, "SWEPT"}]_requestVars

\* The first user to prepare a request keeps it: a second user, with the same link
\* open in another browser, never takes it over.
OwnerStays ==
  [][\A r \in Request : req[r].user # NoUser /\ req'[r].status # "SWEPT" =>
       req'[r].user = req[r].user]_requestVars

\* Every request row is deleted in the end, used or not, bound to a user or not.
RowsEventuallySwept ==
  \A r \in Request : (req[r].status # "ABSENT") ~> (req[r].status = "SWEPT")
=============================================================================
