--------------------------- MODULE ManageKeyControl ---------------------------
(***************************************************************************)
(* Who may sign with a user's primary key: the mode of the account, the    *)
(* grant of each application, its consent, and the key itself.  The user's *)
(* pages change mode, grants and key; applications sign with the key and   *)
(* renew delegations signed by it.  A change and a signature take the row  *)
(* of the user FOR UPDATE, a renewal takes it FOR SHARE; a consent and the *)
(* archiving of a key take no lock of the user's.                          *)
(*                                                                         *)
(* A transaction is split where it waits: it takes its lock and reads the  *)
(* user, and it writes and commits in a later step.  A change is named by  *)
(* its body, which carries the epoch its page had seen.                    *)
(***************************************************************************)
EXTENDS Naturals, Sequences

CONSTANTS
  Client,
  NoClient,
  Key,
  NoKey,
  Browser,     \* pages of the user that change mode or grants
  Switcher,    \* calls that change the primary key
  Call,        \* signing calls and renewals of applications
  MaxEpoch     \* bound on the changes of the policy

ASSUME ManageKeyAssumption ==
  NoClient \notin Client /\ NoKey \notin Key /\ MaxEpoch \in Nat

VARIABLES
  user,      \* mode, epoch and legacy switch of the account
  pref,      \* tinycloud_manage_key_app_preference, by client
  consent,   \* oauth_consent: the scopes each client has
  flagged,   \* the keys with isCanonicalTinyCloud
  archived,  \* the keys that are archived
  log,       \* tinycloud_manage_key_control_event: the changes of mode and grants
  page,      \* what each page is in the middle of
  switch,    \* what each change of the primary key is in the middle of
  call       \* what each call of an application is in the middle of

vars == <<user, pref, consent, flagged, archived, log, page, switch, call>>

-------------------------------------------------------------------------------
Mode == {"APP_MANAGED", "USER_CONTROLLED_SHARED", "USER_CONTROLLED_EXCLUSIVE"}

Scope == {"manage-key", "delegation"}

\* The body of a change: of the mode, or of one application's grant.
RequestAt(epochs) ==
  [kind: {"mode"}, mode: Mode, client: {NoClient}, enabled: {FALSE}, expected: epochs]
    \cup [kind: {"grant"}, mode: {"APP_MANAGED"}, client: Client, enabled: BOOLEAN,
          expected: epochs]

Request == RequestAt(Nat)

UserState == [mode: Mode, epoch: Nat, enabled: BOOLEAN]

\* natives, the clients with a native consent when the change was made, is history.
Event == [epoch: Nat, request: Request, natives: SUBSET Client]

NoRequest ==
  [kind |-> "mode", mode |-> "APP_MANAGED", client |-> NoClient, enabled |-> FALSE, expected |-> 0]

PageState ==
  [stage: {"idle", "formed", "locked", "ok"}, request: Request, read: UserState]

FreshUser == [mode |-> "APP_MANAGED", epoch |-> 0, enabled |-> TRUE]

IdlePage == [stage |-> "idle", request |-> NoRequest, read |-> FreshUser]

SwitchState == [stage: {"idle", "locked"}, key: Key \cup {NoKey}]

IdleSwitch == [stage |-> "idle", key |-> NoKey]

CallState ==
  [kind: {"sign", "renew"}, stage: {"idle", "unsealed", "allowed", "signed", "delivered"},
   client: Client \cup {NoClient}, key: Key \cup {NoKey}]

IdleCall == [kind |-> "sign", stage |-> "idle", client |-> NoClient, key |-> NoKey]

ManageKeyTypeOK ==
  /\ user \in UserState
  /\ pref \in [Client -> {"none", "ENABLED", "DISABLED"}]
  /\ consent \in [Client -> SUBSET Scope]
  /\ flagged \subseteq Key /\ archived \subseteq Key
  /\ log \in Seq(Event)
  /\ page \in [Browser -> PageState]
  /\ switch \in [Switcher -> SwitchState]
  /\ call \in [Call -> CallState]

\* An account from before the modes may have its legacy switch off, and grants of its own.
Init ==
  /\ \E on \in BOOLEAN : user = [FreshUser EXCEPT !.enabled = on]
  /\ pref \in [Client -> {"none", "ENABLED", "DISABLED"}]
  /\ consent = [c \in Client |-> {}]
  /\ \E k \in Key : flagged = {k}
  /\ archived = {}
  /\ log = <<>>
  /\ page = [b \in Browser |-> IdlePage]
  /\ switch = [w \in Switcher |-> IdleSwitch]
  /\ call = [s \in Call |-> IdleCall]

-------------------------------------------------------------------------------
(* The lock on the row of the user.                                        *)

SignHolds(s) == call[s].kind = "sign" /\ call[s].stage \in {"allowed", "signed"}

RenewHolds(s) == call[s].kind = "renew" /\ call[s].stage \in {"allowed", "signed"}

\* No transaction has the row FOR UPDATE.
NoneExclusive ==
  /\ \A b \in Browser : page[b].stage # "locked"
  /\ \A w \in Switcher : switch[w].stage # "locked"
  /\ \A s \in Call : ~ SignHolds(s)

\* No transaction has the row at all.
NoneHolds == NoneExclusive /\ \A s \in Call : ~ RenewHolds(s)

\* Mutant of RenewMayLock: the row is read without a lock.
NoLock == TRUE

ChangeMayLock == NoneHolds

RenewMayLock == NoneExclusive

-------------------------------------------------------------------------------
(* Changes of the mode and of a grant.                                     *)

\* The page shows the epoch it read, and the user chooses a change.
Form(b) ==
  /\ page[b].stage = "idle" /\ user.epoch < MaxEpoch
  /\ \E r \in RequestAt({user.epoch}) :
       page' = [page EXCEPT ![b] = [IdlePage EXCEPT !.stage = "formed", !.request = r]]
  /\ UNCHANGED <<user, pref, consent, flagged, archived, log, switch, call>>

\* Another page, or the same one again, sends the very same body.
Copy(b, o) ==
  /\ page[b].stage = "idle" /\ page[o].stage # "idle"
  /\ page' = [page EXCEPT ![b] = [IdlePage EXCEPT !.stage = "formed", !.request = page[o].request]]
  /\ UNCHANGED <<user, pref, consent, flagged, archived, log, switch, call>>

\* The lock, and the read of mode and epoch under it.
ChangeLock(b) ==
  /\ page[b].stage = "formed"
  /\ ChangeMayLock
  /\ page' = [page EXCEPT ![b].stage = "locked", ![b].read = user]
  /\ UNCHANGED <<user, pref, consent, flagged, archived, log, switch, call>>

StatusOf(enabled) == IF enabled THEN "ENABLED" ELSE "DISABLED"

\* Mutant of Replayed: the event may be older than the latest change.
ReplayedOnce(r, epoch) == \E i \in DOMAIN log : log[i].request = r

\* The change with this body was made, and nothing changed after it.
Replayed(r, epoch) ==
  \E i \in DOMAIN log : log[i].request = r /\ log[i].epoch = epoch

InPlace(r, mode) ==
  IF r.kind = "mode" THEN mode = r.mode ELSE pref[r.client] = StatusOf(r.enabled)

AllowedTransition(from, to) == from # to /\ to # "APP_MANAGED"

\* Without success the page still has its change, and may send it again.
Answer(b, stage) == page' = [page EXCEPT ![b].stage = stage, ![b].read = FreshUser]

Natives == {c \in Client : "delegation" \in consent[c]}

Recorded(r, epoch) == Append(log, [epoch |-> epoch, request |-> r, natives |-> Natives])

\* An epoch that is not the current one: only a repetition of the latest change succeeds.
ChangeStale(b) ==
  /\ page[b].stage = "locked" /\ page[b].read.epoch # page[b].request.expected
  /\ LET r == page[b].request
         u == page[b].read
     IN  Answer(b, IF Replayed(r, u.epoch) /\ InPlace(r, u.mode) THEN "ok" ELSE "formed")
  /\ UNCHANGED <<user, pref, consent, flagged, archived, log, switch, call>>

Current(b, kind) ==
  /\ page[b].stage = "locked" /\ page[b].request.kind = kind
  /\ page[b].read.epoch = page[b].request.expected

\* Mutant of TakenOver: only the clients with a native consent are disabled.
TakenOverNatives == [c \in Client |-> IF c \in Natives THEN "DISABLED" ELSE pref[c]]

\* Taking exclusive control disables every enabled grant, and every native one.
TakenOver ==
  [c \in Client |-> IF pref[c] = "ENABLED" \/ c \in Natives THEN "DISABLED" ELSE pref[c]]

ChangeMode(b) ==
  LET r == page[b].request
      u == page[b].read
  IN  /\ Current(b, "mode")
      /\ \/ /\ u.mode = r.mode
            /\ Answer(b, "ok")
            /\ UNCHANGED <<user, pref, log>>
         \/ /\ u.mode # r.mode
            /\ ~ AllowedTransition(u.mode, r.mode) \/ user.epoch # u.epoch
            /\ Answer(b, "formed")
            /\ UNCHANGED <<user, pref, log>>
         \/ /\ AllowedTransition(u.mode, r.mode) /\ user.epoch = u.epoch
            /\ user' = [mode |-> r.mode, epoch |-> u.epoch + 1,
                        enabled |-> r.mode # "USER_CONTROLLED_EXCLUSIVE"]
            /\ pref' = IF r.mode = "USER_CONTROLLED_EXCLUSIVE" THEN TakenOver ELSE pref
            /\ log' = Recorded(r, u.epoch + 1)
            /\ Answer(b, "ok")
      /\ UNCHANGED <<consent, flagged, archived, switch, call>>

\* The grant is written before the epoch is compared, and stays if it does not match.
ChangeGrant(b) ==
  LET r == page[b].request
      u == page[b].read
  IN  /\ Current(b, "grant")
      /\ \/ /\ consent[r.client] = {}
            /\ Answer(b, "formed")
            /\ UNCHANGED <<user, pref, log>>
         \/ /\ consent[r.client] # {} /\ InPlace(r, u.mode)
            /\ Answer(b, "ok")
            /\ UNCHANGED <<user, pref, log>>
         \/ /\ consent[r.client] # {} /\ ~ InPlace(r, u.mode)
            /\ pref' = [pref EXCEPT ![r.client] = StatusOf(r.enabled)]
            /\ \/ /\ user.epoch = u.epoch
                  /\ user' = [user EXCEPT !.epoch = @ + 1]
                  /\ log' = Recorded(r, u.epoch + 1)
                  /\ Answer(b, "ok")
               \/ /\ user.epoch # u.epoch
                  /\ Answer(b, "formed")
                  /\ UNCHANGED <<user, log>>
      /\ UNCHANGED <<consent, flagged, archived, switch, call>>

\* The answer arrives, is lost and the change sent again, or the transaction failed.
PageDone(b) ==
  /\ page[b].stage # "idle"
  /\ page' = [page EXCEPT ![b] = IdlePage]
  /\ UNCHANGED <<user, pref, consent, flagged, archived, log, switch, call>>

PageRetry(b) ==
  /\ page[b].stage \in {"locked", "ok"}
  /\ Answer(b, "formed")
  /\ UNCHANGED <<user, pref, consent, flagged, archived, log, switch, call>>

-------------------------------------------------------------------------------
(* The primary key.                                                        *)

Primary == flagged \ archived

SwitchLock(w, k) ==
  /\ switch[w].stage = "idle"
  /\ ChangeMayLock
  /\ k \notin archived
  /\ switch' = [switch EXCEPT ![w] = [stage |-> "locked", key |-> k]]
  /\ UNCHANGED <<user, pref, consent, flagged, archived, log, page, call>>

\* Every other key of the user loses the flag, archived ones too.
Flagged(k) == {k}

SwitchKey(w) ==
  /\ switch[w].stage = "locked"
  /\ switch[w].key \notin archived
  /\ flagged' = IF switch[w].key \in Primary THEN flagged ELSE Flagged(switch[w].key)
  /\ switch' = [switch EXCEPT ![w] = IdleSwitch]
  /\ UNCHANGED <<user, pref, consent, archived, log, page, call>>

\* The key was archived meanwhile, cannot be unsealed, or the transaction failed.
SwitchFail(w) ==
  /\ switch[w].stage = "locked"
  /\ switch' = [switch EXCEPT ![w] = IdleSwitch]
  /\ UNCHANGED <<user, pref, consent, flagged, archived, log, page, call>>

Archive(k) ==
  /\ archived' = IF k \in archived THEN archived \ {k} ELSE archived \cup {k}
  /\ UNCHANGED <<user, pref, consent, flagged, log, page, switch, call>>

-------------------------------------------------------------------------------
(* Signing and renewing.                                                   *)

SignAllowed(c) ==
  /\ user.mode # "USER_CONTROLLED_EXCLUSIVE" /\ user.enabled
  /\ IF user.mode = "APP_MANAGED" THEN pref[c] # "DISABLED" ELSE pref[c] = "ENABLED"

RenewAllowed(c) == user.mode # "USER_CONTROLLED_EXCLUSIVE" /\ pref[c] # "DISABLED"

\* The decision under the lock.  A denial leaves a line in the audit table alone.
SignDecide(s, c) ==
  /\ call[s].stage = "idle"
  /\ ChangeMayLock
  /\ "manage-key" \in consent[c] /\ SignAllowed(c)
  /\ call' = [call EXCEPT ![s] =
       [kind |-> "sign", stage |-> "allowed", client |-> c, key |-> NoKey]]
  /\ UNCHANGED <<user, pref, consent, flagged, archived, log, page, switch>>

\* The key is read and unsealed in the same transaction.
SignBytes(s) ==
  /\ SignHolds(s) /\ call[s].stage = "allowed"
  /\ \E k \in Primary : call' = [call EXCEPT ![s].stage = "signed", ![s].key = k]
  /\ UNCHANGED <<user, pref, consent, flagged, archived, log, page, switch>>

\* A renewal unseals the key before it takes any lock.
RenewUnseal(s, c) ==
  /\ call[s].stage = "idle"
  /\ \E k \in Primary :
       call' = [call EXCEPT ![s] =
         [kind |-> "renew", stage |-> "unsealed", client |-> c, key |-> k]]
  /\ UNCHANGED <<user, pref, consent, flagged, archived, log, page, switch>>

\* The row of the user and the consent are held from here until the commit.
RenewDecide(s) ==
  /\ call[s].stage = "unsealed"
  /\ RenewMayLock
  /\ "delegation" \in consent[call[s].client] /\ RenewAllowed(call[s].client)
  /\ call[s].key \in Primary
  /\ call' = [call EXCEPT ![s].stage = "allowed"]
  /\ UNCHANGED <<user, pref, consent, flagged, archived, log, page, switch>>

RenewBytes(s) ==
  /\ RenewHolds(s) /\ call[s].stage = "allowed"
  /\ call' = [call EXCEPT ![s].stage = "signed"]
  /\ UNCHANGED <<user, pref, consent, flagged, archived, log, page, switch>>

\* The commit, after which the answer is sent.
Deliver(s) ==
  /\ call[s].stage = "signed"
  /\ call' = [call EXCEPT ![s] = [IdleCall EXCEPT !.stage = "delivered"]]
  /\ UNCHANGED <<user, pref, consent, flagged, archived, log, page, switch>>

\* The answer was sent; or the call was refused, failed, or ran past the time of its
\* transaction, whose locks are gone and whose signature is then never sent.
CallDone(s) ==
  /\ call[s].stage # "idle"
  /\ call' = [call EXCEPT ![s] = IdleCall]
  /\ UNCHANGED <<user, pref, consent, flagged, archived, log, page, switch>>

\* The provider gives a consent its scopes, or a Disconnect takes it away: the row is
\* written, so it waits for the renewals that hold it.
ConsentChanges(c) ==
  /\ \A s \in Call : RenewHolds(s) => call[s].client # c
  /\ \E scopes \in SUBSET Scope : consent' = [consent EXCEPT ![c] = scopes]
  /\ UNCHANGED <<user, pref, flagged, archived, log, page, switch, call>>

Next ==
  \/ \E b \in Browser :
       \/ Form(b) \/ ChangeLock(b) \/ ChangeStale(b) \/ ChangeMode(b) \/ ChangeGrant(b)
       \/ PageDone(b) \/ PageRetry(b)
  \/ \E b, o \in Browser : Copy(b, o)
  \/ \E w \in Switcher : SwitchKey(w) \/ SwitchFail(w)
  \/ \E w \in Switcher, k \in Key : SwitchLock(w, k)
  \/ \E k \in Key : Archive(k)
  \/ \E s \in Call, c \in Client : SignDecide(s, c) \/ RenewUnseal(s, c)
  \/ \E s \in Call : SignBytes(s) \/ RenewDecide(s) \/ RenewBytes(s) \/ Deliver(s) \/ CallDone(s)
  \/ \E c \in Client : ConsentChanges(c)

Spec == Init /\ [][Next]_vars

-------------------------------------------------------------------------------
(* Properties.                                                             *)

\* What the policy says of a signature at this moment.
Permits(s) ==
  /\ flagged = {call[s].key}
  /\ IF call[s].kind = "sign" THEN SignAllowed(call[s].client)
     ELSE RenewAllowed(call[s].client) /\ "delegation" \in consent[call[s].client]

\* A signature is released only while the policy it was decided under is in force: no
\* change of mode, grant or key has been committed since the decision, the key is the only
\* one that can be the primary key, and for a renewal the consent is still there.
SignedUnderPolicy ==
  [][\A s \in Call :
       call[s].stage # "delivered" /\ call'[s].stage = "delivered" => Permits(s)]_vars

Enables(e, c) == e.request.kind = "grant" /\ e.request.client = c /\ e.request.enabled

TakesOver(e) == e.request.kind = "mode" /\ e.request.mode = "USER_CONTROLLED_EXCLUSIVE"

\* An event after which an application is blocked until it is enabled again.
Blocks(e, c) ==
  \/ TakesOver(e) /\ c \in e.natives
  \/ e.request.kind = "grant" /\ e.request.client = c /\ ~ e.request.enabled

ChangesMode(e) == e.request.kind = "mode"

\* The log explains the policy: one event for each epoch, in order, none of which hands
\* control back; the mode is the last one's; and an application is enabled after the user
\* took exclusive control, or not blocked after it was, only by an event that enabled it.
LogExplainsPolicy ==
  /\ Len(log) = user.epoch
  /\ \A i \in DOMAIN log :
       /\ log[i].epoch = i /\ log[i].request.expected + 1 = i
       /\ ChangesMode(log[i]) =>
            /\ log[i].request.mode # "APP_MANAGED"
            /\ \/ user.mode = log[i].request.mode
               \/ \E j \in DOMAIN log : j > i /\ ChangesMode(log[j])
  /\ \A c \in Client, i \in DOMAIN log :
       \/ \E j \in DOMAIN log : j > i /\ Enables(log[j], c)
       \/ /\ TakesOver(log[i]) => pref[c] # "ENABLED"
          /\ Blocks(log[i], c) => pref[c] = "DISABLED"

\* A change is answered with success only while its sender's view is current: nothing but
\* that very change was made after the epoch the page had seen.
SuccessIsCurrent ==
  [][\A b \in Browser :
       page[b].stage = "locked" /\ page'[b].stage = "ok" =>
         LET r == page[b].request
         IN  \/ user'.epoch = r.expected
             \/ user'.epoch = r.expected + 1 /\ log'[r.expected + 1].request = r]_vars
===============================================================================
