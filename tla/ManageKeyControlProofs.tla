------------------------ MODULE ManageKeyControlProofs ------------------------
(***************************************************************************)
(* ManageKeyControl for any clients, keys, pages and calls: the row of the *)
(* user has one exclusive holder or shared ones, what a holder read is     *)
(* still so, and the log of changes explains the policy.                   *)
(***************************************************************************)
EXTENDS ManageKeyControl, TLAPS

-------------------------------------------------------------------------------
(* The inductive invariant.                                                *)

\* An exclusive holder is alone.
OneHolder ==
  /\ \A b \in Browser : page[b].stage = "locked" =>
       /\ \A o \in Browser : page[o].stage = "locked" => o = b
       /\ \A w \in Switcher : switch[w].stage # "locked"
       /\ \A s \in Call : ~ SignHolds(s) /\ ~ RenewHolds(s)
  /\ \A w \in Switcher : switch[w].stage = "locked" =>
       /\ switch[w].key \in Key
       /\ \A o \in Switcher : switch[o].stage = "locked" => o = w
       /\ \A s \in Call : ~ SignHolds(s) /\ ~ RenewHolds(s)
  /\ \A s \in Call : SignHolds(s) =>
       \A o \in Call : (SignHolds(o) => o = s) /\ ~ RenewHolds(o)

\* What a change read under the lock is what it still finds.
ReadCurrent ==
  \A b \in Browser : page[b].stage = "locked" => page[b].read = user

\* A call that holds the row may go on.
HoldersMay ==
  \A s \in Call :
    /\ call[s].stage # "idle" /\ call[s].stage # "delivered" => call[s].client \in Client
    /\ call[s].stage = "unsealed" => call[s].kind = "renew"
    /\ SignHolds(s) => SignAllowed(call[s].client)
    /\ RenewHolds(s) => RenewAllowed(call[s].client) /\ "delegation" \in consent[call[s].client]
    /\ RenewHolds(s) \/ call[s].stage = "signed" => flagged = {call[s].key}

OnePrimary == \E k \in Key : flagged = {k}

ManageKeyInv ==
  /\ ManageKeyTypeOK
  /\ OneHolder
  /\ ReadCurrent
  /\ HoldersMay
  /\ OnePrimary
  /\ LogExplainsPolicy

-------------------------------------------------------------------------------
(* What the pieces return.                                                 *)

LEMMA RequestFacts ==
  /\ NoRequest \in Request
  /\ \A r \in Request :
       /\ r.mode \in Mode /\ r.expected \in Nat /\ r.enabled \in BOOLEAN
       /\ r.kind \in {"mode", "grant"}
       /\ r.kind = "grant" => r.client \in Client
BY DEF Request, RequestAt, NoRequest, Mode

\* A log with one event more.
LEMMA AppendFacts ==
  ASSUME NEW S, NEW seq \in Seq(S), NEW e \in S
  PROVE  /\ Append(seq, e) \in Seq(S)
         /\ Len(seq) \in Nat
         /\ DOMAIN seq = 1..Len(seq)
         /\ Len(Append(seq, e)) = Len(seq) + 1
         /\ DOMAIN Append(seq, e) = 1..(Len(seq) + 1)
         /\ \A i \in 1..Len(seq) : Append(seq, e)[i] = seq[i]
         /\ Append(seq, e)[Len(seq) + 1] = e
OBVIOUS

LEMMA TakenOverFacts ==
  ASSUME ManageKeyTypeOK
  PROVE  /\ TakenOver \in [Client -> {"none", "ENABLED", "DISABLED"}]
         /\ \A c \in Client : /\ TakenOver[c] # "ENABLED"
                              /\ pref[c] = "DISABLED" => TakenOver[c] = "DISABLED"
                              /\ c \in Natives => TakenOver[c] = "DISABLED"
BY DEF ManageKeyTypeOK, TakenOver

-------------------------------------------------------------------------------
(* Steps of pages that leave the policy alone.                             *)

\* A page without the lock moves, or gives the lock back.
LEMMA PageMoves ==
  ASSUME ManageKeyInv, NEW b \in Browser, NEW p \in PageState, p.stage # "locked",
         page' = [page EXCEPT ![b] = p],
         UNCHANGED <<user, pref, consent, flagged, archived, log, switch, call>>
  PROVE  ManageKeyInv'
<1> USE DEF ManageKeyInv
<1>1. ManageKeyTypeOK'
  BY DEF ManageKeyTypeOK
<1>2. \A o \in Browser : page'[o].stage = "locked" => page[o].stage = "locked" /\ page'[o] = page[o]
  BY DEF ManageKeyTypeOK
<1>3. OneHolder'
  BY <1>2 DEF OneHolder, SignHolds, RenewHolds
<1>4. ReadCurrent'
  BY <1>2 DEF ReadCurrent
<1>5. HoldersMay' /\ OnePrimary'
  BY DEF HoldersMay, SignHolds, RenewHolds, SignAllowed, RenewAllowed, OnePrimary
<1>6. LogExplainsPolicy'
  BY DEF LogExplainsPolicy, Enables, TakesOver, Blocks, ChangesMode
<1> QED BY <1>1, <1>3, <1>4, <1>5, <1>6

LEMMA ChangeLockInv ==
  ASSUME ManageKeyInv, NEW b \in Browser, ChangeLock(b)
  PROVE  ManageKeyInv'
<1> USE DEF ManageKeyInv
<1>1. NoneHolds /\ page' = [page EXCEPT ![b] = [page[b] EXCEPT !.stage = "locked", !.read = user]]
      /\ UNCHANGED <<user, pref, consent, flagged, archived, log, switch, call>>
  BY DEF ChangeLock, ChangeMayLock, ManageKeyTypeOK
<1>2. page[b] \in PageState /\ user \in UserState
  BY DEF ManageKeyTypeOK
<1>3. [page[b] EXCEPT !.stage = "locked", !.read = user] \in PageState
  BY <1>2 DEF PageState
<1>4. ManageKeyTypeOK'
  BY <1>1, <1>3 DEF ManageKeyTypeOK
<1>5. \A o \in Browser : page'[o].stage = "locked" => o = b
  BY <1>1 DEF NoneHolds, NoneExclusive, ManageKeyTypeOK
<1>6. page'[b].read = user
  BY <1>1, <1>2 DEF PageState, ManageKeyTypeOK
<1>7. OneHolder'
  BY <1>1, <1>5 DEF OneHolder, NoneHolds, NoneExclusive, SignHolds, RenewHolds
<1>8. ReadCurrent'
  BY <1>1, <1>5, <1>6 DEF ReadCurrent
<1>9. HoldersMay' /\ OnePrimary'
  BY <1>1 DEF HoldersMay, SignHolds, RenewHolds, SignAllowed, RenewAllowed, OnePrimary
<1>10. LogExplainsPolicy'
  BY <1>1 DEF LogExplainsPolicy, Enables, TakesOver, Blocks, ChangesMode
<1> QED BY <1>4, <1>7, <1>8, <1>9, <1>10

\* The page a change leaves behind.
LEMMA AnswerFacts ==
  ASSUME ManageKeyTypeOK, NEW b \in Browser, NEW stage \in {"idle", "formed", "ok"},
         Answer(b, stage)
  PROVE  LET p == [page[b] EXCEPT !.stage = stage, !.read = FreshUser]
         IN  /\ p \in PageState /\ p.stage = stage
             /\ page' = [page EXCEPT ![b] = p]
<1>1. page[b] \in PageState /\ FreshUser \in UserState
  BY DEF ManageKeyTypeOK, FreshUser, UserState, Mode
<1> QED BY <1>1 DEF Answer, PageState, ManageKeyTypeOK

-------------------------------------------------------------------------------
(* Changes of the policy.                                                  *)

\* A change commits: its page was the only holder of the row.
LEMMA CommitInv ==
  ASSUME ManageKeyInv, NEW b \in Browser, page[b].stage = "locked",
         Answer(b, "ok"), user' \in UserState, log' \in Seq(Event),
         pref' \in [Client -> {"none", "ENABLED", "DISABLED"}], LogExplainsPolicy',
         UNCHANGED <<consent, flagged, archived, switch, call>>
  PROVE  ManageKeyInv'
<1> USE DEF ManageKeyInv
<1> DEFINE p == [page[b] EXCEPT !.stage = "ok", !.read = FreshUser]
<1>1. p \in PageState /\ p.stage = "ok" /\ page' = [page EXCEPT ![b] = p]
  BY AnswerFacts
<1> HIDE DEF p
<1>2. ManageKeyTypeOK'
  BY <1>1 DEF ManageKeyTypeOK
<1>3. \A o \in Browser : page'[o].stage # "locked"
  BY <1>1 DEF OneHolder, ManageKeyTypeOK
<1>4. \A s \in Call : ~ SignHolds(s) /\ ~ RenewHolds(s) /\ call[s].stage # "signed"
  BY DEF OneHolder, SignHolds, RenewHolds, ManageKeyTypeOK, CallState
<1>5. OneHolder'
  BY <1>3, <1>4 DEF OneHolder, SignHolds, RenewHolds
<1>6. ReadCurrent'
  BY <1>3 DEF ReadCurrent
<1>7. HoldersMay' /\ OnePrimary'
  BY <1>4 DEF HoldersMay, SignHolds, RenewHolds, OnePrimary
<1> QED BY <1>2, <1>5, <1>6, <1>7

\* A step of a page that answers without changing anything.
LEMMA AnswerInv ==
  ASSUME ManageKeyInv, NEW b \in Browser, NEW stage \in {"idle", "formed", "ok"},
         Answer(b, stage),
         UNCHANGED <<user, pref, consent, flagged, archived, log, switch, call>>
  PROVE  ManageKeyInv'
<1> DEFINE p == [page[b] EXCEPT !.stage = stage, !.read = FreshUser]
<1>1. p \in PageState /\ p.stage = stage /\ page' = [page EXCEPT ![b] = p]
  BY AnswerFacts DEF ManageKeyInv
<1> HIDE DEF p
<1> QED BY <1>1, PageMoves

LEMMA ChangeModeInv ==
  ASSUME ManageKeyInv, NEW b \in Browser, ChangeMode(b)
  PROVE  ManageKeyInv'
<1> USE DEF ManageKeyInv
<1>1. /\ page[b].stage = "locked" /\ page[b].read = user
      /\ page[b].request.kind = "mode" /\ user.epoch = page[b].request.expected
      /\ UNCHANGED <<consent, flagged, archived, switch, call>>
  BY DEF ChangeMode, Current, ReadCurrent
<1>2. CASE UNCHANGED <<user, pref, log>>
  <2>1. Answer(b, "ok") \/ Answer(b, "formed")
    BY <1>1, <1>2 DEF ChangeMode
  <2> QED BY <1>1, <1>2, <2>1, AnswerInv
<1>3. CASE ~ UNCHANGED <<user, pref, log>>
  <2> DEFINE r == page[b].request
  <2> DEFINE e == [epoch |-> user.epoch + 1, request |-> r, natives |-> Natives]
  <2>1. /\ AllowedTransition(user.mode, r.mode)
        /\ user' = [mode |-> r.mode, epoch |-> user.epoch + 1,
                    enabled |-> r.mode # "USER_CONTROLLED_EXCLUSIVE"]
        /\ pref' = IF r.mode = "USER_CONTROLLED_EXCLUSIVE" THEN TakenOver ELSE pref
        /\ log' = Append(log, e)
        /\ Answer(b, "ok")
    BY <1>1, <1>3 DEF ChangeMode, Recorded
  <2>2. r \in Request /\ r.mode \in Mode /\ r.kind = "mode" /\ r.expected = user.epoch
        /\ user.epoch \in Nat /\ user \in UserState
    BY <1>1, RequestFacts DEF ManageKeyTypeOK, PageState, UserState
  <2>3. e \in Event /\ e.request = r /\ e.epoch = user.epoch + 1 /\ e.natives = Natives
    BY <2>2 DEF Event, Natives
  <2>4. user' \in UserState /\ user'.mode = r.mode /\ user'.epoch = user.epoch + 1
    BY <2>1, <2>2 DEF UserState
  <2>5. pref' \in [Client -> {"none", "ENABLED", "DISABLED"}]
    BY <2>1, TakenOverFacts DEF ManageKeyTypeOK
  <2> HIDE DEF e, r
  <2>6. /\ log' \in Seq(Event) /\ Len(log) \in Nat /\ DOMAIN log = 1..Len(log)
        /\ Len(log') = Len(log) + 1 /\ DOMAIN log' = 1..(Len(log) + 1)
        /\ \A i \in 1..Len(log) : log'[i] = log[i]
        /\ log'[Len(log) + 1] = e
    BY <2>1, <2>3, AppendFacts DEF ManageKeyTypeOK
  <2>7. Len(log) = user.epoch
    BY DEF LogExplainsPolicy
  <2>8. LogExplainsPolicy'
    <3>1. Len(log') = user'.epoch
      BY <2>4, <2>6, <2>7
    <3>2. ASSUME NEW i \in DOMAIN log'
          PROVE  /\ log'[i].epoch = i /\ log'[i].request.expected + 1 = i
                 /\ ChangesMode(log'[i]) =>
                      /\ log'[i].request.mode # "APP_MANAGED"
                      /\ \/ user'.mode = log'[i].request.mode
                         \/ \E j \in DOMAIN log' : j > i /\ ChangesMode(log'[j])
      <4>1. CASE i = Len(log) + 1
        BY <2>1, <2>2, <2>3, <2>4, <2>6, <2>7, <4>1 DEF AllowedTransition
      <4>2. CASE i \in 1..Len(log)
        <5>1. ChangesMode(log'[Len(log) + 1]) /\ Len(log) + 1 \in DOMAIN log' /\ Len(log) + 1 > i
          BY <2>2, <2>3, <2>6, <4>2 DEF ChangesMode
        <5>2. log'[i] = log[i] /\ i \in DOMAIN log
          BY <2>6, <4>2
        <5> QED BY <5>1, <5>2 DEF LogExplainsPolicy
      <4> QED BY <2>6, <4>1, <4>2
    <3>3. ASSUME NEW c \in Client, NEW i \in DOMAIN log'
          PROVE  \/ \E j \in DOMAIN log' : j > i /\ Enables(log'[j], c)
                 \/ /\ TakesOver(log'[i]) => pref'[c] # "ENABLED"
                    /\ Blocks(log'[i], c) => pref'[c] = "DISABLED"
      <4>1. CASE i = Len(log) + 1
        <5>1. log'[i] = e
          BY <2>6, <4>1
        <5>2. TakesOver(e) => r.mode = "USER_CONTROLLED_EXCLUSIVE"
          BY <2>3 DEF TakesOver
        <5>3. Blocks(e, c) => r.mode = "USER_CONTROLLED_EXCLUSIVE" /\ c \in Natives
          BY <2>2, <2>3 DEF Blocks, TakesOver
        <5> QED BY <2>1, <5>1, <5>2, <5>3, TakenOverFacts
      <4>2. CASE i \in 1..Len(log)
        <5>1. log'[i] = log[i] /\ i \in DOMAIN log
          BY <2>6, <4>2
        <5>2. (\E j \in DOMAIN log : j > i /\ Enables(log[j], c)) =>
                \E j \in DOMAIN log' : j > i /\ Enables(log'[j], c)
          BY <2>6
        <5>3. (TakesOver(log[i]) => pref[c] # "ENABLED") => (TakesOver(log[i]) => pref'[c] # "ENABLED")
          BY <2>1, TakenOverFacts
        <5>4. (Blocks(log[i], c) => pref[c] = "DISABLED") => (Blocks(log[i], c) => pref'[c] = "DISABLED")
          BY <2>1, TakenOverFacts
        <5> QED BY <5>1, <5>2, <5>3, <5>4 DEF LogExplainsPolicy
      <4> QED BY <2>6, <4>1, <4>2
    <3> QED BY <3>1, <3>2, <3>3 DEF LogExplainsPolicy
  <2> QED BY <1>1, <2>1, <2>4, <2>5, <2>6, <2>8, CommitInv
<1> QED BY <1>2, <1>3

LEMMA ChangeGrantInv ==
  ASSUME ManageKeyInv, NEW b \in Browser, ChangeGrant(b)
  PROVE  ManageKeyInv'
<1> USE DEF ManageKeyInv
<1>1. /\ page[b].stage = "locked" /\ page[b].read = user
      /\ page[b].request.kind = "grant" /\ user.epoch = page[b].request.expected
      /\ UNCHANGED <<consent, flagged, archived, switch, call>>
  BY DEF ChangeGrant, Current, ReadCurrent
<1>2. CASE UNCHANGED <<user, pref, log>>
  <2>1. Answer(b, "ok") \/ Answer(b, "formed")
    BY <1>1, <1>2 DEF ChangeGrant
  <2> QED BY <1>1, <1>2, <2>1, AnswerInv
<1>3. CASE ~ UNCHANGED <<user, pref, log>>
  <2> DEFINE r == page[b].request
  <2> DEFINE e == [epoch |-> user.epoch + 1, request |-> r, natives |-> Natives]
  <2>1. /\ user' = [user EXCEPT !.epoch = @ + 1]
        /\ pref' = [pref EXCEPT ![r.client] = StatusOf(r.enabled)]
        /\ log' = Append(log, e)
        /\ Answer(b, "ok")
    BY <1>1, <1>3 DEF ChangeGrant, Recorded
  <2>2. r \in Request /\ r.client \in Client /\ r.kind = "grant" /\ r.enabled \in BOOLEAN
        /\ r.expected = user.epoch /\ user.epoch \in Nat /\ user \in UserState
    BY <1>1, RequestFacts DEF ManageKeyTypeOK, PageState, UserState
  <2>3. e \in Event /\ e.request = r /\ e.epoch = user.epoch + 1 /\ e.natives = Natives
    BY <2>2 DEF Event, Natives
  <2>4. user' \in UserState /\ user'.mode = user.mode /\ user'.epoch = user.epoch + 1
    BY <2>1, <2>2 DEF UserState
  <2>5. pref' \in [Client -> {"none", "ENABLED", "DISABLED"}]
    BY <2>1, <2>2 DEF ManageKeyTypeOK, StatusOf
  <2>5a. \A c \in Client : pref'[c] = IF c = r.client THEN StatusOf(r.enabled) ELSE pref[c]
    BY <2>1, <2>2 DEF ManageKeyTypeOK
  <2> HIDE DEF e, r
  <2>6. /\ log' \in Seq(Event) /\ Len(log) \in Nat /\ DOMAIN log = 1..Len(log)
        /\ Len(log') = Len(log) + 1 /\ DOMAIN log' = 1..(Len(log) + 1)
        /\ \A i \in 1..Len(log) : log'[i] = log[i]
        /\ log'[Len(log) + 1] = e
    BY <2>1, <2>3, AppendFacts DEF ManageKeyTypeOK
  <2>7. Len(log) = user.epoch
    BY DEF LogExplainsPolicy
  <2>8. LogExplainsPolicy'
    <3>1. Len(log') = user'.epoch
      BY <2>4, <2>6, <2>7
    <3>2. ASSUME NEW i \in DOMAIN log'
          PROVE  /\ log'[i].epoch = i /\ log'[i].request.expected + 1 = i
                 /\ ChangesMode(log'[i]) =>
                      /\ log'[i].request.mode # "APP_MANAGED"
                      /\ \/ user'.mode = log'[i].request.mode
                         \/ \E j \in DOMAIN log' : j > i /\ ChangesMode(log'[j])
      <4>1. CASE i = Len(log) + 1
        BY <2>2, <2>3, <2>6, <2>7, <4>1 DEF ChangesMode
      <4>2. CASE i \in 1..Len(log)
        <5>1. log'[i] = log[i] /\ i \in DOMAIN log
          BY <2>6, <4>2
        <5>2. (\E j \in DOMAIN log : j > i /\ ChangesMode(log[j])) =>
                \E j \in DOMAIN log' : j > i /\ ChangesMode(log'[j])
          BY <2>6
        <5> QED BY <2>4, <5>1, <5>2 DEF LogExplainsPolicy
      <4> QED BY <2>6, <4>1, <4>2
    <3>3. ASSUME NEW c \in Client, NEW i \in DOMAIN log'
          PROVE  \/ \E j \in DOMAIN log' : j > i /\ Enables(log'[j], c)
                 \/ /\ TakesOver(log'[i]) => pref'[c] # "ENABLED"
                    /\ Blocks(log'[i], c) => pref'[c] = "DISABLED"
      <4>1. CASE i = Len(log) + 1
        <5>1. log'[i] = e /\ ~ TakesOver(e)
          BY <2>2, <2>3, <2>6, <4>1 DEF TakesOver
        <5>2. Blocks(e, c) => c = r.client /\ ~ r.enabled
          BY <2>2, <2>3 DEF Blocks, TakesOver
        <5> QED BY <2>5a, <5>1, <5>2 DEF StatusOf
      <4>2. CASE i \in 1..Len(log) /\ c = r.client /\ r.enabled
        <5>1. Enables(log'[Len(log) + 1], c) /\ Len(log) + 1 \in DOMAIN log' /\ Len(log) + 1 > i
          BY <2>2, <2>3, <2>6, <4>2 DEF Enables
        <5> QED BY <5>1
      <4>3. CASE i \in 1..Len(log) /\ ~ (c = r.client /\ r.enabled)
        <5>1. log'[i] = log[i] /\ i \in DOMAIN log
          BY <2>6, <4>3
        <5>2. (\E j \in DOMAIN log : j > i /\ Enables(log[j], c)) =>
                \E j \in DOMAIN log' : j > i /\ Enables(log'[j], c)
          BY <2>6
        <5>3. pref'[c] = pref[c] \/ pref'[c] = "DISABLED"
          BY <2>2, <2>5a, <4>3 DEF StatusOf
        <5> QED BY <5>1, <5>2, <5>3 DEF LogExplainsPolicy
      <4> QED BY <2>6, <4>1, <4>2, <4>3
    <3> QED BY <3>1, <3>2, <3>3 DEF LogExplainsPolicy
  <2> QED BY <1>1, <2>1, <2>4, <2>5, <2>6, <2>8, CommitInv
<1> QED BY <1>2, <1>3

LEMMA ChangeStaleInv ==
  ASSUME ManageKeyInv, NEW b \in Browser, ChangeStale(b)
  PROVE  ManageKeyInv'
<1>1. Answer(b, "ok") \/ Answer(b, "formed")
  BY DEF ChangeStale
<1> QED BY <1>1, AnswerInv DEF ChangeStale

LEMMA FormInv ==
  ASSUME ManageKeyInv, NEW b \in Browser, Form(b)
  PROVE  ManageKeyInv'
<1>1. user \in UserState /\ user.epoch \in Nat
  BY DEF ManageKeyInv, ManageKeyTypeOK, UserState
<1>2. PICK r \in RequestAt({user.epoch}) :
        page' = [page EXCEPT ![b] = [IdlePage EXCEPT !.stage = "formed", !.request = r]]
  BY DEF Form
<1>3. r \in Request
  BY <1>1, <1>2 DEF Request, RequestAt
<1> DEFINE p == [IdlePage EXCEPT !.stage = "formed", !.request = r]
<1>4. p \in PageState /\ p.stage # "locked"
  BY <1>3 DEF PageState, IdlePage, FreshUser, UserState, Mode
<1> HIDE DEF p
<1> QED BY <1>2, <1>4, PageMoves DEF Form, p

LEMMA CopyInv ==
  ASSUME ManageKeyInv, NEW b \in Browser, NEW o \in Browser, Copy(b, o)
  PROVE  ManageKeyInv'
<1> DEFINE p == [IdlePage EXCEPT !.stage = "formed", !.request = page[o].request]
<1>1. page[o].request \in Request
  BY DEF ManageKeyInv, ManageKeyTypeOK, PageState
<1>2. p \in PageState /\ p.stage # "locked"
  BY <1>1 DEF PageState, IdlePage, FreshUser, UserState, Mode
<1> HIDE DEF p
<1> QED BY <1>2, PageMoves DEF Copy, p

LEMMA PageDoneInv ==
  ASSUME ManageKeyInv, NEW b \in Browser, PageDone(b)
  PROVE  ManageKeyInv'
<1>1. IdlePage \in PageState /\ IdlePage.stage # "locked"
  BY RequestFacts DEF PageState, IdlePage, FreshUser, UserState, Mode
<1> QED BY <1>1, PageMoves DEF PageDone

LEMMA PageRetryInv ==
  ASSUME ManageKeyInv, NEW b \in Browser, PageRetry(b)
  PROVE  ManageKeyInv'
BY AnswerInv DEF PageRetry

-------------------------------------------------------------------------------
(* The primary key.                                                        *)

LEMMA PolicyKept ==
  ASSUME LogExplainsPolicy, UNCHANGED <<user, pref, log>>
  PROVE  LogExplainsPolicy'
BY DEF LogExplainsPolicy, Enables, TakesOver, Blocks, ChangesMode

LEMMA SwitchLockInv ==
  ASSUME ManageKeyInv, NEW w \in Switcher, NEW k \in Key, SwitchLock(w, k)
  PROVE  ManageKeyInv'
<1> USE DEF ManageKeyInv
<1>1. NoneHolds /\ switch' = [switch EXCEPT ![w] = [stage |-> "locked", key |-> k]]
      /\ UNCHANGED <<user, pref, consent, flagged, archived, log, page, call>>
  BY DEF SwitchLock, ChangeMayLock
<1>2. ManageKeyTypeOK'
  BY <1>1 DEF ManageKeyTypeOK, SwitchState
<1>3. /\ switch'[w].key = k
      /\ \A o \in Switcher : switch'[o].stage = "locked" => o = w
  BY <1>1 DEF NoneHolds, NoneExclusive, ManageKeyTypeOK
<1>4. OneHolder'
  BY <1>1, <1>3 DEF OneHolder, NoneHolds, NoneExclusive, SignHolds, RenewHolds
<1>5. ReadCurrent'
  BY <1>1 DEF ReadCurrent
<1>6. HoldersMay' /\ OnePrimary'
  BY <1>1 DEF HoldersMay, SignHolds, RenewHolds, SignAllowed, RenewAllowed, OnePrimary
<1> QED BY <1>1, <1>2, <1>4, <1>5, <1>6, PolicyKept

\* A switch gives the lock back: no call held the row, and no page did.
LEMMA SwitchEnds ==
  ASSUME ManageKeyInv, NEW w \in Switcher, switch[w].stage = "locked",
         switch' = [switch EXCEPT ![w] = IdleSwitch],
         \E k \in Key : flagged' = {k},
         UNCHANGED <<user, pref, consent, archived, log, page, call>>
  PROVE  ManageKeyInv'
<1> USE DEF ManageKeyInv
<1>1. ManageKeyTypeOK'
  BY DEF ManageKeyTypeOK, SwitchState, IdleSwitch
<1>2. \A o \in Switcher : switch'[o].stage # "locked"
  BY DEF OneHolder, ManageKeyTypeOK, IdleSwitch
<1>3. \A s \in Call : ~ SignHolds(s) /\ ~ RenewHolds(s) /\ call[s].stage # "signed"
  BY DEF OneHolder, SignHolds, RenewHolds, ManageKeyTypeOK, CallState
<1>4. OneHolder'
  BY <1>2, <1>3 DEF OneHolder, SignHolds, RenewHolds
<1>5. ReadCurrent'
  BY DEF ReadCurrent
<1>6. HoldersMay' /\ OnePrimary'
  BY <1>3 DEF HoldersMay, SignHolds, RenewHolds, OnePrimary
<1> QED BY <1>1, <1>4, <1>5, <1>6, PolicyKept

LEMMA SwitchKeyInv ==
  ASSUME ManageKeyInv, NEW w \in Switcher, SwitchKey(w)
  PROVE  ManageKeyInv'
<1>1. switch[w].stage = "locked" /\ switch[w].key \in Key
  BY DEF SwitchKey, ManageKeyInv, OneHolder
<1>2. flagged' = flagged \/ flagged' = {switch[w].key}
  BY DEF SwitchKey, Flagged
<1>3. \E k \in Key : flagged' = {k}
  BY <1>1, <1>2 DEF ManageKeyInv, OnePrimary
<1> QED BY <1>1, <1>3, SwitchEnds DEF SwitchKey

LEMMA SwitchFailInv ==
  ASSUME ManageKeyInv, NEW w \in Switcher, SwitchFail(w)
  PROVE  ManageKeyInv'
<1>1. \E k \in Key : flagged' = {k}
  BY DEF ManageKeyInv, OnePrimary, SwitchFail
<1> QED BY <1>1, SwitchEnds DEF SwitchFail

LEMMA ArchiveInv ==
  ASSUME ManageKeyInv, NEW k \in Key, Archive(k)
  PROVE  ManageKeyInv'
<1> USE DEF ManageKeyInv
<1>1. UNCHANGED <<user, pref, consent, flagged, log, page, switch, call>> /\ archived' \subseteq Key
  BY DEF Archive, ManageKeyTypeOK
<1>2. ManageKeyTypeOK'
  BY <1>1 DEF ManageKeyTypeOK
<1>3. OneHolder' /\ ReadCurrent'
  BY <1>1 DEF OneHolder, ReadCurrent, SignHolds, RenewHolds
<1>4. HoldersMay' /\ OnePrimary'
  BY <1>1 DEF HoldersMay, SignHolds, RenewHolds, SignAllowed, RenewAllowed, OnePrimary
<1> QED BY <1>1, <1>2, <1>3, <1>4, PolicyKept

-------------------------------------------------------------------------------
(* Calls of applications.                                                  *)

\* A call that holds nothing afterwards.
LEMMA CallLeaves ==
  ASSUME ManageKeyInv, NEW s \in Call, NEW q \in CallState,
         q.stage \in {"idle", "unsealed", "delivered"},
         q.stage = "unsealed" => q.client \in Client /\ q.kind = "renew",
         call' = [call EXCEPT ![s] = q],
         UNCHANGED <<user, pref, consent, flagged, archived, log, page, switch>>
  PROVE  ManageKeyInv'
<1> USE DEF ManageKeyInv
<1>1. ManageKeyTypeOK'
  BY DEF ManageKeyTypeOK
<1>2. /\ call'[s] = q
      /\ \A o \in Call : o # s => call'[o] = call[o]
  BY DEF ManageKeyTypeOK
<1>3. ~ SignHolds(s)' /\ ~ RenewHolds(s)' /\ call'[s].stage # "signed"
  BY <1>2 DEF SignHolds, RenewHolds
<1>4. \A o \in Call : (SignHolds(o)' => SignHolds(o)) /\ (RenewHolds(o)' => RenewHolds(o))
  BY <1>2, <1>3 DEF SignHolds, RenewHolds
<1>5. OneHolder'
  BY <1>4 DEF OneHolder
<1>6. ReadCurrent' /\ OnePrimary'
  BY DEF ReadCurrent, OnePrimary
<1>7. HoldersMay'
  <2>1. ASSUME NEW o \in Call, o # s
        PROVE  /\ call'[o].stage # "idle" /\ call'[o].stage # "delivered" => call'[o].client \in Client
               /\ call'[o].stage = "unsealed" => call'[o].kind = "renew"
               /\ SignHolds(o)' => SignAllowed(call[o].client)'
               /\ RenewHolds(o)' => RenewAllowed(call[o].client)' /\ "delegation" \in consent'[call'[o].client]
               /\ RenewHolds(o)' \/ call'[o].stage = "signed" => flagged' = {call'[o].key}
    BY <1>2, <2>1 DEF HoldersMay, SignHolds, RenewHolds, SignAllowed, RenewAllowed
  <2>2. /\ call'[s].stage # "idle" /\ call'[s].stage # "delivered" => call'[s].client \in Client
        /\ call'[s].stage = "unsealed" => call'[s].kind = "renew"
    BY <1>2
  <2> QED BY <1>2, <1>3, <2>1, <2>2 DEF HoldersMay, SignAllowed, RenewAllowed
<1> QED BY <1>1, <1>5, <1>6, <1>7, PolicyKept

\* A call that holds the row afterwards, and may.
LEMMA CallHolds ==
  ASSUME ManageKeyInv, NEW s \in Call, NEW q \in CallState,
         q.stage \in {"allowed", "signed"}, q.client \in Client,
         q.kind = "sign" =>
           /\ SignAllowed(q.client) /\ (q.stage = "signed" => flagged = {q.key})
           /\ SignHolds(s) \/ NoneHolds,
         q.kind = "renew" =>
           /\ RenewAllowed(q.client) /\ "delegation" \in consent[q.client] /\ flagged = {q.key}
           /\ RenewHolds(s) \/ NoneExclusive,
         call' = [call EXCEPT ![s] = q],
         UNCHANGED <<user, pref, consent, flagged, archived, log, page, switch>>
  PROVE  ManageKeyInv'
<1> USE DEF ManageKeyInv
<1>1. ManageKeyTypeOK'
  BY DEF ManageKeyTypeOK
<1>2. /\ call'[s] = q
      /\ \A o \in Call : o # s => call'[o] = call[o]
  BY DEF ManageKeyTypeOK
<1>3. q.kind \in {"sign", "renew"}
  BY DEF CallState
<1>4. \A o \in Call : o # s => /\ (SignHolds(o)' => SignHolds(o))
                              /\ (RenewHolds(o)' => RenewHolds(o))
  BY <1>2 DEF SignHolds, RenewHolds
<1>5. /\ SignHolds(s)' => q.kind = "sign"
      /\ RenewHolds(s)' => q.kind = "renew"
  BY <1>2 DEF SignHolds, RenewHolds
<1>6. /\ \A b \in Browser : page[b].stage # "locked"
      /\ \A w \in Switcher : switch[w].stage # "locked"
  BY <1>3 DEF NoneHolds, NoneExclusive, OneHolder
<1>7. OneHolder'
  <2>1. CASE q.kind = "sign"
    <3>1. \A o \in Call : o # s => ~ SignHolds(o) /\ ~ RenewHolds(o)
      BY <2>1 DEF OneHolder, NoneHolds, NoneExclusive
    <3>2. \A o \in Call : (SignHolds(o)' => o = s) /\ ~ RenewHolds(o)'
      <4>1. TAKE o \in Call
      <4>2. CASE o = s
        BY <1>2, <2>1, <4>2 DEF RenewHolds
      <4>3. CASE o # s
        BY <1>2, <3>1, <4>3 DEF SignHolds, RenewHolds
      <4> QED BY <4>2, <4>3
    <3> QED BY <1>6, <3>2 DEF OneHolder
  <2>2. CASE q.kind = "renew"
    <3>1. \A o \in Call : ~ SignHolds(o)
      BY <2>2 DEF OneHolder, NoneExclusive
    <3>2. \A o \in Call : ~ SignHolds(o)'
      <4>1. TAKE o \in Call
      <4>2. CASE o = s
        BY <1>2, <2>2, <4>2 DEF SignHolds
      <4>3. CASE o # s
        BY <1>2, <3>1, <4>3 DEF SignHolds, RenewHolds
      <4> QED BY <4>2, <4>3
    <3> QED BY <1>6, <3>2 DEF OneHolder
  <2> QED BY <1>3, <2>1, <2>2
<1>8. ReadCurrent' /\ OnePrimary'
  BY DEF ReadCurrent, OnePrimary
<1>9. HoldersMay'
  <2>1. ASSUME NEW o \in Call, o # s
        PROVE  /\ call'[o].stage # "idle" /\ call'[o].stage # "delivered" => call'[o].client \in Client
               /\ call'[o].stage = "unsealed" => call'[o].kind = "renew"
               /\ SignHolds(o)' => SignAllowed(call[o].client)'
               /\ RenewHolds(o)' => RenewAllowed(call[o].client)' /\ "delegation" \in consent'[call'[o].client]
               /\ RenewHolds(o)' \/ call'[o].stage = "signed" => flagged' = {call'[o].key}
    BY <1>2, <2>1 DEF HoldersMay, SignHolds, RenewHolds, SignAllowed, RenewAllowed
  <2>2. /\ call'[s].client \in Client /\ call'[s].stage # "unsealed"
        /\ q.kind = "sign" => SignAllowed(q.client)'
        /\ q.kind = "renew" => RenewAllowed(q.client)' /\ "delegation" \in consent'[q.client]
        /\ RenewHolds(s)' \/ call'[s].stage = "signed" => flagged' = {call'[s].key}
    BY <1>2, <1>3, <1>5 DEF SignAllowed, RenewAllowed
  <2> QED BY <1>2, <1>5, <2>1, <2>2 DEF HoldersMay, SignAllowed, RenewAllowed
<1> QED BY <1>1, <1>7, <1>8, <1>9, PolicyKept

LEMMA SignDecideInv ==
  ASSUME ManageKeyInv, NEW s \in Call, NEW c \in Client, SignDecide(s, c)
  PROVE  ManageKeyInv'
<1> DEFINE q == [kind |-> "sign", stage |-> "allowed", client |-> c, key |-> NoKey]
<1>1. q \in CallState
  BY DEF CallState
<1>2. SignAllowed(q.client) /\ NoneHolds
  BY DEF SignDecide, ChangeMayLock
<1>3. q.stage = "allowed" /\ q.client \in Client /\ q.kind = "sign"
  OBVIOUS
<1>4. call' = [call EXCEPT ![s] = q]
      /\ UNCHANGED <<user, pref, consent, flagged, archived, log, page, switch>>
  BY DEF SignDecide
<1> HIDE DEF q
<1> QED BY <1>1, <1>2, <1>3, <1>4, CallHolds

LEMMA SignBytesInv ==
  ASSUME ManageKeyInv, NEW s \in Call, SignBytes(s)
  PROVE  ManageKeyInv'
<1>1. SignHolds(s) /\ call[s].kind = "sign" /\ call[s] \in CallState /\ call[s].stage = "allowed"
  BY DEF SignBytes, SignHolds, ManageKeyInv, ManageKeyTypeOK
<1>2. PICK k \in Primary : call' = [call EXCEPT ![s].stage = "signed", ![s].key = k]
  BY DEF SignBytes
<1>3. k \in Key /\ flagged = {k}
  BY DEF ManageKeyInv, ManageKeyTypeOK, OnePrimary, Primary
<1> DEFINE q == [call[s] EXCEPT !.stage = "signed", !.key = k]
<1>4. q \in CallState /\ q.stage = "signed" /\ q.kind = "sign" /\ q.key = k /\ q.client = call[s].client
  BY <1>1, <1>3 DEF CallState
<1>5. call' = [call EXCEPT ![s] = q]
  BY <1>1, <1>2 DEF ManageKeyInv, ManageKeyTypeOK, CallState
<1>6. call[s].client \in Client /\ SignAllowed(call[s].client)
  BY <1>1 DEF ManageKeyInv, HoldersMay
<1> HIDE DEF q
<1> QED BY <1>1, <1>3, <1>4, <1>5, <1>6, CallHolds DEF SignBytes

LEMMA RenewUnsealInv ==
  ASSUME ManageKeyInv, NEW s \in Call, NEW c \in Client, RenewUnseal(s, c)
  PROVE  ManageKeyInv'
<1>1. PICK k \in Primary :
        call' = [call EXCEPT ![s] = [kind |-> "renew", stage |-> "unsealed", client |-> c, key |-> k]]
  BY DEF RenewUnseal
<1> DEFINE q == [kind |-> "renew", stage |-> "unsealed", client |-> c, key |-> k]
<1>2. q \in CallState
  BY DEF CallState, ManageKeyInv, ManageKeyTypeOK, Primary
<1>3. q.stage = "unsealed" /\ q.client \in Client /\ q.kind = "renew" /\ call' = [call EXCEPT ![s] = q]
  BY <1>1
<1> HIDE DEF q
<1> QED BY <1>2, <1>3, CallLeaves DEF RenewUnseal

LEMMA RenewDecideInv ==
  ASSUME ManageKeyInv, NEW s \in Call, RenewDecide(s)
  PROVE  ManageKeyInv'
<1>1. /\ call[s].stage = "unsealed" /\ call[s].client \in Client /\ call[s] \in CallState
      /\ NoneExclusive /\ RenewAllowed(call[s].client) /\ "delegation" \in consent[call[s].client]
      /\ call[s].kind = "renew"
  BY DEF RenewDecide, RenewMayLock, ManageKeyInv, ManageKeyTypeOK, HoldersMay
<1>2. flagged = {call[s].key}
  BY DEF RenewDecide, ManageKeyInv, OnePrimary, Primary
<1> DEFINE q == [call[s] EXCEPT !.stage = "allowed"]
<1>3. /\ q \in CallState /\ q.stage = "allowed" /\ q.client = call[s].client
      /\ q.key = call[s].key /\ q.kind = "renew"
  BY <1>1 DEF CallState
<1>4. call' = [call EXCEPT ![s] = q]
  BY DEF RenewDecide
<1> HIDE DEF q
<1> QED BY <1>1, <1>2, <1>3, <1>4, CallHolds DEF RenewDecide

LEMMA RenewBytesInv ==
  ASSUME ManageKeyInv, NEW s \in Call, RenewBytes(s)
  PROVE  ManageKeyInv'
<1>1. /\ RenewHolds(s) /\ call[s].stage = "allowed" /\ call[s].kind = "renew"
      /\ call[s] \in CallState
  BY DEF RenewBytes, RenewHolds, ManageKeyInv, ManageKeyTypeOK
<1>2. /\ call[s].client \in Client /\ RenewAllowed(call[s].client)
      /\ "delegation" \in consent[call[s].client] /\ flagged = {call[s].key}
  BY <1>1 DEF ManageKeyInv, HoldersMay
<1> DEFINE q == [call[s] EXCEPT !.stage = "signed"]
<1>3. /\ q \in CallState /\ q.stage = "signed" /\ q.client = call[s].client
      /\ q.key = call[s].key /\ q.kind = "renew"
  BY <1>1 DEF CallState
<1>4. call' = [call EXCEPT ![s] = q]
  BY DEF RenewBytes
<1> HIDE DEF q
<1> QED BY <1>1, <1>2, <1>3, <1>4, CallHolds DEF RenewBytes

LEMMA CallEndsInv ==
  ASSUME ManageKeyInv, NEW s \in Call, Deliver(s) \/ CallDone(s)
  PROVE  ManageKeyInv'
<1>1. PICK q \in {IdleCall, [IdleCall EXCEPT !.stage = "delivered"]} :
        call' = [call EXCEPT ![s] = q]
  BY DEF Deliver, CallDone
<1>2. q \in CallState /\ q.stage \in {"idle", "unsealed", "delivered"} /\ q.stage # "unsealed"
  BY <1>1 DEF IdleCall, CallState
<1> QED BY <1>1, <1>2, CallLeaves DEF Deliver, CallDone

\* A consent that a renewal relies on stays as it is.
LEMMA ConsentChangesInv ==
  ASSUME ManageKeyInv, NEW c \in Client, ConsentChanges(c)
  PROVE  ManageKeyInv'
<1> USE DEF ManageKeyInv
<1>1. UNCHANGED <<user, pref, flagged, archived, log, page, switch, call>>
  BY DEF ConsentChanges
<1>2. PICK scopes \in SUBSET Scope : consent' = [consent EXCEPT ![c] = scopes]
  BY DEF ConsentChanges
<1>3. ManageKeyTypeOK'
  BY <1>1, <1>2 DEF ManageKeyTypeOK
<1>4. OneHolder' /\ ReadCurrent' /\ OnePrimary'
  BY <1>1 DEF OneHolder, ReadCurrent, OnePrimary, SignHolds, RenewHolds
<1>5. \A s \in Call : RenewHolds(s) => consent'[call[s].client] = consent[call[s].client]
  BY <1>2 DEF ConsentChanges, ManageKeyTypeOK, HoldersMay, RenewHolds
<1>6. HoldersMay'
  BY <1>1, <1>5 DEF HoldersMay, SignHolds, RenewHolds, SignAllowed, RenewAllowed
<1> QED BY <1>1, <1>3, <1>4, <1>6, PolicyKept

-------------------------------------------------------------------------------
(* The invariant of the specification.                                     *)

LEMMA InitInv ==
  ASSUME Init
  PROVE  ManageKeyInv
<1>1. ManageKeyTypeOK
  <2>1. user \in UserState
    BY DEF Init, UserState, FreshUser, Mode
  <2>2. IdlePage \in PageState
    BY RequestFacts DEF PageState, IdlePage, FreshUser, UserState, Mode
  <2>3. IdleSwitch \in SwitchState /\ IdleCall \in CallState
    BY DEF SwitchState, IdleSwitch, CallState, IdleCall
  <2> QED BY <2>1, <2>2, <2>3 DEF Init, ManageKeyTypeOK
<1>2. /\ \A b \in Browser : page[b].stage = "idle"
      /\ \A w \in Switcher : switch[w].stage = "idle"
      /\ \A s \in Call : call[s].stage = "idle"
  BY DEF Init, IdlePage, IdleSwitch, IdleCall
<1>3. OneHolder /\ ReadCurrent /\ HoldersMay
  BY <1>2 DEF OneHolder, ReadCurrent, HoldersMay, SignHolds, RenewHolds
<1>4. OnePrimary
  BY DEF Init, OnePrimary
<1>5. log = <<>> /\ user.epoch = 0
  BY DEF Init, FreshUser
<1>6. LogExplainsPolicy
  BY <1>5 DEF LogExplainsPolicy
<1> QED BY <1>1, <1>3, <1>4, <1>6 DEF ManageKeyInv

LEMMA StepInv ==
  ASSUME ManageKeyInv, [Next]_vars
  PROVE  ManageKeyInv'
<1>1. CASE UNCHANGED vars
  <2>1. UNCHANGED <<user, pref, consent, flagged, archived, log, page, switch, call>>
    BY <1>1 DEF vars
  <2>2. ManageKeyTypeOK' /\ OneHolder' /\ ReadCurrent' /\ OnePrimary'
    BY <2>1 DEF ManageKeyInv, ManageKeyTypeOK, OneHolder, ReadCurrent, OnePrimary,
                SignHolds, RenewHolds
  <2>3. HoldersMay'
    BY <2>1 DEF ManageKeyInv, HoldersMay, SignHolds, RenewHolds, SignAllowed, RenewAllowed
  <2> QED BY <2>1, <2>2, <2>3, PolicyKept DEF ManageKeyInv
<1>2. ASSUME NEW b \in Browser,
             Form(b) \/ ChangeLock(b) \/ ChangeStale(b) \/ ChangeMode(b) \/ ChangeGrant(b)
               \/ PageDone(b) \/ PageRetry(b)
      PROVE  ManageKeyInv'
  BY <1>2, FormInv, ChangeLockInv, ChangeStaleInv, ChangeModeInv, ChangeGrantInv, PageDoneInv,
     PageRetryInv
<1>3. ASSUME NEW w \in Switcher, SwitchKey(w) \/ SwitchFail(w)
      PROVE  ManageKeyInv'
  BY <1>3, SwitchKeyInv, SwitchFailInv
<1>4. ASSUME NEW s \in Call, NEW c \in Client, SignDecide(s, c) \/ RenewUnseal(s, c)
      PROVE  ManageKeyInv'
  BY <1>4, SignDecideInv, RenewUnsealInv
<1>5. ASSUME NEW s \in Call,
             SignBytes(s) \/ RenewDecide(s) \/ RenewBytes(s) \/ Deliver(s) \/ CallDone(s)
      PROVE  ManageKeyInv'
  BY <1>5, SignBytesInv, RenewDecideInv, RenewBytesInv, CallEndsInv
<1> QED
  BY <1>1, <1>2, <1>3, <1>4, <1>5, CopyInv, SwitchLockInv, ArchiveInv, ConsentChangesInv DEF Next

THEOREM ManageKeyInvariant == Spec => []ManageKeyInv
<1>1. Init => ManageKeyInv
  BY InitInv
<1>2. ManageKeyInv /\ [Next]_vars => ManageKeyInv'
  BY StepInv
<1> QED BY <1>1, <1>2, PTL DEF Spec

\* The rows, pages and calls have their types, whatever the number of each.
THEOREM ManageKeyTypes == Spec => []ManageKeyTypeOK
<1>1. ManageKeyInv => ManageKeyTypeOK
  BY DEF ManageKeyInv
<1> QED BY <1>1, ManageKeyInvariant, PTL

\* The log of changes explains mode and grants, whatever the order of changes.
THEOREM PolicyIsLogged == Spec => []LogExplainsPolicy
<1>1. ManageKeyInv => LogExplainsPolicy
  BY DEF ManageKeyInv
<1> QED BY <1>1, ManageKeyInvariant, PTL

\* A released signature still has the policy it was decided under.
THEOREM SignaturesUnderPolicy == Spec => SignedUnderPolicy
<1> DEFINE Released ==
      \A s \in Call :
        call[s].stage # "delivered" /\ call'[s].stage = "delivered" => Permits(s)
<1>1. ManageKeyInv /\ [Next]_vars => [Released]_vars
  <2> SUFFICES ASSUME ManageKeyInv, Next, NEW s \in Call,
                      call[s].stage # "delivered", call'[s].stage = "delivered"
               PROVE  Permits(s)
    OBVIOUS
  <2>1. call[s].stage = "signed"
    <3>1. \A o \in Call : call[o] \in CallState
      BY DEF ManageKeyInv, ManageKeyTypeOK
    <3>2. call \in [Call -> CallState]
      BY DEF ManageKeyInv, ManageKeyTypeOK
    <3>3. ASSUME NEW o \in Call,
                 \/ \E c \in Client : SignDecide(o, c) \/ RenewUnseal(o, c)
                 \/ SignBytes(o) \/ RenewDecide(o) \/ RenewBytes(o) \/ CallDone(o)
          PROVE  FALSE
      <4>1. CASE s = o
        BY <3>1, <3>2, <3>3, <4>1 DEF SignDecide, RenewUnseal, SignBytes, RenewDecide, RenewBytes,
           CallDone, IdleCall, CallState
      <4>2. CASE s # o
        BY <3>1, <3>2, <3>3, <4>2 DEF SignDecide, RenewUnseal, SignBytes, RenewDecide, RenewBytes,
           CallDone
      <4> QED BY <4>1, <4>2
    <3>4. ASSUME NEW o \in Call, Deliver(o)
          PROVE  call[s].stage = "signed"
      BY <3>2, <3>4 DEF Deliver
    <3>5. CASE UNCHANGED call
      BY <3>5
    <3>6. \/ UNCHANGED call
          \/ \E o \in Call, c \in Client : SignDecide(o, c) \/ RenewUnseal(o, c)
          \/ \E o \in Call : \/ SignBytes(o) \/ RenewDecide(o) \/ RenewBytes(o)
                            \/ Deliver(o) \/ CallDone(o)
      BY DEF Next, Form, Copy, ChangeLock, ChangeStale, ChangeMode, ChangeGrant,
         PageDone, PageRetry, SwitchLock, SwitchKey, SwitchFail, Archive, ConsentChanges
    <3> QED BY <3>3, <3>4, <3>5, <3>6
  <2>2. SignHolds(s) \/ RenewHolds(s)
    BY <2>1 DEF SignHolds, RenewHolds, ManageKeyInv, ManageKeyTypeOK, CallState
  <2> QED BY <2>1, <2>2 DEF ManageKeyInv, HoldersMay, Permits, SignHolds, RenewHolds
<1> QED BY <1>1, ManageKeyInvariant, PTL DEF Spec, SignedUnderPolicy

\* A change that is answered with success is the latest one, or nothing came after its view.
THEOREM SuccessesAreCurrent == Spec => SuccessIsCurrent
<1> DEFINE Succeeded ==
      \A b \in Browser :
        page[b].stage = "locked" /\ page'[b].stage = "ok" =>
          LET r == page[b].request
          IN  \/ user'.epoch = r.expected
              \/ user'.epoch = r.expected + 1 /\ log'[r.expected + 1].request = r
<1>1. ManageKeyInv /\ [Next]_vars => [Succeeded]_vars
  <2> SUFFICES ASSUME ManageKeyInv, Next, NEW b \in Browser,
                      page[b].stage = "locked", page'[b].stage = "ok"
               PROVE  LET r == page[b].request
                      IN  \/ user'.epoch = r.expected
                          \/ user'.epoch = r.expected + 1 /\ log'[r.expected + 1].request = r
    OBVIOUS
  <2> DEFINE r == page[b].request
  <2>1. /\ page \in [Browser -> PageState] /\ page[b].read = user
        /\ r \in Request /\ r.expected \in Nat /\ user \in UserState /\ user.epoch \in Nat
        /\ log \in Seq(Event)
    BY RequestFacts DEF ManageKeyInv, ManageKeyTypeOK, ReadCurrent, PageState, UserState
  <2>2. Len(log) = user.epoch /\ \A i \in DOMAIN log : log[i].request.expected + 1 = i
    BY DEF ManageKeyInv, LogExplainsPolicy
  <2>3. ChangeStale(b) \/ ChangeMode(b) \/ ChangeGrant(b)
    <3>1. ASSUME NEW o \in Browser, o # b,
                 ChangeLock(o) \/ ChangeStale(o) \/ ChangeMode(o) \/ ChangeGrant(o)
                   \/ PageRetry(o) \/ PageDone(o) \/ Form(o) \/ \E x \in Browser : Copy(o, x)
          PROVE  page'[b] = page[b]
      BY <2>1, <3>1 DEF ChangeLock, ChangeStale, ChangeMode, ChangeGrant, PageRetry, PageDone,
         Form, Copy, Answer
    <3>2. ~ ChangeLock(b) /\ ~ PageRetry(b) /\ ~ PageDone(b) /\ ~ Form(b)
          /\ \A x \in Browser : ~ Copy(b, x)
      BY <2>1 DEF ChangeLock, PageRetry, PageDone, Form, Copy, Answer, IdlePage, PageState
    <3>3. \/ UNCHANGED page
          \/ \E o \in Browser :
               \/ ChangeLock(o) \/ ChangeStale(o) \/ ChangeMode(o) \/ ChangeGrant(o)
               \/ PageRetry(o) \/ PageDone(o) \/ Form(o) \/ \E x \in Browser : Copy(o, x)
      BY DEF Next, SwitchLock, SwitchKey, SwitchFail, Archive, SignDecide, SignBytes, RenewUnseal,
         RenewDecide, RenewBytes, Deliver, CallDone, ConsentChanges
    <3> QED BY <3>1, <3>2, <3>3
  <2>4. CASE ChangeStale(b)
    <3>1. Replayed(r, user.epoch) /\ UNCHANGED <<user, log>>
      BY <2>1, <2>4 DEF ChangeStale, Answer, PageState
    <3>2. PICK i \in DOMAIN log : log[i].request = r /\ log[i].epoch = user.epoch
      BY <3>1 DEF Replayed
    <3>3. log[i].epoch = i
      BY <3>2 DEF ManageKeyInv, LogExplainsPolicy
    <3>4. r.expected + 1 = user.epoch
      BY <2>2, <3>2, <3>3
    <3> QED BY <3>1, <3>2, <3>3, <3>4
  <2>5. CASE ChangeMode(b) \/ ChangeGrant(b)
    <3>1. user.epoch = r.expected
      BY <2>1, <2>5 DEF ChangeMode, ChangeGrant, Current
    <3>2. CASE UNCHANGED user
      BY <3>1, <3>2
    <3>3. CASE ~ UNCHANGED user
      <4> DEFINE e == [epoch |-> user.epoch + 1, request |-> r, natives |-> Natives]
      <4>1. log' = Append(log, e) /\ user'.epoch = user.epoch + 1
        BY <2>1, <2>5, <3>3 DEF ChangeMode, ChangeGrant, Recorded, UserState
      <4>2. e \in Event /\ e.request = r
        BY <2>1 DEF Event, Natives
      <4> HIDE DEF e
      <4>3. log'[Len(log) + 1] = e
        BY <2>1, <4>1, <4>2, AppendFacts
      <4> QED BY <2>2, <3>1, <4>1, <4>2, <4>3
    <3> QED BY <3>2, <3>3
  <2> QED BY <2>3, <2>4, <2>5
<1> QED BY <1>1, ManageKeyInvariant, PTL DEF Spec, SuccessIsCurrent
===============================================================================
