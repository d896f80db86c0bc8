------------------------- MODULE ShopsDailyProofs -------------------------
(***************************************************************************)
(* Proofs about what the bot tells of the shops: the answers to commands   *)
(* (Shops), for any number of interactions, languages and accounts, and    *)
(* the daily posts and wishlist messages (Daily), for any number of guilds *)
(* and overlapping passes and a day of any length.                         *)
(***************************************************************************)
EXTENDS Shops, Daily, TLAPS

LEMMA InitInv == Init => IInv /\ PageExists
<1> USE ShopsAssumption DEF Init, None, NoPage, NoEntry
<1>1. Init => TypeOK BY DEF TypeOK, CallsTyped, Places, Kinds
<1>2. Init => LockHasOwner BY DEF LockHasOwner
<1>3. Init => NamesAreIndexed BY DEF NamesAreIndexed
<1>4. Init => PageExists BY DEF PageExists
<1>5. QED BY <1>1, <1>2, <1>3, <1>4 DEF IInv

-----------------------------------------------------------------------------
(* The ways an interaction goes on.                                        *)

LEMMA ProceedTyped ==
    ASSUME CallsTyped, PageExists, NEW c \in Calls, NEW phase \in Places, Proceed(c, phase)
    PROVE  CallsTyped' /\ PageExists'
BY DEF CallsTyped, PageExists, Proceed, Go, Set

\* an answer shows a page that is there
LEMMA FinishTyped ==
    ASSUME CallsTyped, PageExists, NEW c \in Calls,
           NEW shown \in [page : Nat, of : 0..MaxAccounts],
           shown.of > 0 => shown.page < shown.of, Finish(c, shown)
    PROVE  CallsTyped' /\ PageExists'
<1> USE ShopsAssumption DEF Finish, Go, Set, CallsTyped
<1>1. /\ at' \in [Calls -> Places] /\ kind' = kind /\ click' = click /\ reply' = reply
      /\ indexed' \in [Calls -> BOOLEAN]
  BY DEF Places
<1>2. lang' \in [Calls -> Langs] /\ got' \in [Calls -> 0..MaxAccounts] OBVIOUS
<1>3. answer' \in [Calls -> [page : Nat, of : 0..MaxAccounts]] OBVIOUS
<1>4. PageExists' BY DEF PageExists
<1>5. QED BY <1>1, <1>2, <1>3, <1>4

LEMMA FinishPlainTyped ==
    ASSUME CallsTyped, PageExists, NEW c \in Calls, FinishPlain(c)
    PROVE  CallsTyped' /\ PageExists'
<1>1. NoPage \in [page : Nat, of : 0..MaxAccounts] /\ NoPage.of = 0
  BY ShopsAssumption DEF NoPage
<1>2. QED BY <1>1, FinishTyped DEF FinishPlain

LEMMA ResumeTyped ==
    ASSUME CallsTyped, PageExists, NEW c \in Calls, NEW ok \in BOOLEAN, Resume(c, ok)
    PROVE  CallsTyped' /\ PageExists'
<1>1. CASE kind[c] = "shop" \/ ok
  BY <1>1 DEF Resume, CallsTyped, PageExists, Places, Go, Set
<1>2. CASE ~(kind[c] = "shop" \/ ok) BY <1>2, FinishPlainTyped DEF Resume
<1>3. QED BY <1>1, <1>2

-----------------------------------------------------------------------------
(* The steps.                                                              *)

LEMMA ArriveInv ==
    ASSUME IInv, PageExists, NEW c \in Calls, NEW what \in Kinds, Arrive(c, what)
    PROVE  IInv' /\ PageExists'
<1> USE ShopsAssumption DEF IInv, Arrive, SharedSame, IndexStep, callVars, skinVars
<1>1. CallsTyped' /\ PageExists'
  BY DEF TypeOK, CallsTyped, PageExists, Places, Kinds, Go, Set, NoPage
<1>2. TypeOK' BY <1>1 DEF TypeOK
<1> USE DEF Go, Set, Proceed, Resume, Finish, FinishPlain
<1>3. LockHasOwner' BY DEF TypeOK, CallsTyped, LockHasOwner
<1>4. NamesAreIndexed' BY DEF TypeOK, CallsTyped, NamesAreIndexed
<1>5. QED BY <1>1, <1>2, <1>3, <1>4

LEMMA DeferInv ==
    ASSUME IInv, PageExists, NEW c \in Calls, Defer(c)
    PROVE  IInv' /\ PageExists'
<1> USE ShopsAssumption DEF IInv, Defer, SharedSame, IndexStep, callVars, skinVars
<1>1. CallsTyped' /\ PageExists'
  BY DEF TypeOK, CallsTyped, PageExists, Places, Kinds, Go, Set, NoPage
<1>2. TypeOK' BY <1>1 DEF TypeOK
<1> USE DEF Go, Set, Proceed, Resume, Finish, FinishPlain
<1>3. LockHasOwner' BY DEF TypeOK, CallsTyped, LockHasOwner
<1>4. NamesAreIndexed' BY DEF TypeOK, CallsTyped, NamesAreIndexed
<1>5. QED BY <1>1, <1>2, <1>3, <1>4

LEMMA WishInv ==
    ASSUME IInv, PageExists, NEW c \in Calls, Wish(c)
    PROVE  IInv' /\ PageExists'
<1> USE ShopsAssumption DEF IInv, Wish, SharedSame, IndexStep, callVars, skinVars
<1>1. CallsTyped' /\ PageExists'
  BY ProceedTyped DEF TypeOK, Places
<1>2. TypeOK' BY <1>1 DEF TypeOK
<1> USE DEF Go, Set, Proceed, Resume, Finish, FinishPlain
<1>3. LockHasOwner' BY DEF TypeOK, CallsTyped, LockHasOwner
<1>4. NamesAreIndexed' BY DEF TypeOK, CallsTyped, NamesAreIndexed
<1>5. QED BY <1>1, <1>2, <1>3, <1>4

LEMMA CheckIndexInv ==
    ASSUME IInv, PageExists, NEW c \in Calls, CheckIndex(c)
    PROVE  IInv' /\ PageExists'
<1> USE ShopsAssumption DEF IInv, CheckIndex, SharedSame, IndexStep, callVars, skinVars
<1>1. CallsTyped' /\ PageExists'
  BY ProceedTyped, ResumeTyped DEF TypeOK, Places
<1>2. TypeOK' BY <1>1 DEF TypeOK
<1> USE DEF Go, Set, Proceed, Resume, Finish, FinishPlain
<1>3. LockHasOwner' BY DEF TypeOK, CallsTyped, LockHasOwner
<1>4. NamesAreIndexed' BY DEF TypeOK, CallsTyped, NamesAreIndexed
<1>5. QED BY <1>1, <1>2, <1>3, <1>4

LEMMA LockIndexInv ==
    ASSUME IInv, PageExists, NEW c \in Calls, LockIndex(c)
    PROVE  IInv' /\ PageExists'
<1> USE ShopsAssumption DEF IInv, LockIndex, SharedSame, IndexStep, callVars, skinVars
<1>1. CallsTyped' /\ PageExists'
  BY ProceedTyped, ResumeTyped DEF TypeOK, Places
<1>2. TypeOK' BY <1>1 DEF TypeOK
<1> USE DEF Go, Set, Proceed, Resume, Finish, FinishPlain
<1>3. LockHasOwner' BY DEF TypeOK, CallsTyped, LockHasOwner
<1>4. NamesAreIndexed' BY DEF TypeOK, CallsTyped, NamesAreIndexed
<1>5. QED BY <1>1, <1>2, <1>3, <1>4

LEMMA SearchInv ==
    ASSUME IInv, PageExists, NEW c \in Calls, Search(c)
    PROVE  IInv' /\ PageExists'
<1> USE ShopsAssumption DEF IInv, Search, SharedSame, IndexStep, callVars, skinVars
<1>1. CallsTyped' /\ PageExists'
  BY FinishPlainTyped DEF TypeOK, Places
<1>2. TypeOK' BY <1>1 DEF TypeOK
<1> USE DEF Go, Set, Proceed, Resume, Finish, FinishPlain
<1>3. LockHasOwner' BY DEF TypeOK, CallsTyped, LockHasOwner
<1>4. NamesAreIndexed' BY DEF TypeOK, CallsTyped, NamesAreIndexed
<1>5. QED BY <1>1, <1>2, <1>3, <1>4

LEMMA FindAccountInv ==
    ASSUME IInv, PageExists, NEW c \in Calls, FindAccount(c)
    PROVE  IInv' /\ PageExists'
<1> USE ShopsAssumption DEF IInv, FindAccount, SharedSame, IndexStep, callVars, skinVars
<1>1. CallsTyped' /\ PageExists'
  BY ProceedTyped, FinishPlainTyped DEF TypeOK, Places
<1>2. TypeOK' BY <1>1 DEF TypeOK
<1> USE DEF Go, Set, Proceed, Resume, Finish, FinishPlain
<1>3. LockHasOwner' BY DEF TypeOK, CallsTyped, LockHasOwner
<1>4. NamesAreIndexed' BY DEF TypeOK, CallsTyped, NamesAreIndexed
<1>5. QED BY <1>1, <1>2, <1>3, <1>4

LEMMA DeleteAccountInv ==
    ASSUME IInv, PageExists, NEW c \in Calls, DeleteAccount(c)
    PROVE  IInv' /\ PageExists'
<1> USE ShopsAssumption DEF IInv, DeleteAccount, SharedSame, IndexStep, callVars, skinVars
<1>1. CallsTyped' /\ PageExists'
  BY FinishPlainTyped DEF TypeOK, Places
<1>2. TypeOK' BY <1>1 DEF TypeOK
<1> USE DEF Go, Set, Proceed, Resume, Finish, FinishPlain
<1>3. LockHasOwner' BY DEF TypeOK, CallsTyped, LockHasOwner
<1>4. NamesAreIndexed' BY DEF TypeOK, CallsTyped, NamesAreIndexed
<1>5. QED BY <1>1, <1>2, <1>3, <1>4

LEMMA ListAccountsInv ==
    ASSUME IInv, PageExists, NEW c \in Calls, ListAccounts(c)
    PROVE  IInv' /\ PageExists'
<1> USE ShopsAssumption DEF IInv, ListAccounts, SharedSame, IndexStep, callVars, skinVars
<1>1. CallsTyped' /\ PageExists'
  BY ProceedTyped, FinishPlainTyped DEF TypeOK, Places
<1>2. TypeOK' BY <1>1 DEF TypeOK
<1> USE DEF Go, Set, Proceed, Resume, Finish, FinishPlain
<1>3. LockHasOwner' BY DEF TypeOK, CallsTyped, LockHasOwner
<1>4. NamesAreIndexed' BY DEF TypeOK, CallsTyped, NamesAreIndexed
<1>5. QED BY <1>1, <1>2, <1>3, <1>4

LEMMA ListAgainInv ==
    ASSUME IInv, PageExists, NEW c \in Calls, ListAgain(c)
    PROVE  IInv' /\ PageExists'
<1> USE ShopsAssumption DEF IInv, ListAgain, SharedSame, IndexStep, callVars, skinVars
<1>1. CallsTyped' /\ PageExists'
  BY FinishPlainTyped DEF TypeOK, CallsTyped, PageExists, Places, Kinds, Go, Set, NoPage
<1>2. TypeOK' BY <1>1 DEF TypeOK
<1> USE DEF Go, Set, Proceed, Resume, Finish, FinishPlain
<1>3. LockHasOwner' BY DEF TypeOK, CallsTyped, LockHasOwner
<1>4. NamesAreIndexed' BY DEF TypeOK, CallsTyped, NamesAreIndexed
<1>5. QED BY <1>1, <1>2, <1>3, <1>4

LEMMA KeepPagesInv ==
    ASSUME IInv, PageExists, NEW c \in Calls, KeepPages(c)
    PROVE  IInv' /\ PageExists'
<1> USE ShopsAssumption DEF IInv, KeepPages, SharedSame, IndexStep, callVars, skinVars
<1>1. CallsTyped' /\ PageExists'
  <2>1. got[c] \in 0..MaxAccounts /\ 0 \in Nat BY DEF TypeOK, CallsTyped
  <2>2. /\ PageOf(0, got[c]) \in [page : Nat, of : 0..MaxAccounts]
        /\ PageOf(0, got[c]).of > 0 => PageOf(0, got[c]).page < PageOf(0, got[c]).of
    BY <2>1 DEF PageOf
  <2>3. QED BY <2>2, FinishTyped DEF TypeOK
<1>2. TypeOK'
  <2>1. got[c] \in 0..MaxAccounts BY DEF TypeOK, CallsTyped
  <2>2. QED BY <1>1, <2>1 DEF TypeOK, NoEntry
<1> USE DEF Go, Set, Proceed, Resume, Finish, FinishPlain
<1>3. LockHasOwner' BY DEF TypeOK, CallsTyped, LockHasOwner
<1>4. NamesAreIndexed' BY DEF TypeOK, CallsTyped, NamesAreIndexed
<1>5. QED BY <1>1, <1>2, <1>3, <1>4

LEMMA TurnPageInv ==
    ASSUME IInv, PageExists, NEW c \in Calls, TurnPage(c)
    PROVE  IInv' /\ PageExists'
<1> USE ShopsAssumption DEF IInv, TurnPage, SharedSame, IndexStep, callVars, skinVars
<1>1. CallsTyped' /\ PageExists'
  <2>1. CASE pages = NoEntry BY <2>1, FinishPlainTyped DEF TypeOK, FinishPlain
  <2>2. CASE pages # NoEntry
    <3>1. pages \in 0..MaxAccounts /\ click[c] \in Nat BY <2>2 DEF TypeOK, CallsTyped, NoEntry
    <3>2. /\ PageOf(click[c], pages) \in [page : Nat, of : 0..MaxAccounts]
          /\ PageOf(click[c], pages).of > 0
                 => PageOf(click[c], pages).page < PageOf(click[c], pages).of
      BY <3>1 DEF PageOf
    <3>3. QED BY <2>2, <3>2, FinishTyped DEF TypeOK
  <2>3. QED BY <2>1, <2>2
<1>2. TypeOK' BY <1>1 DEF TypeOK
<1> USE DEF Go, Set, Proceed, Resume, Finish, FinishPlain
<1>3. LockHasOwner' BY DEF TypeOK, CallsTyped, LockHasOwner
<1>4. NamesAreIndexed' BY DEF TypeOK, CallsTyped, NamesAreIndexed
<1>5. QED BY <1>1, <1>2, <1>3, <1>4

LEMMA AnswerInv ==
    ASSUME IInv, PageExists, NEW c \in Calls, Answer(c)
    PROVE  IInv' /\ PageExists'
<1> USE ShopsAssumption DEF IInv, Answer, SharedSame, IndexStep, callVars, skinVars
<1>1. CallsTyped' /\ PageExists'
  BY DEF TypeOK, CallsTyped, PageExists, Places, Kinds, Go, Set, NoPage
<1>2. TypeOK'
  <2>1. answer[c].of \in 0..MaxAccounts /\ answer[c].page \in Nat BY DEF TypeOK, CallsTyped
  <2>2. Turns(answer[c]) \subseteq 0..MaxAccounts BY <2>1 DEF Turns
  <2>3. QED BY <1>1, <2>2 DEF TypeOK
<1> USE DEF Go, Set, Proceed, Resume, Finish, FinishPlain
<1>3. LockHasOwner' BY DEF TypeOK, CallsTyped, LockHasOwner
<1>4. NamesAreIndexed' BY DEF TypeOK, CallsTyped, NamesAreIndexed
<1>5. QED BY <1>1, <1>2, <1>3, <1>4

LEMMA ReturnInv ==
    ASSUME IInv, PageExists, NEW c \in Calls, Return(c)
    PROVE  IInv' /\ PageExists'
<1> USE ShopsAssumption DEF IInv, Return, SharedSame, IndexStep, callVars, skinVars
<1>1. CallsTyped' /\ PageExists'
  BY DEF TypeOK, CallsTyped, PageExists, Places, Kinds, Go, Set, NoPage
<1>2. TypeOK' BY <1>1 DEF TypeOK
<1> USE DEF Go, Set, Proceed, Resume, Finish, FinishPlain
<1>3. LockHasOwner' BY DEF TypeOK, CallsTyped, LockHasOwner
<1>4. NamesAreIndexed' BY DEF TypeOK, CallsTyped, NamesAreIndexed
<1>5. QED BY <1>1, <1>2, <1>3, <1>4

LEMMA LoadInv ==
    ASSUME IInv, PageExists, NEW c \in Calls, Load(c)
    PROVE  IInv' /\ PageExists'
<1> USE ShopsAssumption DEF IInv, Load, SharedSame, IndexStep, callVars, skinVars
<1>1. CallsTyped' /\ PageExists'
  BY ResumeTyped DEF TypeOK, Places
<1>2. TypeOK'
  <2>1. lang[c] \in Langs BY DEF TypeOK, CallsTyped
  <2>2. QED BY <1>1, <2>1 DEF TypeOK
<1> USE DEF Go, Set, Proceed, Resume, Finish, FinishPlain
<1>3. LockHasOwner' BY DEF TypeOK, CallsTyped, LockHasOwner
<1>4. NamesAreIndexed' BY DEF TypeOK, CallsTyped, NamesAreIndexed
<1>5. QED BY <1>1, <1>2, <1>3, <1>4

LEMMA LoadFailsInv ==
    ASSUME IInv, PageExists, NEW c \in Calls, LoadFails(c)
    PROVE  IInv' /\ PageExists'
<1> USE ShopsAssumption DEF IInv, LoadFails, SharedSame, IndexStep, callVars, skinVars
<1>1. CallsTyped' /\ PageExists'
  BY ResumeTyped DEF TypeOK, Places
<1>2. TypeOK' BY <1>1 DEF TypeOK
<1> USE DEF Go, Set, Proceed, Resume, Finish, FinishPlain
<1>3. LockHasOwner' BY DEF TypeOK, CallsTyped, LockHasOwner
<1>4. NamesAreIndexed' BY DEF TypeOK, CallsTyped, NamesAreIndexed
<1>5. QED BY <1>1, <1>2, <1>3, <1>4

-----------------------------------------------------------------------------
LEMMA NextInv == IInv /\ PageExists /\ [Next]_vars => IInv' /\ PageExists'
<1> SUFFICES ASSUME IInv, PageExists, [Next]_vars PROVE IInv' /\ PageExists' OBVIOUS
<1>1. CASE UNCHANGED vars
  BY <1>1 DEF vars, callVars, skinVars, IInv, TypeOK, CallsTyped, LockHasOwner, NamesAreIndexed, PageExists
<1>2. CASE Login \/ ForgetPages
  <2>1. TypeOK'
    <3>1. CallsTyped' BY <1>2 DEF Login, ForgetPages, callVars, IInv, TypeOK, CallsTyped
    <3>2. accounts' \in 0..MaxAccounts /\ pages' \in 0..NoEntry
      <4>1. NoEntry \in Nat BY ShopsAssumption DEF NoEntry
      <4>2. CASE Login BY <4>2 DEF Login, IInv, TypeOK
      <4>3. CASE ForgetPages BY <4>1, <4>3 DEF ForgetPages, IInv, TypeOK
      <4>4. QED BY <1>2, <4>2, <4>3
    <3>3. QED BY <1>2, <3>1, <3>2 DEF Login, ForgetPages, skinVars, IInv, TypeOK
  <2>2. QED BY <1>2, <2>1 DEF Login, ForgetPages, callVars, skinVars,
               IInv, LockHasOwner, NamesAreIndexed, PageExists
<1>3. ASSUME NEW c \in Calls, (\E what \in Kinds : Arrive(c, what)) \/ Step(c) \/ Upstream(c)
      PROVE  IInv' /\ PageExists'
  BY <1>3, ArriveInv, DeferInv, WishInv, CheckIndexInv, LockIndexInv, SearchInv, FindAccountInv, DeleteAccountInv, ListAccountsInv, ListAgainInv, KeepPagesInv, TurnPageInv, AnswerInv, ReturnInv, LoadInv, LoadFailsInv
     DEF Step, Upstream
<1>4. QED BY <1>1, <1>2, <1>3 DEF Next

\* The lock on the index has the loading interaction as its only owner, and names are
\* looked up in an index of their language (EnsureLoaded, ShopsForUser).
THEOREM ShopsInvariance == Spec => []IInv
BY InitInv, NextInv, PTL DEF Spec

\* No button, on whichever message and however old, shows a page that is not there
\* (shopPageResponse).
THEOREM PagesExist == Spec => []PageExists
BY InitInv, NextInv, PTL DEF Spec

\* However many interactions wait for the index of a language, one loads it (EnsureLoaded
\* looks again once it has the lock).
THEOREM IndexLoadedOnce == Spec => LoadedOnce
<1>1. ASSUME IInv, [Next]_vars, NEW c \in Calls, at[c] # "loading", at'[c] = "loading"
      PROVE  lang[c] \notin loaded
  <2>1. CASE UNCHANGED vars BY <1>1, <2>1 DEF vars, callVars
  <2>2. CASE Login \/ ForgetPages BY <1>1, <2>2 DEF Login, ForgetPages, callVars
  <2>3. ASSUME NEW d \in Calls, (\E what \in Kinds : Arrive(d, what)) \/ Step(d) \/ Upstream(d)
        PROVE  lang[c] \notin loaded
    <3> USE DEF IInv, TypeOK, CallsTyped, Go, Set, Proceed, Resume, Finish, FinishPlain
    <3>1. LockIndex(d)
      BY <1>1, <2>3 DEF Step, Upstream, Arrive, Defer, Wish, CheckIndex, Search, FindAccount, DeleteAccount, ListAccounts, ListAgain, KeepPages, TurnPage, Answer, Return, Load, LoadFails
    <3>2. c = d /\ lang[d] \notin loaded BY <1>1, <3>1 DEF LockIndex
    <3>3. QED BY <3>2
  <2>4. QED BY <1>1, <2>1, <2>2, <2>3 DEF Next
<1>2. IInv /\ [Next]_vars =>
        [\A c \in Calls : at[c] # "loading" /\ at'[c] = "loading" => lang[c] \notin loaded]_vars
  BY <1>1
<1>3. QED BY <1>2, ShopsInvariance, PTL DEF Spec, LoadedOnce

-----------------------------------------------------------------------------
(* The daily posts and the wishlist.                                       *)

\* Hours and days, for a day of any length.
LEMMA HourOfDay ==
    ASSUME NEW t \in Nat
    PROVE  /\ Day(t) \in Nat /\ Day(t) <= t /\ Hour(t) \in Hours
           /\ t = Day(t) * DayLength + Hour(t)
BY DailyAssumption DEF Day, Hour, Hours

LEMMA DaysPass ==
    ASSUME NEW t \in Nat, NEW u \in Nat, t <= u
    PROVE  Day(t) <= Day(u)
BY DailyAssumption DEF Day

LEMMA DayOfHour ==
    ASSUME NEW d \in Nat, NEW h \in Hours
    PROVE  /\ d * DayLength + h \in Nat
           /\ Day(d * DayLength + h) = d /\ Hour(d * DayLength + h) = h
BY DailyAssumption DEF Day, Hour, Hours

LEMMA LastHour ==
    ASSUME NEW t \in Nat, Day(t + 1) # Day(t), NEW h \in Hours
    PROVE  Day(t) * DayLength + h <= t
BY DailyAssumption DEF Day, Hours

\* A day is claimed by one pass: the claims of the process never go back, and whoever tells
\* of a day holds its claim.
ClaimsAreKept ==
    /\ lastDate # NoDate => lastDate <= Day(now)
    /\ \A p \in Passes :
          /\ stage[p] \in {"wishing", "telling"} <=> date[p] # NoDate
          /\ date[p] # NoDate => lastDate # NoDate /\ date[p] <= lastDate
          /\ \A q \in Passes : date[q] = date[p] /\ date[p] # NoDate => q = p
    /\ \A m \in told :
          /\ lastDate # NoDate /\ m.day <= lastDate
          /\ \A p \in Passes : date[p] = m.day => tick[p] = m.pass
          /\ \A n \in told : n.day = m.day => n.pass = m.pass

\* What is posted today, or will be, is due at the hour its guild has kept all day.
PostsAreDue ==
    /\ \A p \in Passes :
          /\ tick[p] <= now
          /\ stage[p] \in {"idle", "listing"} => targets[p] = {}
          /\ \A g \in targets[p] \cap stable :
                Day(tick[p]) = Day(now) => settings[g].hour = Hour(tick[p])
    /\ \A post \in posts :
          /\ Day(post[2]) = Day(now)
          /\ post[1] \in stable => settings[post[1]].hour = Hour(post[2])

\* The pass of an hour of today posts to a guild that keeps this hour, has been lost, or will.
Due(g, u) == settings[g].channel /\ settings[g].hour = Hour(u)
Posting(p, g) ==
    \/ stage[p] = "listing"
    \/ stage[p] \in {"fetching", "posting"} /\ g \in targets[p]
NoneIsMissed ==
    \A u \in 1..now, g \in stable : Day(u) = Day(now) /\ Due(g, u) =>
        \/ <<g, u>> \in posts \/ u \in lost
        \/ \E p \in Passes : tick[p] = u /\ Posting(p, g)

DailyInv == DailyTypeOK /\ ClaimsAreKept /\ PostsAreDue /\ NoneIsMissed

\* What the proofs use of the clock.
LEMMA Today ==
    ASSUME DailyTypeOK
    PROVE  /\ now \in Nat /\ MaxNow \in Nat /\ NoDate \in Nat /\ Day(now) \in 0..NoDate
           /\ Day(now) < NoDate /\ now <= MaxNow
           /\ \A t \in Nat : t <= now => Day(t) <= Day(now)
BY DailyAssumption, HourOfDay, DaysPass DEF DailyTypeOK, NoDate

\* At the start there is nothing.
LEMMA DailyInitInv == DailyInit => DailyInv
<1> SUFFICES ASSUME DailyInit PROVE DailyInv
  OBVIOUS
<1> USE DailyAssumption DEF DailyInit
<1>1. DailyTypeOK
  BY DEF DailyTypeOK, NoDate, NoSetting, Idle, Hours
<1>2. ClaimsAreKept
  BY DEF ClaimsAreKept
<1>3. PostsAreDue
  BY DEF PostsAreDue
<1>4. NoneIsMissed
  BY DEF NoneIsMissed, Due, NoSetting
<1> QED BY <1>1, <1>2, <1>3, <1>4 DEF DailyInv

\* A pass that is done forgets everything.
PassTyped == /\ stage' \in [Passes -> {"idle", "listing", "fetching", "posting", "wishing", "telling"}]
             /\ tick' \in [Passes -> 0..MaxNow]
             /\ targets' \in [Passes -> SUBSET Guilds]
             /\ offers' \in [Passes -> SUBSET Items] /\ date' \in [Passes -> 0..NoDate]

LEMMA DoneTyped ==
    ASSUME DailyTypeOK, NEW p \in Passes, Done(p)
    PROVE  PassTyped
<1> USE Today DEF DailyTypeOK, Done, Enters, Forget
<1>1. stage' \in [Passes -> {"idle", "listing", "fetching", "posting", "wishing", "telling"}]
  OBVIOUS
<1>2. tick' \in [Passes -> 0..MaxNow] /\ date' \in [Passes -> 0..NoDate]
  OBVIOUS
<1>3. targets' \in [Passes -> SUBSET Guilds] /\ offers' \in [Passes -> SUBSET Items]
  OBVIOUS
<1> QED BY <1>1, <1>2, <1>3 DEF PassTyped

\* It keeps the claims.
LEMMA DoneKeepsClaims ==
    ASSUME DailyInv, NEW p \in Passes, Done(p), UNCHANGED <<lastDate, told, now>>
    PROVE  ClaimsAreKept'
BY Today DEF DailyInv, DailyTypeOK, ClaimsAreKept, Done, Enters, Forget

\* A day that is not the last one claimed is a day nobody has claimed.
LEMMA ClaimIsNew ==
    ASSUME DailyInv, lastDate # Day(now)
    PROVE  /\ \A q \in Passes : date[q] # NoDate => date[q] < Day(now)
           /\ \A m \in told : m.day < Day(now)
<1> USE Today DEF DailyInv, DailyTypeOK
<1>1. lastDate # NoDate => lastDate < Day(now)
  <2>1. lastDate \in Nat /\ Day(now) \in Nat
    BY DEF NoDate
  <2>2. lastDate # NoDate => lastDate <= Day(now)
    BY Zenon DEF ClaimsAreKept
  <2> HIDE Today DEF DailyInv, DailyTypeOK
  <2>3. ASSUME NEW d \in Nat, NEW e \in Nat, d <= e, d # e PROVE d < e
    BY <2>3
  <2> QED BY <2>1, <2>2, <2>3
<1>2. ASSUME NEW q \in Passes, date[q] # NoDate
      PROVE  date[q] < Day(now)
  BY <1>1, <1>2 DEF ClaimsAreKept
<1>3. ASSUME NEW m \in told
      PROVE  m.day < Day(now)
  <2>1. m.day \in Nat /\ m.day <= lastDate /\ lastDate # NoDate
    BY DEF ClaimsAreKept
  <2> QED BY <1>1, <2>1
<1> QED BY <1>2, <1>3

\* A row of the settings.
LEMMA RowTyped ==
    ASSUME DailyTypeOK, NEW g \in Guilds, NEW row \in Found(g)
    PROVE  /\ [row EXCEPT !.channel = TRUE] \in [channel : BOOLEAN, hour : Hours]
           /\ \A h \in Hours : [row EXCEPT !.hour = h] \in [channel : BOOLEAN, hour : Hours]
<1>1. NoSetting \in [channel : BOOLEAN, hour : Hours]
  BY DailyAssumption DEF NoSetting, Hours
<1>2. settings[g] \in [channel : BOOLEAN, hour : Hours]
  BY DEF DailyTypeOK
<1>3. row \in [channel : BOOLEAN, hour : Hours]
  BY <1>1, <1>2 DEF Found
<1> QED BY <1>3

\* A command reads the settings.
LEMMA DraftInv ==
    ASSUME DailyInv, NEW c \in Commands, NEW g \in Guilds, SetChannel(c, g) \/ SelectTime(c, g)
    PROVE  DailyInv'
<1> USE Today DEF DailyInv, timeVars, passVars, doneVars, SetChannel, SelectTime, CommandSame
<1>1. DailyTypeOK'
  <2>1. \E row \in [channel : BOOLEAN, hour : Hours] :
           cmd' = [cmd EXCEPT ![c] = [guild |-> g, row |-> row]]
    <3> HIDE DEF Found
    <3>1. CASE SetChannel(c, g)
      BY <3>1, RowTyped
    <3>2. CASE SelectTime(c, g)
      BY <3>2, RowTyped
    <3> QED BY <3>1, <3>2
  <2> QED BY <2>1 DEF DailyTypeOK
<1>2. ClaimsAreKept'
  BY DEF ClaimsAreKept
<1>3. PostsAreDue'
  BY DEF PostsAreDue
<1>4. NoneIsMissed'
  BY DEF NoneIsMissed, Due, Posting
<1> QED BY <1>1, <1>2, <1>3, <1>4

\* It writes them.
LEMMA WriteSettingsInv ==
    ASSUME DailyInv, NEW c \in Commands, WriteSettings(c)
    PROVE  DailyInv'
<1> USE Today DEF DailyInv, timeVars, passVars, doneVars, WriteSettings, CommandSame
<1>1. DailyTypeOK'
  <2>1. Idle \in [guild : Guilds \cup {"none"}, row : [channel : BOOLEAN, hour : Hours]]
    BY DailyAssumption DEF Idle, NoSetting, Hours
  <2> QED BY <2>1 DEF DailyTypeOK
<1>2. ClaimsAreKept'
  BY DEF ClaimsAreKept
<1>3. PostsAreDue'
  BY DEF PostsAreDue, DailyTypeOK
<1>4. NoneIsMissed'
  BY DEF NoneIsMissed, DailyTypeOK, Due, Posting
<1> QED BY <1>1, <1>2, <1>3, <1>4

\* The wishlist changes.
LEMMA WishlistInv ==
    ASSUME DailyInv, NEW item \in Items, AddWish(item) \/ RemoveWish(item)
    PROVE  DailyInv'
<1> USE Today DEF DailyInv, timeVars, passVars, doneVars, AddWish, RemoveWish, CommandSame
<1>1. DailyTypeOK'
  BY DEF DailyTypeOK
<1>2. ClaimsAreKept'
  BY DEF ClaimsAreKept
<1>3. PostsAreDue'
  BY DEF PostsAreDue
<1>4. NoneIsMissed'
  BY DEF NoneIsMissed, Due, Posting
<1> QED BY <1>1, <1>2, <1>3, <1>4

\* A pass lists the guilds of its hour.
LEMMA ListGuildsInv ==
    ASSUME DailyInv, NEW p \in Passes, ListGuilds(p)
    PROVE  DailyInv'
<1> USE Today DEF DailyInv, timeVars, passVars, doneVars, PassSame, Enters, Done, Forget,
   ListGuilds
<1>1. DailyTypeOK'
  <2>1. Targets(p) \in SUBSET Guilds
    BY DEF Targets
  <2>2. CASE Targets(p) = {}
    BY <2>2, DoneTyped DEF DailyTypeOK, PassTyped
  <2>3. CASE Targets(p) # {}
    BY <2>1, <2>3 DEF DailyTypeOK
  <2> QED BY <2>2, <2>3
<1>2. ClaimsAreKept'
  <2>1. CASE Targets(p) = {}
    <3>1. Done(p) /\ UNCHANGED <<lastDate, told, now>>
      BY <2>1
    <3> QED BY <3>1, DoneKeepsClaims
  <2>2. CASE Targets(p) # {}
    <3>1. /\ UNCHANGED <<lastDate, date, tick, told, now>> /\ stage[p] = "listing"
          /\ \A q \in Passes : stage'[q] = IF q = p THEN "fetching" ELSE stage[q]
      BY <2>2 DEF DailyTypeOK
    <3> HIDE Today DEF DailyTypeOK, ListGuilds, Enters, Done, Forget
    <3> QED BY <3>1 DEF ClaimsAreKept, NoDate
  <2> QED BY <2>1, <2>2
<1>3. PostsAreDue'
  BY DEF PostsAreDue, DailyTypeOK, Targets
<1>4. NoneIsMissed'
  BY DEF NoneIsMissed, DailyTypeOK, Due, Posting, Targets
<1> QED BY <1>1, <1>2, <1>3, <1>4

\* It fetches the shops.
LEMMA FetchShopsInv ==
    ASSUME DailyInv, NEW p \in Passes, FetchShops(p)
    PROVE  DailyInv'
<1> USE Today DEF DailyInv, timeVars, passVars, doneVars, PassSame, Enters, Done, Forget,
   FetchShops
<1>1. DailyTypeOK'
  BY DEF DailyTypeOK
<1>2. ClaimsAreKept'
  BY DEF ClaimsAreKept, DailyTypeOK
<1>3. PostsAreDue'
  BY DEF PostsAreDue, DailyTypeOK
<1>4. NoneIsMissed'
  BY DEF NoneIsMissed, DailyTypeOK, Due, Posting
<1> QED BY <1>1, <1>2, <1>3, <1>4

\* It posts to a guild.
LEMMA PostInv ==
    ASSUME DailyInv, NEW p \in Passes, NEW g \in Guilds, Post(p, g)
    PROVE  DailyInv'
<1> USE Today DEF DailyInv, timeVars, passVars, doneVars, PassSame, Enters, Done, Forget, Post
<1>1. DailyTypeOK'
  BY DEF DailyTypeOK
<1>2. ClaimsAreKept'
  BY DEF ClaimsAreKept
<1>3. PostsAreDue'
  BY DEF PostsAreDue, DailyTypeOK
<1>4. NoneIsMissed'
  BY DEF NoneIsMissed, DailyTypeOK, Due, Posting
<1> QED BY <1>1, <1>2, <1>3, <1>4

\* It claims the day.
LEMMA ClaimInv ==
    ASSUME DailyInv, NEW p \in Passes, Claim(p)
    PROVE  DailyInv'
<1> USE Today DEF DailyInv, timeVars, passVars, doneVars, PassSame, Enters, Done, Forget, Claim
<1>1. DailyTypeOK'
  <2>1. CASE lastDate = Day(now)
    BY <2>1, DoneTyped DEF DailyTypeOK, PassTyped
  <2>2. CASE lastDate # Day(now)
    BY <2>2 DEF DailyTypeOK
  <2> QED BY <2>1, <2>2
<1>2. ClaimsAreKept'
  <2>1. CASE lastDate = Day(now)
    <3>1. Done(p) /\ UNCHANGED <<lastDate, told, now>>
      BY <2>1
    <3> QED BY <3>1, DoneKeepsClaims
  <2>2. CASE lastDate # Day(now)
    <3>1. \A q \in Passes : date[q] # NoDate => date[q] < Day(now)
      BY <2>2, ClaimIsNew
    <3>2. \A m \in told : m.day < Day(now)
      BY <2>2, ClaimIsNew
    <3>3. /\ date' = [date EXCEPT ![p] = Day(now)] /\ stage' = [stage EXCEPT ![p] = "wishing"]
          /\ UNCHANGED <<told, tick, now>> /\ lastDate' = Day(now)
      BY <2>2
    <3>4. Day(now) # NoDate /\ lastDate' <= Day(now)'
      BY <3>3
    <3>5. \A q \in Passes : date'[q] = IF q = p THEN Day(now) ELSE date[q]
      BY <3>3 DEF DailyTypeOK
    <3>6. \A q \in Passes : stage'[q] = IF q = p THEN "wishing" ELSE stage[q]
      BY <3>3 DEF DailyTypeOK
    <3> QED BY <3>1, <3>2, <3>3, <3>4, <3>5, <3>6 DEF ClaimsAreKept, DailyTypeOK
  <2> QED BY <2>1, <2>2
<1>3. PostsAreDue'
  BY DEF PostsAreDue, DailyTypeOK
<1>4. NoneIsMissed'
  BY DEF NoneIsMissed, DailyTypeOK, Due, Posting
<1> QED BY <1>1, <1>2, <1>3, <1>4

\* It lists the wishes.
LEMMA ListWishesInv ==
    ASSUME DailyInv, NEW p \in Passes, ListWishes(p)
    PROVE  DailyInv'
<1> USE Today DEF DailyInv, timeVars, passVars, doneVars, PassSame, Enters, Done, Forget,
   ListWishes
<1>1. DailyTypeOK'
  BY DEF DailyTypeOK
<1>2. ClaimsAreKept'
  BY DEF ClaimsAreKept, DailyTypeOK
<1>3. PostsAreDue'
  BY DEF PostsAreDue, DailyTypeOK
<1>4. NoneIsMissed'
  BY DEF NoneIsMissed, DailyTypeOK, Due, Posting
<1> QED BY <1>1, <1>2, <1>3, <1>4

\* It tells one.
LEMMA TellInv ==
    ASSUME DailyInv, NEW p \in Passes, NEW item \in Items, Tell(p, item)
    PROVE  DailyInv'
<1> USE Today DEF DailyInv, timeVars, passVars, doneVars, PassSame, Enters, Done, Forget, Tell
<1>1. DailyTypeOK'
  BY DEF DailyTypeOK
<1>2. ClaimsAreKept'
  BY DEF ClaimsAreKept, DailyTypeOK
<1>3. PostsAreDue'
  BY DEF PostsAreDue
<1>4. NoneIsMissed'
  BY DEF NoneIsMissed, Due, Posting
<1> QED BY <1>1, <1>2, <1>3, <1>4

\* It has told them.
LEMMA AllToldInv ==
    ASSUME DailyInv, NEW p \in Passes, AllTold(p)
    PROVE  DailyInv'
<1> USE Today DEF DailyInv, timeVars, passVars, doneVars, PassSame, Enters, Done, Forget,
   AllTold
<1>1. DailyTypeOK'
  BY DEF DailyTypeOK
<1>2. ClaimsAreKept'
  BY DEF ClaimsAreKept, DailyTypeOK
<1>3. PostsAreDue'
  BY DEF PostsAreDue, DailyTypeOK
<1>4. NoneIsMissed'
  BY DEF NoneIsMissed, DailyTypeOK, Due, Posting
<1> QED BY <1>1, <1>2, <1>3, <1>4

\* It fails.
LEMMA AbortInv ==
    ASSUME DailyInv, NEW p \in Passes, Abort(p)
    PROVE  DailyInv'
<1> USE Today DEF DailyInv, timeVars, passVars, doneVars, PassSame, Enters, Done, Forget, Abort
<1>1. DailyTypeOK'
  <2>1. lost' \in SUBSET (0..MaxNow)
    BY DEF DailyTypeOK
  <2> QED BY <2>1, DoneTyped DEF DailyTypeOK, PassTyped
<1>2. ClaimsAreKept'
  BY DEF ClaimsAreKept, DailyTypeOK
<1>3. PostsAreDue'
  BY DEF PostsAreDue, DailyTypeOK
<1>4. NoneIsMissed'
  BY DEF NoneIsMissed, DailyTypeOK, Due, Posting
<1> QED BY <1>1, <1>2, <1>3, <1>4

\* The next hour begins.
LEMMA NextHourInv ==
    ASSUME DailyInv, NEW p \in Passes, NextHour(p)
    PROVE  DailyInv'
<1> USE Today DEF DailyInv, timeVars, passVars, doneVars, PassSame, Enters, Done, Forget,
   NextHour, HourSame
<1>1. now' = now + 1 /\ now' \in Nat /\ now' <= MaxNow /\ Day(now) <= Day(now') /\ Day(now') \in Nat
  BY HourOfDay, DaysPass DEF DailyTypeOK, Turn
<1>2. \/ /\ Day(now') = Day(now) /\ UNCHANGED <<stable, posts, lost>>
      \/ /\ Day(now') # Day(now) /\ stable' = Guilds /\ posts' = {} /\ lost' = {}
         /\ \A t \in Nat : t <= now => Day(t) # Day(now')
  BY <1>1 DEF Turn
<1>3. /\ \A q \in Passes : tick'[q] = IF q = p THEN now + 1 ELSE tick[q]
      /\ \A q \in Passes : stage'[q] = IF q = p THEN "listing" ELSE stage[q]
      /\ \A q \in Passes : tick[q] \in Nat /\ tick[q] <= now
  BY DEF DailyTypeOK, PostsAreDue
<1>4. DailyTypeOK'
  <2>1. now' \in 0..MaxNow
    BY <1>1
  <2>2. tick' \in [Passes -> 0..MaxNow]
    BY <1>1, <2>1 DEF DailyTypeOK
  <2>3. posts' \in SUBSET (Guilds \X (0..MaxNow)) /\ lost' \in SUBSET (0..MaxNow) /\ stable' \in SUBSET Guilds
    BY <1>2 DEF DailyTypeOK
  <2> QED BY <2>1, <2>2, <2>3 DEF DailyTypeOK
<1>5. ClaimsAreKept'
  BY <1>1, <1>2, <1>3 DEF ClaimsAreKept, DailyTypeOK
<1>6. PostsAreDue'
  BY <1>1, <1>2, <1>3 DEF PostsAreDue, DailyTypeOK
<1>7. NoneIsMissed'
  <2> SUFFICES ASSUME NEW u \in 1..now', NEW g \in stable', Day(u) = Day(now'), Due(g, u)'
               PROVE  \/ <<g, u>> \in posts' \/ u \in lost'
                      \/ \E q \in Passes : tick'[q] = u /\ Posting(q, g)'
    BY DEF NoneIsMissed
  <2>1. CASE u = now + 1
    BY <1>3, <2>1 DEF Posting
  <2>2. CASE u # now + 1
    <3>1. u \in 1..now /\ Day(now') = Day(now)
      BY <1>1, <1>2, <2>2
    <3>2. Due(g, u) /\ g \in stable
      BY <1>2, <3>1 DEF Due
    <3>3. \A q \in Passes : Posting(q, g) => q # p /\ Posting(q, g)'
      BY <1>3 DEF Posting
    <3> QED BY <1>2, <1>3, <3>1, <3>2, <3>3 DEF NoneIsMissed
  <2> QED BY <2>1, <2>2
<1> QED BY <1>4, <1>5, <1>6, <1>7

\* An hour passes without one.
LEMMA LoseHourInv ==
    ASSUME DailyInv, LoseHour
    PROVE  DailyInv'
<1> USE Today DEF DailyInv, timeVars, passVars, doneVars, PassSame, Enters, Done, Forget,
   LoseHour, HourSame
<1>1. now' = now + 1 /\ now' \in Nat /\ now' <= MaxNow /\ Day(now) <= Day(now') /\ Day(now') \in Nat
  BY HourOfDay, DaysPass DEF DailyTypeOK, Turn
<1>2. /\ now + 1 \in lost'
      /\ \/ /\ Day(now') = Day(now) /\ UNCHANGED <<stable, posts>> /\ lost' = lost \cup {now + 1}
         \/ /\ Day(now') # Day(now) /\ stable' = Guilds /\ posts' = {} /\ lost' = {now + 1}
            /\ \A t \in Nat : t <= now => Day(t) # Day(now')
  BY <1>1 DEF Turn
<1>3. UNCHANGED <<tick, stage, targets>> /\ \A q \in Passes : tick[q] \in Nat /\ tick[q] <= now
  BY DEF DailyTypeOK, PostsAreDue
<1>4. DailyTypeOK'
  <2>1. now' \in 0..MaxNow
    BY <1>1
  <2>2. tick' \in [Passes -> 0..MaxNow]
    BY <1>3 DEF DailyTypeOK
  <2>3. posts' \in SUBSET (Guilds \X (0..MaxNow)) /\ lost' \in SUBSET (0..MaxNow) /\ stable' \in SUBSET Guilds
    BY <1>1, <1>2, <2>1 DEF DailyTypeOK
  <2> QED BY <2>1, <2>2, <2>3 DEF DailyTypeOK
<1>5. ClaimsAreKept'
  BY <1>1, <1>2, <1>3 DEF ClaimsAreKept, DailyTypeOK
<1>6. PostsAreDue'
  BY <1>1, <1>2, <1>3 DEF PostsAreDue, DailyTypeOK
<1>7. NoneIsMissed'
  <2> SUFFICES ASSUME NEW u \in 1..now', NEW g \in stable', Day(u) = Day(now'), Due(g, u)'
               PROVE  \/ <<g, u>> \in posts' \/ u \in lost'
                      \/ \E q \in Passes : tick'[q] = u /\ Posting(q, g)'
    BY DEF NoneIsMissed
  <2>1. CASE u = now + 1
    BY <1>2, <2>1
  <2>2. CASE u # now + 1
    <3>1. u \in 1..now /\ Day(now') = Day(now)
      BY <1>1, <1>2, <2>2
    <3>2. Due(g, u) /\ g \in stable
      BY <1>2, <3>1 DEF Due
    <3>3. \A q \in Passes : Posting(q, g) => Posting(q, g)'
      BY <1>3 DEF Posting
    <3> QED BY <1>2, <1>3, <3>1, <3>2, <3>3 DEF NoneIsMissed
  <2> QED BY <2>1, <2>2
<1> QED BY <1>4, <1>5, <1>6, <1>7

\* The process ends.
LEMMA ExitInv ==
    ASSUME DailyInv, Exit
    PROVE  DailyInv'
<1> USE Today DEF DailyInv, timeVars, passVars, doneVars, Exit
<1>1. DailyTypeOK'
  <2>1. Idle \in [guild : Guilds \cup {"none"}, row : [channel : BOOLEAN, hour : Hours]]
    BY DailyAssumption DEF Idle, NoSetting, Hours
  <2>2. cmd' \in [Commands -> [guild : Guilds \cup {"none"}, row : [channel : BOOLEAN, hour : Hours]]]
    BY <2>1
  <2>3. life' \in 0..MaxRestart
    BY DailyAssumption DEF DailyTypeOK
  <2>7. lost' \in SUBSET (0..MaxNow)
    <3>1. \A q \in Passes : tick[q] \in 0..MaxNow
      BY DEF DailyTypeOK
    <3>2. lost \in SUBSET (0..MaxNow)
      BY DEF DailyTypeOK
    <3> QED BY <3>1, <3>2
  <2>4. lastDate' \in 0..NoDate /\ date' \in [Passes -> 0..NoDate] /\ tick' \in [Passes -> 0..MaxNow]
    OBVIOUS
  <2>5. targets' \in [Passes -> SUBSET Guilds] /\ offers' \in [Passes -> SUBSET Items]
    OBVIOUS
  <2>6. told' \in SUBSET [item : Items, day : 0..NoDate, pass : 0..MaxNow]
    OBVIOUS
  <2> QED BY <2>2, <2>3, <2>4, <2>5, <2>6, <2>7 DEF DailyTypeOK
<1>2. ClaimsAreKept'
  BY DEF ClaimsAreKept, DailyTypeOK
<1>3. PostsAreDue'
  BY DEF PostsAreDue, DailyTypeOK
<1>4. NoneIsMissed'
  <2> SUFFICES ASSUME NEW u \in 1..now, NEW g \in stable, Day(u) = Day(now), Due(g, u)
               PROVE  <<g, u>> \in posts \/ u \in lost'
    BY DEF NoneIsMissed, Due
  <2>1. ASSUME NEW p \in Passes, tick[p] = u, Posting(p, g)
        PROVE  u \in lost'
    BY <2>1 DEF Posting
  <2>2. u \in lost => u \in lost'
    OBVIOUS
  <2> QED BY <2>1, <2>2 DEF NoneIsMissed
<1> QED BY <1>1, <1>2, <1>3, <1>4

\* It starts again.
LEMMA RestartInv ==
    ASSUME DailyInv, Restart
    PROVE  DailyInv'
<1> USE Today DEF DailyInv, timeVars, passVars, doneVars, Restart
<1>1. DailyTypeOK'
  BY DEF DailyTypeOK
<1>2. ClaimsAreKept'
  BY DEF ClaimsAreKept
<1>3. PostsAreDue'
  BY DEF PostsAreDue
<1>4. NoneIsMissed'
  BY DEF NoneIsMissed, Due, Posting
<1> QED BY <1>1, <1>2, <1>3, <1>4

\* Nothing happens.
LEMMA SameInv ==
    ASSUME DailyInv, UNCHANGED dailyVars
    PROVE  DailyInv'
<1> USE Today DEF DailyInv, timeVars, passVars, doneVars, dailyVars
<1>1. DailyTypeOK'
  BY DEF DailyTypeOK
<1>2. ClaimsAreKept'
  BY DEF ClaimsAreKept
<1>3. PostsAreDue'
  BY DEF PostsAreDue
<1>4. NoneIsMissed'
  BY DEF NoneIsMissed, Due, Posting
<1> QED BY <1>1, <1>2, <1>3, <1>4

\* Every step keeps it.
LEMMA DailyNextInv == DailyInv /\ [DailyNext]_dailyVars => DailyInv'
<1> SUFFICES ASSUME DailyInv, [DailyNext]_dailyVars PROVE DailyInv'
  OBVIOUS
<1>1. CASE \E c \in Commands :
              WriteSettings(c) \/ \E g \in Guilds : SetChannel(c, g) \/ SelectTime(c, g)
  BY <1>1, WriteSettingsInv, DraftInv
<1>2. CASE \E item \in Items : AddWish(item) \/ RemoveWish(item)
  BY <1>2, WishlistInv
<1>3. CASE \E p \in Passes :
              \/ ListGuilds(p) \/ FetchShops(p) \/ Claim(p) \/ ListWishes(p) \/ AllTold(p)
              \/ \E g \in Guilds : Post(p, g)
              \/ \E item \in Items : Tell(p, item)
  BY <1>3, ListGuildsInv, FetchShopsInv, ClaimInv, ListWishesInv, AllToldInv, PostInv, TellInv
<1>4. CASE LoseHour \/ Exit \/ Restart \/ \E p \in Passes : NextHour(p) \/ Abort(p)
  BY <1>4, LoseHourInv, ExitInv, RestartInv, NextHourInv, AbortInv
<1>5. CASE UNCHANGED dailyVars
  BY <1>5, SameInv
<1> QED BY <1>1, <1>2, <1>3, <1>4, <1>5 DEF DailyNext

LEMMA DailyInvariance == DailySpec => []DailyInv
BY DailyInitInv, DailyNextInv, PTL DEF DailySpec

\* While the process lives no item is told by two passes on one day, although passes
\* overlap and the day changes under them (RunForHour, lastWishlistDate).
THEOREM WishlistOncePerDay == DailySpec => []OncePerDay
<1>1. DailyInv => OncePerDay
  BY DEF DailyInv, ClaimsAreKept, OncePerDay
<1> QED BY <1>1, DailyInvariance, PTL

\* When a day is over, a guild that kept its settings has been posted to at its hour.
LEMMA DayIsOver ==
    ASSUME DailyInv, [DailyNext]_dailyVars, Day(now') # Day(now), Day(now) > 0, NEW g \in stable
    PROVE  LET t == Day(now) * DayLength + settings[g].hour
               today == {post \in posts : post[1] = g}
           IN  /\ today \subseteq {<<g, t>>}
               /\ settings[g].channel => today # {} \/ t \in lost \/ Running(t)
<1> DEFINE t == Day(now) * DayLength + settings[g].hour
<1> USE Today DEF DailyInv
<1>1. now' = now + 1
  <2>1. now' # now
    OBVIOUS
  <2>2. LoseHour \/ \E p \in Passes : NextHour(p)
    BY <2>1, Zenon DEF DailyNext, WriteSettings, SetChannel, SelectTime, AddWish, RemoveWish, ListGuilds,
       FetchShops, Claim, ListWishes, AllTold, Abort, Post, Tell, Exit, Restart, CommandSame, PassSame,
       timeVars, dailyVars
  <2> QED BY <2>2 DEF NextHour, LoseHour, Turn
<1>2. settings[g].hour \in Hours /\ g \in Guilds /\ settings[g].channel \in BOOLEAN
  BY DEF DailyTypeOK
<1>3. t \in Nat /\ Day(t) = Day(now) /\ Hour(t) = settings[g].hour /\ t <= now
  BY <1>1, <1>2, DayOfHour, LastHour, HourOfDay
<1>4. t \in 1..now
  <2>1. t # 0
    BY <1>3, HourOfDay
  <2> QED BY <1>3, <2>1
<1>5. ASSUME NEW post \in posts, post[1] = g
      PROVE  post = <<g, t>>
  <2>1. post = <<post[1], post[2]>> /\ post[2] \in Nat
    BY DEF DailyTypeOK
  <2>2. Day(post[2]) = Day(now) /\ Hour(post[2]) = settings[g].hour
    BY <1>5 DEF PostsAreDue
  <2>3. post[2] = Day(post[2]) * DayLength + Hour(post[2])
    BY <2>1, HourOfDay
  <2> QED BY <1>5, <2>1, <2>2, <2>3
<1>6. ASSUME settings[g].channel
      PROVE  {post \in posts : post[1] = g} # {} \/ t \in lost \/ Running(t)
  <2>1. \/ <<g, t>> \in posts \/ t \in lost
        \/ \E p \in Passes : tick[p] = t /\ Posting(p, g)
    BY <1>3, <1>4, <1>6 DEF NoneIsMissed, Due
  <2>2. ASSUME NEW p \in Passes, tick[p] = t, Posting(p, g)
        PROVE  Running(t)
    BY <2>2 DEF Posting, Running
  <2>3. <<g, t>> \in posts => {post \in posts : post[1] = g} # {}
    OBVIOUS
  <2> QED BY <2>1, <2>2, <2>3
<1> QED BY <1>5, <1>6

\* A guild whose settings are left alone for a day gets that day's post, once, unless nothing
\* ticked at its hour, or its pass failed, was cut off or still runs (RunForHour, Start).
THEOREM DailyPostIsMade == DailySpec => PostedOnceADay
<1>1. ASSUME DailyInv, [DailyNext]_dailyVars, Day(now') # Day(now) /\ Day(now) > 0
      PROVE  \A g \in stable :
                LET t == Day(now) * DayLength + settings[g].hour
                    today == {post \in posts : post[1] = g}
                IN  /\ today \subseteq {<<g, t>>}
                    /\ settings[g].channel => today # {} \/ t \in lost \/ Running(t)
  BY <1>1, DayIsOver
<1>2. DailyInv /\ [DailyNext]_dailyVars =>
         [Day(now') # Day(now) /\ Day(now) > 0 =>
            \A g \in stable :
                LET t == Day(now) * DayLength + settings[g].hour
                    today == {post \in posts : post[1] = g}
                IN  /\ today \subseteq {<<g, t>>}
                    /\ settings[g].channel => today # {} \/ t \in lost \/ Running(t)]_dailyVars
  BY <1>1
<1> QED BY <1>2, DailyInvariance, PTL DEF DailySpec, PostedOnceADay
=============================================================================
