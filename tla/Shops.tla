------------------------------- MODULE Shops --------------------------------
(***************************************************************************)
(* The commands of one user about shops and skins (bot/shop.go,            *)
(* shop_nav.go, handlers.go, skins/cache.go): interactions that share the  *)
(* index of skins behind one lock, and the pages kept for the buttons of   *)
(* earlier messages.                                                       *)
(*                                                                         *)
(* An interaction has forty-five seconds (interactionCallbackTimeout).  A  *)
(* shop has the same time once more (shopTimeout), which ends no later:    *)
(* one deadline for both.  The commands on the wishlist load the index     *)
(* without a deadline.  Of the accounts only their number matters, of the  *)
(* language only which index it needs.                                     *)
(***************************************************************************)
EXTENDS Naturals, FiniteSets

CONSTANTS
    Calls,        \* places for interactions under way
    Langs,        \* languages of the bot, which are those of the index
    KO,           \* the one that is loaded at the start
    MaxAccounts   \* bound: Riot accounts of the user

ASSUME ShopsAssumption ==
    /\ "none" \notin Calls
    /\ KO \in Langs
    /\ MaxAccounts \in Nat \ {0}

VARIABLES
    at, kind,     \* where each interaction stands, and what it is
    lang,         \* the language it answers in
    click,        \* for a button: the page it asks for
    got,          \* the shops it was given: their number
    indexed,      \* EnsureLoaded returned no error
    answer,       \* page and number of pages of its answer
    reply,        \* what became of the answer
    buttons,      \* the pages that buttons of the user's messages ask for
    accounts,     \* linked accounts of the user
    loaded,       \* Cache.langs
    writer,       \* who holds Cache.mu for writing
    pages         \* shopPageCache: the number of shops it keeps, if any

callVars == <<at, kind, lang, click, got, indexed, answer, reply>>
skinVars == <<loaded, writer>>
vars == <<callVars, buttons, accounts, skinVars, pages>>

Kinds == {"shop", "page", "wish", "unlink"}
Slow == {"shop", "wish"}   \* those that wait for others, past their deadline if need be
NoEntry == MaxAccounts + 1
NoPage == [page |-> 0, of |-> 0]
None(value) == [c \in Calls |-> value]

Init ==
    /\ at = None("off") /\ kind = None("none")
    /\ lang = None(KO) /\ click = None(0)
    /\ got = None(0) /\ indexed = None(FALSE)
    /\ answer = None(NoPage) /\ reply = None("none")
    /\ buttons = {}
    /\ accounts \in 0..MaxAccounts
    /\ loaded \in {{}, {KO}} /\ writer = "none"
    /\ pages = NoEntry

-----------------------------------------------------------------------------
Set(variable, c, value) == [variable EXCEPT ![c] = value]
Go(c, phase) == at' = Set(at, c, phase)
Proceed(c, phase) ==
    Go(c, phase) /\ UNCHANGED <<kind, lang, click, got, indexed, answer, reply>>

\* what follows is the answer: what it was made from is not looked at again
Finish(c, shown) ==
    /\ Go(c, "answering")
    /\ answer' = Set(answer, c, shown)
    /\ lang' = Set(lang, c, KO) /\ indexed' = Set(indexed, c, FALSE)
    /\ got' = Set(got, c, 0)
    /\ UNCHANGED <<kind, click, reply>>
FinishPlain(c) == Finish(c, NoPage)

SharedSame == UNCHANGED <<buttons, accounts, skinVars, pages>>

\* Discord delivers an interaction; buttons ask for a page of the message they are on
Arrive(c, what) ==
    /\ at[c] = "off"
    /\ Go(c, "arrived")
    /\ kind' = Set(kind, c, what)
    /\ IF what = "page"
       THEN \E page \in buttons : click' = Set(click, c, page)
       ELSE UNCHANGED click
    /\ UNCHANGED <<lang, got, indexed, answer, reply>> /\ SharedSame

\* deferInteraction, deferComponentUpdate: nothing happens unless Discord takes it.
\* userLang: the language that is stored or, if the store fails, the one in the cache
Defer(c) ==
    /\ at[c] = "arrived"
    /\ \/ /\ Go(c, "handling")
          /\ \E l \in Langs : lang' = Set(lang, c, l)
          /\ UNCHANGED reply
       \/ Go(c, "over") /\ reply' = Set(reply, c, "refused") /\ UNCHANGED lang
    /\ UNCHANGED <<kind, click, got, indexed, answer>> /\ SharedSame

-----------------------------------------------------------------------------
(* The index of skins: EnsureLoaded.                                       *)

\* a shop goes on without the index, a command on the wishlist does not
Resume(c, ok) ==
    IF kind[c] = "shop" \/ ok
    THEN /\ Go(c, IF kind[c] = "shop" THEN "shops" ELSE "searching")
         /\ indexed' = Set(indexed, c, ok)
         /\ UNCHANGED <<kind, lang, click, got, answer, reply>>
    ELSE FinishPlain(c)
IndexStep == UNCHANGED <<buttons, accounts, pages>>

\* HandleWishlistAdd, HandleWishlistSelectAdd
Wish(c) ==
    /\ at[c] = "handling" /\ kind[c] = "wish"
    /\ Proceed(c, "checking")
    /\ SharedSame

CheckIndex(c) ==
    /\ at[c] = "checking" /\ writer = "none"
    /\ IF lang[c] \in loaded THEN Resume(c, TRUE) ELSE Proceed(c, "locking")
    /\ UNCHANGED skinVars /\ IndexStep

\* mutation: what was read before the lock is not read again
LockUnseen(c) ==
    /\ at[c] = "locking" /\ writer = "none"
    /\ Proceed(c, "loading") /\ writer' = c
    /\ UNCHANGED loaded /\ IndexStep

\* the lock is given back at once if somebody else loaded it meanwhile
LockIndex(c) ==
    /\ at[c] = "locking" /\ writer = "none"
    /\ IF lang[c] \in loaded
       THEN Resume(c, TRUE) /\ UNCHANGED writer
       ELSE Proceed(c, "loading") /\ writer' = c
    /\ UNCHANGED loaded /\ IndexStep

\* tiers, then skins, while the lock is held
Load(c) ==
    /\ at[c] = "loading"
    /\ loaded' = loaded \cup {lang[c]}
    /\ writer' = "none" /\ Resume(c, TRUE)
    /\ IndexStep

\* mutation: an error returns without the lock
LoadFailsLocked(c) ==
    /\ at[c] = "loading"
    /\ Resume(c, FALSE)
    /\ UNCHANGED skinVars /\ IndexStep

LoadFails(c) ==
    /\ at[c] = "loading"
    /\ writer' = "none" /\ Resume(c, FALSE)
    /\ UNCHANGED loaded /\ IndexStep

\* SearchByName and Get; the wishlist itself is in Daily
Search(c) ==
    /\ at[c] = "searching" /\ writer = "none"
    /\ FinishPlain(c) /\ SharedSame

-----------------------------------------------------------------------------
(* Accounts.                                                               *)

\* HandleUnlink; not found, ambiguous and failing are one answer
FindAccount(c) ==
    /\ at[c] = "handling" /\ kind[c] = "unlink"
    /\ \/ accounts > 0 /\ Proceed(c, "deleting")
       \/ FinishPlain(c)
    /\ SharedSame

\* another interaction may have deleted the row: that is no error
DeleteAccount(c) ==
    /\ at[c] = "deleting"
    /\ \/ accounts > 0 /\ accounts' = accounts - 1
       \/ UNCHANGED accounts
    /\ FinishPlain(c)
    /\ UNCHANGED <<buttons, skinVars, pages>>

\* UpsertRiotAccount: a login of this user brings an account, another user's takes it
Login ==
    /\ accounts' \in {n \in 0..MaxAccounts : n = accounts + 1 \/ n + 1 = accounts}
    /\ UNCHANGED <<callVars, buttons, skinVars, pages>>

-----------------------------------------------------------------------------
(* HandleShop and ShopFetcher.ShopsForUser.                                *)

\* mutation: a page is shown as it was asked for
PageAsked(page, of) == [page |-> page, of |-> of]

\* shopPageResponse
PageOf(page, of) == [page |-> IF page < of THEN page ELSE IF of = 0 THEN 0 ELSE of - 1,
                     of |-> of]

\* the accounts are read, and are read again by ShopsForUser
ListAccounts(c) ==
    /\ at[c] = "handling" /\ kind[c] = "shop"
    /\ \/ accounts > 0 /\ Proceed(c, "listing")
       \/ FinishPlain(c)
    /\ SharedSame

ListAgain(c) ==
    /\ at[c] = "listing"
    /\ \/ /\ Go(c, "checking")
          /\ got' = Set(got, c, accounts)
          /\ UNCHANGED <<kind, lang, click, indexed, answer, reply>>
       \/ FinishPlain(c)
    /\ SharedSame

\* shopForAccount, all at once: a shop shows its offers, whose names take the lock, or
\* an error, which does not
KeepPages(c) ==
    /\ at[c] = "shops"
    /\ pages' = got[c]
    /\ Finish(c, PageOf(0, got[c]))
    /\ UNCHANGED <<buttons, accounts, skinVars>>

\* HandleShopNav: the pages of the user's last shop, whichever message the button is on
TurnPage(c) ==
    /\ at[c] = "handling" /\ kind[c] = "page"
    /\ Finish(c, IF pages = NoEntry THEN NoPage ELSE PageOf(click[c], pages))
    /\ SharedSame

\* ten minutes after the last shop
ForgetPages ==
    /\ pages # NoEntry
    /\ pages' = NoEntry
    /\ UNCHANGED <<callVars, buttons, accounts, skinVars>>

-----------------------------------------------------------------------------
(* The answer.                                                             *)

Turns(shown) ==
    {page \in 0..(shown.of - 1) : page + 1 = shown.page \/ page = shown.page + 1}

\* editInteraction: a request is not even sent once the deadline is over.  A single
\* page has no row of buttons, and leaves those the message had; so do other messages
Answer(c) ==
    /\ at[c] = "answering"
    /\ Go(c, "over")
    /\ \/ /\ reply' = Set(reply, c, "shown")
          /\ buttons' = IF kind[c] \in {"shop", "page"} /\ answer[c].of > 1
                        THEN buttons \cup Turns(answer[c]) ELSE buttons
       \/ reply' = Set(reply, c, "refused") /\ UNCHANGED buttons
       \/ kind[c] \in Slow /\ reply' = Set(reply, c, "unsent") /\ UNCHANGED buttons
    /\ UNCHANGED <<kind, lang, click, got, indexed, answer,
                   accounts, skinVars, pages>>

\* the handler returns; its place is free for another interaction
Return(c) ==
    /\ at[c] = "over"
    /\ Go(c, "off")
    /\ kind' = Set(kind, c, "none") /\ click' = Set(click, c, 0)
    /\ answer' = Set(answer, c, NoPage) /\ reply' = Set(reply, c, "none")
    /\ UNCHANGED <<lang, got, indexed>> /\ SharedSame

-----------------------------------------------------------------------------
\* what the process does by itself
Step(c) ==
    \/ Defer(c)
    \/ Wish(c) \/ CheckIndex(c) \/ LockIndex(c) \/ Search(c)
    \/ FindAccount(c) \/ DeleteAccount(c)
    \/ ListAccounts(c) \/ ListAgain(c) \/ KeepPages(c) \/ TurnPage(c)
    \/ Answer(c) \/ Return(c)

\* what it waits for
Upstream(c) == Load(c) \/ LoadFails(c)

Next ==
    \/ \E c \in Calls :
        \/ \E what \in Kinds : Arrive(c, what)
        \/ Step(c) \/ Upstream(c)
    \/ Login \/ ForgetPages

Spec == Init /\ [][Next]_vars

-----------------------------------------------------------------------------
Places == {"off", "arrived", "handling", "checking", "locking", "loading", "searching",
           "deleting", "listing", "shops", "answering", "over"}

CallsTyped ==
    /\ at \in [Calls -> Places]
    /\ kind \in [Calls -> Kinds \cup {"none"}]
    /\ indexed \in [Calls -> BOOLEAN]
    /\ lang \in [Calls -> Langs]
    /\ click \in [Calls -> 0..MaxAccounts]
    /\ got \in [Calls -> 0..MaxAccounts]
    /\ answer \in [Calls -> [page : Nat, of : 0..MaxAccounts]]
    /\ reply \in [Calls -> {"none", "shown", "refused", "unsent"}]

TypeOK ==
    /\ CallsTyped
    /\ buttons \subseteq 0..MaxAccounts
    /\ accounts \in 0..MaxAccounts /\ pages \in 0..NoEntry
    /\ loaded \subseteq Langs /\ writer \in Calls \cup {"none"}

\* The lock on the index is held by the interaction that loads it, and by no other.
LockHasOwner == \A c \in Calls : writer = c <=> at[c] = "loading"

\* Names are looked up in an index of their language (ShopsForUser, HandleWishlistAdd).
NamesAreIndexed ==
    \A c \in Calls : indexed[c] => at[c] \in {"shops", "searching"} /\ lang[c] \in loaded

IInv == TypeOK /\ LockHasOwner /\ NamesAreIndexed

\* A button on an older message never asks for a shop that is not there, although the
\* pages are those of a later, shorter or empty, list (shopPageResponse indexes it).
PageExists == \A c \in Calls : answer[c].of > 0 => answer[c].page < answer[c].of

\* The index of a language is loaded once, however many wait for it (EnsureLoaded).
LoadedOnce ==
    [][\A c \in Calls : at[c] # "loading" /\ at'[c] = "loading" => lang[c] \notin loaded]_vars

\* "so the deferred interaction edit always fires instead of hanging forever on a
\* stuck upstream request" (shopTimeout): a shop that was acknowledged gets its edit.
ShopEditFires == \A c \in Calls : kind[c] = "shop" => reply[c] # "unsent"
=============================================================================
