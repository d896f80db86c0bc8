------------------------------- MODULE Daily --------------------------------
(***************************************************************************)
(* The daily posts and the wishlist messages (internal/scheduler) while    *)
(* commands change the settings of guilds and the wishlist (wishlist.go).  *)
(*                                                                         *)
(* Time is a number of hours.  An hour starts one pass, which may still    *)
(* run when the next one starts; it starts none if the process is not      *)
(* there to see its first minute, and nothing catches up.  A guild without *)
(* a row has the default hour and no channel; `enabled' is true in every   *)
(* row the bot writes.  Of a channel it matters whether there is one.      *)
(***************************************************************************)
EXTENDS Naturals, FiniteSets

CONSTANTS
    Guilds,
    Items,        \* skins that may be on the wishlist of a user, with the user
    Commands,     \* places for commands on the settings under way
    Passes,       \* bound: passes that run at the same time
    DayLength,    \* hours of a day
    DefaultHour,  \* DefaultDailyHourKST
    FirstHour,    \* of day 0, at which the process first starts
    MaxNow,       \* bound: hours
    MaxRestart    \* bound: ends of the process

ASSUME DailyAssumption ==
    /\ "none" \notin Guilds
    /\ DayLength \in Nat \ {0} /\ DefaultHour \in 0..(DayLength - 1)
    /\ FirstHour \in 0..(DayLength - 1) /\ FirstHour <= MaxNow
    /\ MaxNow \in Nat /\ MaxRestart \in Nat

VARIABLES
    now, life,    \* hours; ends of the process so far
    up,           \* does the process run?
    settings,     \* guild_settings
    cmd,          \* a command between its read and its write
    wishes,       \* wishlists
    lastDate,     \* lastWishlistDate
    stage, tick,  \* where each pass stands, and its hour
    targets,      \* the guilds it has still to post to
    offers,       \* the items its shops offer; then those it has still to tell
    date,         \* the day it claimed
    posts,        \* <<guild, tick>> posted by the passes of this day
    told,         \* messages sent since the start: item, claimed day and pass
    lost,         \* hours of this day whose pass did not begin, failed or was cut off
    stable        \* guilds whose settings have not been written today

timeVars == <<now, life, up>>
passVars == <<stage, tick, targets, offers, date>>
doneVars == <<posts, told, lost>>
dailyVars == <<timeVars, settings, cmd, wishes, lastDate, passVars, doneVars, stable>>

Hours == 0..(DayLength - 1)
Day(t) == t \div DayLength
Hour(t) == t % DayLength
NoDate == MaxNow + 1
NoSetting == [channel |-> FALSE, hour |-> DefaultHour]
Idle == [guild |-> "none", row |-> NoSetting]

DailyInit ==
    /\ now = FirstHour /\ life = 0 /\ up = TRUE
    /\ settings = [g \in Guilds |-> NoSetting]
    /\ cmd = [c \in Commands |-> Idle]
    /\ wishes = {}
    /\ lastDate = NoDate
    /\ stage = [p \in Passes |-> "idle"] /\ tick = [p \in Passes |-> 0]
    /\ targets = [p \in Passes |-> {}] /\ offers = [p \in Passes |-> {}]
    /\ date = [p \in Passes |-> NoDate]
    /\ posts = {} /\ told = {} /\ lost = {}
    /\ stable = Guilds

-----------------------------------------------------------------------------
(* Commands.                                                               *)

CommandSame == UNCHANGED <<timeVars, lastDate, passVars, doneVars>>

\* the row a command starts from: none, if the read fails
Found(g) == {settings[g], NoSetting}

\* HandleChannelSet
SetChannel(c, g) ==
    /\ up /\ cmd[c] = Idle
    /\ \E row \in Found(g) :
        cmd' = [cmd EXCEPT ![c] = [guild |-> g, row |-> [row EXCEPT !.channel = TRUE]]]
    /\ UNCHANGED <<settings, wishes, stable>> /\ CommandSame

\* HandleChannelTimeSelect
SelectTime(c, g) ==
    /\ up /\ cmd[c] = Idle
    /\ \E row \in Found(g), h \in Hours :
        cmd' = [cmd EXCEPT ![c] = [guild |-> g, row |-> [row EXCEPT !.hour = h]]]
    /\ UNCHANGED <<settings, wishes, stable>> /\ CommandSame

\* UpsertGuildSettings, or its error
WriteSettings(c) ==
    /\ cmd[c] # Idle
    /\ cmd' = [cmd EXCEPT ![c] = Idle]
    /\ \/ /\ settings' = [settings EXCEPT ![cmd[c].guild] = cmd[c].row]
          /\ stable' = stable \ {cmd[c].guild}
       \/ UNCHANGED <<settings, stable>>
    /\ UNCHANGED wishes /\ CommandSame

\* HandleWishlistSelectAdd
AddWish(item) ==
    /\ up
    /\ wishes' = wishes \cup {item}
    /\ UNCHANGED <<settings, cmd, stable>> /\ CommandSame

\* HandleWishlistRemove and HandleWishlistSelectRemove: the item was listed before and
\* may be gone by now
RemoveWish(item) ==
    /\ up
    /\ wishes' = wishes \ {item}
    /\ UNCHANGED <<settings, cmd, stable>> /\ CommandSame

-----------------------------------------------------------------------------
(* One pass: RunForHour.                                                   *)

PassSame == UNCHANGED <<timeVars, settings, cmd, wishes, stable>>
Forget(p) ==
    /\ targets' = [targets EXCEPT ![p] = {}]
    /\ offers' = [offers EXCEPT ![p] = {}]
    /\ date' = [date EXCEPT ![p] = NoDate]
    /\ tick' = [tick EXCEPT ![p] = 0]
Enters(p, phase) == stage' = [stage EXCEPT ![p] = phase]
Done(p) == Enters(p, "idle") /\ Forget(p)

\* mutation: the hour compared is that of the clock when the pass lists the guilds
TargetsOfNow(p) == {g \in Guilds : settings[g].channel /\ settings[g].hour = Hour(now)}

\* with a channel, and at this hour
Targets(p) == {g \in Guilds : settings[g].channel /\ settings[g].hour = Hour(tick[p])}

ListGuilds(p) ==
    /\ stage[p] = "listing"
    /\ IF Targets(p) = {}
       THEN Done(p)
       ELSE /\ Enters(p, "fetching")
            /\ targets' = [targets EXCEPT ![p] = Targets(p)]
            /\ UNCHANGED <<offers, date, tick>>
    /\ UNCHANGED <<lastDate, doneVars>> /\ PassSame

\* the shops of every linked user, one after the other; the shop of an account that
\* cannot be read is empty
FetchShops(p) ==
    /\ stage[p] = "fetching"
    /\ Enters(p, "posting")
    /\ \E offered \in SUBSET Items : offers' = [offers EXCEPT ![p] = offered]
    /\ UNCHANGED <<targets, date, tick, lastDate, doneVars>> /\ PassSame

Post(p, g) ==
    /\ stage[p] = "posting" /\ g \in targets[p]
    /\ targets' = [targets EXCEPT ![p] = @ \ {g}]
    /\ posts' = IF Day(tick[p]) = Day(now) THEN posts \cup {<<g, tick[p]>>} ELSE posts
    /\ UNCHANGED <<stage, offers, date, tick, lastDate, told, lost>> /\ PassSame

\* mutation: the day is claimed, but not for others to see
ClaimUnseen(p) ==
    /\ stage[p] = "posting" /\ targets[p] = {}
    /\ IF lastDate = Day(now)
       THEN Done(p)
       ELSE /\ Enters(p, "wishing")
            /\ date' = [date EXCEPT ![p] = Day(now)]
            /\ UNCHANGED <<targets, offers, tick>>
    /\ UNCHANGED <<lastDate, doneVars>> /\ PassSame

\* the wishlist belongs to the first pass that gets here on the day it gets here
Claim(p) ==
    /\ stage[p] = "posting" /\ targets[p] = {}
    /\ lastDate' = Day(now)
    /\ IF lastDate = Day(now)
       THEN Done(p)
       ELSE /\ Enters(p, "wishing")
            /\ date' = [date EXCEPT ![p] = Day(now)]
            /\ UNCHANGED <<targets, offers, tick>>
    /\ UNCHANGED doneVars /\ PassSame

\* ListAllWishlists, and which of them the shops contain
ListWishes(p) ==
    /\ stage[p] = "wishing"
    /\ Enters(p, "telling")
    /\ offers' = [offers EXCEPT ![p] = @ \cap wishes]
    /\ UNCHANGED <<targets, date, tick, lastDate, doneVars>> /\ PassSame

Tell(p, item) ==
    /\ stage[p] = "telling" /\ item \in offers[p]
    /\ offers' = [offers EXCEPT ![p] = @ \ {item}]
    /\ told' = told \cup {[item |-> item, day |-> date[p], pass |-> tick[p]]}
    /\ UNCHANGED <<stage, targets, date, tick, lastDate, posts, lost>> /\ PassSame

AllTold(p) ==
    /\ stage[p] = "telling" /\ offers[p] = {}
    /\ Done(p)
    /\ UNCHANGED <<lastDate, doneVars>> /\ PassSame

\* any error ends the pass: what comes after it is not done, and not tried again
Abort(p) ==
    /\ stage[p] # "idle"
    /\ lost' = IF Day(tick[p]) = Day(now) THEN lost \cup {tick[p]} ELSE lost
    /\ Done(p)
    /\ UNCHANGED <<lastDate, posts, told>> /\ PassSame

-----------------------------------------------------------------------------
HourSame == UNCHANGED <<life, up, settings, cmd, wishes, lastDate, targets, offers, date, told>>

\* a day that begins has no posts yet, and no settings written on it
Turn(hours) ==
    /\ now < MaxNow /\ now' = now + 1
    /\ IF Day(now + 1) = Day(now)
       THEN UNCHANGED <<stable, posts>> /\ lost' = lost \cup hours
       ELSE stable' = Guilds /\ posts' = {} /\ lost' = hours

\* cron: the hour begins and with it a pass
NextHour(p) ==
    /\ up /\ stage[p] = "idle"
    /\ Turn({})
    /\ Enters(p, "listing")
    /\ tick' = [tick EXCEPT ![p] = now + 1]
    /\ HourSame

\* the process is down, its cron is stopping, or the callback comes after minute 0
LoseHour ==
    /\ Turn({now + 1})
    /\ UNCHANGED <<stage, tick>> /\ HourSame

\* the process ends: the database stays, the date and the passes do not
Exit ==
    /\ up /\ life < MaxRestart
    /\ up' = FALSE /\ life' = life + 1
    /\ lastDate' = NoDate
    /\ lost' = lost \cup {tick[p] : p \in {q \in Passes :
                                stage[q] # "idle" /\ Day(tick[q]) = Day(now)}}
    /\ stage' = [p \in Passes |-> "idle"]
    /\ targets' = [p \in Passes |-> {}] /\ offers' = [p \in Passes |-> {}]
    /\ date' = [p \in Passes |-> NoDate]
    /\ tick' = [p \in Passes |-> 0]
    /\ cmd' = [c \in Commands |-> Idle]
    /\ told' = {}
    /\ UNCHANGED <<now, settings, wishes, posts, stable>>

Restart ==
    /\ ~up /\ up' = TRUE
    /\ UNCHANGED <<now, life, settings, cmd, wishes, lastDate, passVars, doneVars, stable>>

DailyNext ==
    \/ \E c \in Commands :
          WriteSettings(c) \/ \E g \in Guilds : SetChannel(c, g) \/ SelectTime(c, g)
    \/ \E item \in Items : AddWish(item) \/ RemoveWish(item)
    \/ \E p \in Passes :
        \/ NextHour(p) \/ ListGuilds(p) \/ FetchShops(p) \/ Claim(p) \/ ListWishes(p)
        \/ AllTold(p) \/ Abort(p)
        \/ \E g \in Guilds : Post(p, g)
        \/ \E item \in Items : Tell(p, item)
    \/ LoseHour \/ Exit \/ Restart

DailySpec == DailyInit /\ [][DailyNext]_dailyVars

-----------------------------------------------------------------------------
Running(t) == \E p \in Passes : stage[p] # "idle" /\ tick[p] = t

DailyTypeOK ==
    /\ now \in 0..MaxNow /\ life \in 0..MaxRestart /\ up \in BOOLEAN
    /\ settings \in [Guilds -> [channel : BOOLEAN, hour : Hours]]
    /\ cmd \in [Commands -> [guild : Guilds \cup {"none"}, row : [channel : BOOLEAN, hour : Hours]]]
    /\ wishes \subseteq Items /\ lastDate \in 0..NoDate
    /\ stage \in [Passes -> {"idle", "listing", "fetching", "posting", "wishing", "telling"}]
    /\ tick \in [Passes -> 0..MaxNow]
    /\ targets \in [Passes -> SUBSET Guilds]
    /\ offers \in [Passes -> SUBSET Items] /\ date \in [Passes -> 0..NoDate]
    /\ posts \subseteq Guilds \X (0..MaxNow) /\ lost \subseteq 0..MaxNow
    /\ told \subseteq [item : Items, day : 0..NoDate, pass : 0..MaxNow]
    /\ stable \subseteq Guilds

\* "Wishlist DMs once per KST calendar day": while the process lives, no item is told
\* by two passes on one day, although passes overlap and the day changes under them.
OncePerDay ==
    \A m, n \in told : m.item = n.item /\ m.day = n.day => m.pass = n.pass

\* A guild whose settings are not written on a day is posted to once on it: never more, and
\* not less, unless nothing ticked at its hour, or that pass failed, was cut off or still
\* runs when the day is over.  The day the process started on is left out: it has no
\* first hour.
PostedOnceADay ==
    [][Day(now') # Day(now) /\ Day(now) > 0 =>
        \A g \in stable :
            LET t == Day(now) * DayLength + settings[g].hour
                today == {post \in posts : post[1] = g}
            IN  /\ today \subseteq {<<g, t>>}
                /\ settings[g].channel => today # {} \/ t \in lost \/ Running(t)]_dailyVars
=============================================================================
