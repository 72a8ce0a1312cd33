------------------------------- MODULE Shares -------------------------------
(***************************************************************************)
(* Share links (service/shares.go over store/pg/shares.go, the pages of    *)
(* web/shares and the API of api/shares.go) and the pictures that link     *)
(* previews show of them (web/shares/og.go over og/cache.go).              *)
(*                                                                         *)
(* A picture is named by the version of the share and the number of the    *)
(* newest change that matters to it, and is kept for ever under that name. *)
(* A request opens the share, computes the name, looks in the cache and    *)
(* renders what is missing; these are separate statements, and shares and  *)
(* calendars are edited in between.  What a calendar holds is a counter of *)
(* its edits.  Changes are numbered in the order of their commits          *)
(* (module Realtime).                                                      *)
(***************************************************************************)
EXTENDS Integers, FiniteSets

CONSTANTS
    ShareIDs, Cals,
    Details,        \* how much a share shows
    Viewers,        \* requests that run at the same time
    MaxShares,
    MaxEdits,       \* bound: edits of calendars, todos and shares
    MaxFiles,       \* files the cache holds
    MaxViews        \* bound: requests

NoStamp == -1
NoShare == 0
NotShown == -1   \* of a calendar that is not shared

\* What the constants must satisfy.
SharesAssumption ==
    /\ 1 \in ShareIDs /\ ShareIDs \subseteq Nat \ {NoShare} /\ MaxShares \in Nat \ {0} /\ MaxFiles \in Nat \ {0}
    /\ MaxEdits \in Nat /\ MaxViews \in Nat /\ Details # {} /\ IsFiniteSet(ShareIDs)

VARIABLES
    shares,    \* share_links with share_link_calendars
    cals,      \* calendar -> whether it exists, what it holds, the number of its last change
    other,     \* the same for todos; and the number of the last change of another kind
    seq,       \* the number of the newest change
    cache,     \* the files of the picture cache: name -> picture
    views,     \* requests that are being served
    opened,    \* how many were made
    moved      \* ghost: an event was moved from one calendar to another

sharesVars == <<shares, cals, other, seq, cache, views, opened, moved>>

\* What a link shows: the settings of the share and what its calendars and todos hold.
Picture(sh, held, todos) ==
    [detail |-> sh.detail, cals |-> [c \in Cals |-> IF c \in sh.cals THEN held[c].holds ELSE NotShown],
     todos |-> IF sh.todos THEN todos.holds ELSE 0]

NoLinkYet == [st |-> "none", detail |-> CHOOSE d \in Details : TRUE, cals |-> {}, todos |-> FALSE,
              token |-> 0, version |-> 0, hits |-> 0]

\* What a request knows before it has opened a share.
NothingShown == [detail |-> CHOOSE d \in Details : TRUE, cals |-> [c \in Cals |-> NotShown], todos |-> 0]
Waiting == [pc |-> "idle", share |-> NoShare, row |-> NoLinkYet,
            name |-> [share |-> NoShare, version |-> 0, stamp |-> NoStamp],
            body |-> NothingShown]

Link == [st : {"none", "active", "revoked"}, detail : Details, cals : SUBSET Cals, todos : BOOLEAN,
         token : Nat, version : Nat, hits : Nat]
Names == [share : ShareIDs \cup {NoShare}, version : Nat, stamp : Nat \cup {NoStamp}]
Pictures == [detail : Details, cals : [Cals -> Nat \cup {NotShown}], todos : Nat]
View == [pc : {"idle", "create", "touch", "show", "version", "render", "put"}, share : ShareIDs \cup {NoShare},
         row : Link, name : Names, body : Pictures]

SharesTypeOK ==
    /\ shares \in [ShareIDs -> Link]
    /\ \A s \in ShareIDs : /\ shares[s].cals \subseteq {c \in Cals : cals[c].live}
                           /\ shares[s].st = "none" => shares[s].version = 0
    /\ cals \in [Cals -> [live : BOOLEAN, holds : Nat, stamp : 0..seq]]
    /\ other \in [holds : Nat, todoStamp : 0..seq, stamp : 0..seq]
    /\ seq \in 0..MaxEdits
    /\ DOMAIN cache \subseteq Names /\ \A n \in DOMAIN cache : cache[n] \in Pictures
    /\ views \in [Viewers -> View]
    /\ opened \in 0..MaxViews /\ moved \in BOOLEAN

-----------------------------------------------------------------------------
(* Edits. *)

MayEdit == seq < MaxEdits

\* ShareStamp: the newest change that could alter what the share shows.
ShareStamp(sh) ==
    LET of == {other.stamp} \cup {cals[c].stamp : c \in sh.cals}
                \cup (IF sh.todos THEN {other.todoStamp} ELSE {})
    IN  CHOOSE n \in of : \A m \in of : m <= n

Active(s) == shares[s].st = "active"

\* Tokens are random: every one that is issued is new.
NewToken == 1 + Cardinality({s \in ShareIDs : shares[s].st # "none"}) + seq

\* apply: a share has a calendar or the todos.
Applies(p) == p.cals # {} \/ p.todos

\* calendarIDs: only the owner's calendars.
CalendarIDs == SUBSET {c \in Cals : cals[c].live}

\* sharePatch: a form brings every field.
SharePatch == {p \in [cals : CalendarIDs, todos : BOOLEAN, detail : Details] : Applies(p)}

\* A patch of the API may leave fields as they are.
Merged(s) == {p \in [cals : CalendarIDs \cup {shares[s].cals}, todos : BOOLEAN,
                      detail : Details \cup {shares[s].detail}] : Applies(p)}

\* Create: the shares are counted, then the new one is written (CreateShare); a count
\* that was read before another request created its share does not include it.
CountShares(v) ==
    /\ views[v].pc = "idle" /\ opened < MaxViews /\ opened' = opened + 1
    /\ Cardinality({s \in ShareIDs : shares[s].st # "none"}) < MaxShares
    /\ views' = [views EXCEPT ![v].pc = "create"]
    /\ UNCHANGED <<shares, cals, other, seq, cache, moved>>

CreateShare(v, asked) ==
    \E s \in ShareIDs, p \in asked :
        /\ views[v].pc = "create" /\ MayEdit
        /\ shares[s].st = "none" /\ \A t \in ShareIDs : t < s => shares[t].st # "none"
        /\ shares' = [shares EXCEPT ![s] = [st |-> "active", detail |-> p.detail, cals |-> p.cals,
                         todos |-> p.todos, token |-> NewToken, version |-> 1, hits |-> 0]]
        /\ views' = [views EXCEPT ![v] = Waiting]
        /\ seq' = seq + 1 /\ other' = [other EXCEPT !.stamp = seq + 1]
        /\ UNCHANGED <<cals, cache, opened, moved>>

\* create and quick, whose detail is fixed, of the pages; createShare of the API.
WebCreate(v) == CreateShare(v, SharePatch)
Quick(v) == CreateShare(v, {p \in SharePatch : p.detail = "titles"})
APICreate(v) == CreateShare(v, SharePatch)

\* UpdateShare: one transaction under a lock of the row; every change is a new version.
SaveShare(s, row) ==
    /\ shares' = [shares EXCEPT ![s] = [row EXCEPT !.version = @ + 1]]
    /\ seq' = seq + 1 /\ other' = [other EXCEPT !.stamp = seq + 1]
    /\ UNCHANGED <<cals, cache, views, opened, moved>>

\* Update: not of a revoked link; the view and the period stay.
UpdateShare(s, asked) ==
    \E p \in asked :
        /\ MayEdit /\ Active(s)
        /\ SaveShare(s, [shares[s] EXCEPT !.cals = p.cals, !.todos = p.todos, !.detail = p.detail])

WebUpdate(s) == UpdateShare(s, SharePatch)
APIUpdate(s) == UpdateShare(s, Merged(s))

\* Regenerate: a new address; the old one no longer works.
Regenerate(s) == MayEdit /\ Active(s) /\ SaveShare(s, [shares[s] EXCEPT !.token = NewToken])

\* Revoke; of a link that is revoked already it only makes a new version.
Revoke(s) == MayEdit /\ shares[s].st # "none" /\ SaveShare(s, [shares[s] EXCEPT !.st = "revoked"])

\* The links of the pages and the API for both.
WebRegenerate(s) == Regenerate(s)
APIRegenerate(s) == Regenerate(s)
WebRevoke(s) == Revoke(s)
APIRevoke(s) == Revoke(s)

\* The owner edits an event of a calendar.
EditEvent(c) ==
    /\ MayEdit /\ cals[c].live
    /\ seq' = seq + 1
    /\ cals' = [cals EXCEPT ![c].holds = @ + 1, ![c].stamp = seq + 1]
    /\ UNCHANGED <<shares, other, cache, views, opened, moved>>

\* eventTx.Update of an event that changes its calendar: the change names the new one.
MoveEvent(a, b) ==
    /\ MayEdit /\ a # b /\ cals[a].live /\ cals[b].live
    /\ seq' = seq + 1 /\ moved' = TRUE
    /\ cals' = [cals EXCEPT ![a].holds = @ + 1, ![b].holds = @ + 1, ![b].stamp = seq + 1]
    /\ UNCHANGED <<shares, other, cache, views, opened>>

\* todoTx.change.
EditTodo ==
    /\ MayEdit /\ seq' = seq + 1
    /\ other' = [other EXCEPT !.holds = @ + 1, !.todoStamp = seq + 1]
    /\ UNCHANGED <<shares, cals, cache, views, opened, moved>>

\* DeleteCalendar: its rows of share_link_calendars go with it.
DeleteCalendar(c) ==
    /\ MayEdit /\ cals[c].live
    /\ seq' = seq + 1 /\ other' = [other EXCEPT !.stamp = seq + 1]
    /\ cals' = [cals EXCEPT ![c].live = FALSE]
    /\ shares' = [s \in ShareIDs |-> [shares[s] EXCEPT !.cals = @ \ {c}]]
    /\ UNCHANGED <<cache, views, opened, moved>>

-----------------------------------------------------------------------------
(* Requests for a picture. *)

Views(v, pc) == views[v].pc = pc
Leave(v)   == views' = [views EXCEPT ![v] = Waiting]
DataStay   == UNCHANGED <<cals, other, seq, moved>>

\* Open: the active share of a token.  A page and a feed count the visit, a part of a page does
\* not, and a picture has a name.
Open(v) ==
    \E s \in ShareIDs, then \in {"touch", "show", "version"} :
        /\ views[v].pc = "idle" /\ opened < MaxViews /\ opened' = opened + 1
        /\ Active(s)
        /\ views' = [views EXCEPT ![v] = [Waiting EXCEPT !.pc = then, !.share = s, !.row = shares[s]]]
        /\ UNCHANGED <<shares, cache>> /\ DataStay

\* TouchShare counts the visit by a statement of its own, also of a link that was revoked
\* or renewed since.
TouchShare(v) ==
    /\ Views(v, "touch") /\ views' = [views EXCEPT ![v].pc = "show"]
    /\ shares' = [shares EXCEPT ![views[v].share].hits = @ + 1]
    /\ UNCHANGED <<cache, opened>> /\ DataStay

\* public and feed answer with the share as it was opened.
Show(v) ==
    /\ Views(v, "show") /\ Leave(v)
    /\ UNCHANGED <<shares, cache, opened>> /\ DataStay

\* Mutant: the name of a picture leaves out the version of the share.
NameWithoutVersion(s, row, stamp) == [share |-> s, version |-> 0, stamp |-> stamp]

\* Key and ogVersion: the share, its version and the stamp, if it could be read.
Name(s, row, stamp) == [share |-> s, version |-> row.version, stamp |-> stamp]

\* og: the request asks for the picture of the version of now, else it is sent there.
Version(v) ==
    LET req == views[v]
    IN  /\ Views(v, "version")
        /\ \/ Leave(v)                                   \* redirected
           \/ \E stamp \in {NoStamp, ShareStamp(req.row)} :
                LET name == Name(req.share, req.row, stamp)
                IN  IF name \in DOMAIN cache THEN Leave(v)              \* a hit
                    ELSE views' = [views EXCEPT ![v].pc = "render", ![v].name = name]
        /\ UNCHANGED <<shares, cache, opened>> /\ DataStay

\* Requests for one picture wait for one rendering (singleflight).
Rendering(name) == \E v \in Viewers : views[v].pc = "put" /\ views[v].name = name

\* renderOG: with the share as it was opened and the data as they are now.
RenderOG(v) ==
    /\ Views(v, "render") /\ ~Rendering(views[v].name)
    /\ \/ /\ views[v].name \notin DOMAIN cache
          /\ views' = [views EXCEPT ![v].pc = "put",
                          ![v].body = Picture([views[v].row EXCEPT !.cals = {c \in @ : cals[c].live}], cals, other)]
       \/ views[v].name \in DOMAIN cache /\ Leave(v)
    /\ UNCHANGED <<shares, cache, opened>> /\ DataStay

\* Put: the file is renamed into place.
Put(v) ==
    /\ Views(v, "put") /\ Leave(v)
    /\ cache' = [n \in DOMAIN cache \cup {views[v].name} |->
                   IF n = views[v].name THEN views[v].body ELSE cache[n]]
    /\ UNCHANGED <<shares, opened>> /\ DataStay

\* Evict, of the retention job, and of a file somebody removes.
EvictPicture(n) ==
    /\ n \in DOMAIN cache /\ Cardinality(DOMAIN cache) > MaxFiles
    /\ cache' = [m \in DOMAIN cache \ {n} |-> cache[m]]
    /\ UNCHANGED <<shares, views, opened>> /\ DataStay

\* The owner has no link yet, or one.
SharesInit ==
    /\ shares \in {[s \in ShareIDs |-> NoLinkYet]} \cup
          {[s \in ShareIDs |-> IF s # 1 THEN NoLinkYet
              ELSE [NoLinkYet EXCEPT !.st = "active", !.cals = {c}, !.token = 1, !.version = 1]] : c \in Cals}
    /\ cals = [c \in Cals |-> [live |-> TRUE, holds |-> 0, stamp |-> 0]]
    /\ other = [holds |-> 0, todoStamp |-> 0, stamp |-> 0]
    /\ seq = 0 /\ cache = [n \in {} |-> 0] /\ opened = 0 /\ moved = FALSE
    /\ views = [v \in Viewers |-> Waiting]

SharesNext ==
    \/ \E s \in ShareIDs : \/ WebUpdate(s) \/ APIUpdate(s) \/ WebRegenerate(s) \/ APIRegenerate(s)
                           \/ WebRevoke(s) \/ APIRevoke(s)
    \/ \E c \in Cals : EditEvent(c) \/ DeleteCalendar(c) \/ \E b \in Cals : MoveEvent(c, b)
    \/ EditTodo
    \/ \E v \in Viewers : \/ CountShares(v) \/ WebCreate(v) \/ Quick(v) \/ APICreate(v) \/ Open(v) \/ TouchShare(v) \/ Show(v) \/ Version(v)
                           \/ RenderOG(v) \/ Put(v)
    \/ \E n \in DOMAIN cache : EvictPicture(n)

SharesSpec == SharesInit /\ [][SharesNext]_sharesVars

-----------------------------------------------------------------------------
(* Why it holds. *)

\* The name under which the picture of a share is asked for now, and what it shows.
NameNow(s)  == Name(s, shares[s], ShareStamp(shares[s]))
ShownNow(s) == Picture(shares[s], cals, other)

\* A request has seen the share as it is, or an older version of it: of a version only its
\* calendars may have become fewer.
SawShare(w) ==
    LET sh == shares[w.share]
    IN  /\ w.share \in ShareIDs /\ w.row.version <= sh.version
        /\ w.row.version = sh.version =>
              w.row.detail = sh.detail /\ w.row.todos = sh.todos /\ {c \in w.row.cals : cals[c].live} = sh.cals

\* No name is of a version or of a change to come.
Given(n) == n.share \in ShareIDs /\ n.version <= shares[n.share].version /\ n.stamp <= seq

\* A request that was served a share, or is to draw its picture.
Served(w) ==
    /\ w.pc \in {"touch", "show", "version", "render", "put"} => SawShare(w)
    /\ w.pc \in {"render", "put"} => Given(w.name) /\ w.name.share = w.share /\ w.name.version = w.row.version

ViewInv == (\A v \in Viewers : Served(views[v])) /\ \A n \in DOMAIN cache : Given(n)

\* What is kept, or is about to be, under the name of now shows what the share shows now.
Fits(n, pic) == n = NameNow(n.share) => pic = ShownNow(n.share)

NowInv ==
    /\ \A n \in DOMAIN cache : Fits(n, cache[n])
    /\ \A v \in Viewers : views[v].pc = "put" => Fits(views[v].name, views[v].body)

SharesInv == SharesTypeOK /\ ViewInv /\ (~moved => NowInv)

-----------------------------------------------------------------------------
(* Properties. *)

\* A picture that is kept under the name of now shows what the share shows now.
PictureNeverStale ==
    \A s \in ShareIDs : Active(s) /\ NameNow(s) \in DOMAIN cache =>
        cache[NameNow(s)] = ShownNow(s)

\* As long as no event changes its calendar, no order of edits, requests and renderings
\* leaves a picture under a name whose share looks different (og, ShareStamp, UpdateShare):
\* "ogVersion changes exactly when the rendered picture would" (web/shares/og.go).
PictureFollows == ~moved => PictureNeverStale
=============================================================================
