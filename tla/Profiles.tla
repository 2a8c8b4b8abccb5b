------------------------------ MODULE Profiles ------------------------------
(***************************************************************************)
(* What the daemon and the window remember of people: the profile picture  *)
(* cache of the daemon (apps/daemon/wa/avatar.go) and of the window        *)
(* (apps/desktop/avatar.go), and the daemon's cache of contact names       *)
(* (apps/daemon/wa/names.go, contactName in session.go).                   *)
(*                                                                         *)
(* Both are filled by lookups on goroutines of their own and invalidated   *)
(* by events, which one goroutine handles in order.  A lookup takes no     *)
(* lock between its read and its put.  A person has one picture file per   *)
(* address; writing it is one step.  Pictures and names are versions, 0    *)
(* being none.                                                             *)
(***************************************************************************)
EXTENDS Integers, FiniteSets, Sequences

CONSTANTS
    Users,      \* addresses: a person may have a phone number and a LID
    Alt,        \* the other address of each, once the mapping is known
    Rows,       \* the avatar widgets of the window
    Jobs,       \* goroutines at once (bound)
    None,
    MaxChanges, \* changes of pictures, contacts and mapping (bound)
    MaxFaults   \* failures, lost events, removed files, restarts (bound)

ASSUME NoneAssumption == None \notin Users
ASSUME AltAssumption == Alt \in [Users -> Users]
ASSUME MaxChangesAssumption == MaxChanges \in Nat
ASSUME MaxFaultsAssumption == MaxFaults \in Nat

VARIABLES
    picture,    \* WhatsApp: the picture of each user
    contact,    \* the contacts table of whatsmeow: the name of each address
    mapped,     \* the table of alternative addresses is filled
    news,       \* events that the event goroutine has not handled
    entries,    \* avatarCache.entries
    disk,       \* the picture in each user's file
    names,      \* nameCache.names
    job,        \* the goroutines
    feed,       \* ProfilePictureUpdated events on their way to the window
    avatars,    \* w.avatars: nil, a picture, or no entry
    row,        \* w.avatarRows and the image each widget shows
    overtaken,  \* history: users whose picture was looked up across a change,
                \* or of whom a lookup, an event or a file was lost since
    crossed,    \* history: users whose name was looked up across a change, or
                \* whose lookup failed, since their contact last changed
    changes, faults

serverVars == <<picture, contact, mapped>>
cacheVars == <<entries, disk, names>>
windowVars == <<avatars, row>>
history == <<overtaken, crossed>>
bounds == <<changes, faults>>
profilesVars == <<serverVars, news, cacheVars, job, feed, windowVars, history, bounds>>

Versions == 0..MaxChanges
Unknown == -1       \* no entry in a cache

JobRecord == [kind : {"free", "rpc", "event", "name"},
              phase : {"start", "asking", "loading", "putting", "done", "failed"},
              user : Users \cup {None}, got : Versions]
Free == [kind |-> "free", phase |-> "done", user |-> None, got |-> 0]

ProfilesTypeOK ==
    /\ picture \in [Users -> Versions] /\ contact \in [Users -> Versions]
    /\ mapped \in BOOLEAN
    /\ news \in Seq([type : {"picture", "removed", "contact"}, user : Users])
    /\ entries \in [Users -> {"miss", "none", "file"}] /\ disk \in [Users -> Versions]
    /\ names \in [Users -> Versions \cup {Unknown}]
    /\ job \in [Jobs -> JobRecord]
    /\ feed \in Seq([user : Users, path : BOOLEAN])
    /\ avatars \in [Users -> Versions \cup {Unknown}]
    /\ row \in [Rows -> [user : Users \cup {None}, image : Versions]]
    /\ overtaken \subseteq Users /\ crossed \subseteq Users
    /\ changes \in 0..MaxChanges /\ faults \in 0..MaxFaults

Change == changes < MaxChanges /\ changes' = changes + 1 /\ UNCHANGED faults
Fault == faults < MaxFaults /\ faults' = faults + 1 /\ UNCHANGED changes

Running(j, kinds, phase) == job[j].kind \in kinds /\ job[j].phase = phase
To(j, phase) == job' = [job EXCEPT ![j].phase = phase]
InFlight(kind, u) == \E j \in Jobs : job[j].kind = kind /\ job[j].user = u

\* A goroutine for a lookup of a user.
Start(kind, u, phase) ==
    \E j \in Jobs :
        /\ job[j] = Free
        /\ job' = [job EXCEPT ![j] = [kind |-> kind, phase |-> phase, user |-> u, got |-> 0]]

-----------------------------------------------------------------------------
(* WhatsApp and the tables of whatsmeow change; an event follows.          *)

PictureChanges(u) ==
    \E v \in {0, changes + 1} :
        /\ Change
        /\ v # picture[u]
        /\ picture' = [picture EXCEPT ![u] = v]
        /\ news' = Append(news, [type |-> IF v = 0 THEN "removed" ELSE "picture", user |-> u])
        /\ UNCHANGED <<contact, mapped, cacheVars, job, feed, windowVars, history>>

ContactChanges(u) ==
    /\ Change
    /\ contact' = [contact EXCEPT ![u] = changes + 1]
    /\ news' = Append(news, [type |-> "contact", user |-> u])
    /\ UNCHANGED <<picture, mapped, cacheVars, job, feed, windowVars, history>>

\* The mapping is learnt, and no event says so.
LearnMapping ==
    /\ Change
    /\ ~mapped
    /\ mapped' = TRUE
    /\ UNCHANGED <<picture, contact, news, cacheVars, job, feed, windowVars, history>>

-----------------------------------------------------------------------------
(* ProfilePicture, for an RPC or for a picture event.                      *)

\* A remembered picture, or its absence, is the answer; one whose file is gone
\* is forgotten.
LookUpCache(j) ==
    LET u == job[j].user
        known == \/ entries[u] = "none"
                 \/ entries[u] = "file" /\ disk[u] # 0
    IN
    /\ Running(j, {"rpc", "event"}, "start")
    /\ entries' = IF known THEN entries ELSE [entries EXCEPT ![u] = "miss"]
    /\ job' = [job EXCEPT ![j].phase = IF known THEN "done" ELSE "asking",
                          ![j].got = IF entries[u] = "file" THEN disk[u] ELSE 0]
    /\ UNCHANGED <<serverVars, news, disk, names, feed, windowVars, history, bounds>>

\* GetProfilePictureInfo: no picture is worth remembering too.
AskServer(j) ==
    LET u == job[j].user IN
    /\ Running(j, {"rpc", "event"}, "asking")
    /\ entries' = IF picture[u] = 0 THEN [entries EXCEPT ![u] = "none"] ELSE entries
    /\ job' = [job EXCEPT ![j].phase = IF picture[u] = 0 THEN "done" ELSE "loading",
                          ![j].got = picture[u]]
    /\ UNCHANGED <<serverVars, news, disk, names, feed, windowVars, history, bounds>>

DownloadAvatar(j) ==
    /\ Running(j, {"rpc", "event"}, "loading")
    /\ disk' = [disk EXCEPT ![job[j].user] = job[j].got]
    /\ To(j, "putting")
    /\ UNCHANGED <<serverVars, news, entries, names, feed, windowVars, history, bounds>>

PutAvatar(j) ==
    /\ Running(j, {"rpc", "event"}, "putting")
    /\ entries' = [entries EXCEPT ![job[j].user] = "file"]
    /\ To(j, "done")
    /\ UNCHANGED <<serverVars, news, disk, names, feed, windowVars, history, bounds>>

\* The answer of an RPC says that there is no picture; a failed refresh is
\* only logged.
LookupFails(j) ==
    LET u == job[j].user IN
    /\ Fault
    /\ \E phase \in {"asking", "loading"} : Running(j, {"rpc", "event"}, phase)
    /\ job' = IF job[j].kind = "rpc" THEN [job EXCEPT ![j].phase = "failed"]
              ELSE [job EXCEPT ![j] = Free]
    /\ overtaken' = overtaken \cup {u}
    /\ UNCHANGED <<serverVars, news, cacheVars, feed, windowVars, crossed>>

\* Mutant: the entry is not dropped before the new picture is fetched.
MutantOnPictureChanged ==
    LET u == Head(news).user
        removed == Head(news).type = "removed"
    IN
    /\ news # <<>> /\ Head(news).type # "contact"
    /\ \A j \in Jobs : job[j].kind # "event"
    /\ news' = Tail(news)
    /\ entries' = IF removed THEN [entries EXCEPT ![u] = "none"] ELSE entries
    /\ Start("event", u, IF removed THEN "done" ELSE "start")
    /\ overtaken' = IF InFlight("rpc", u) THEN overtaken \cup {u} ELSE overtaken \ {u}
    /\ UNCHANGED <<serverVars, disk, names, feed, windowVars, crossed, bounds>>

\* onPictureChanged, the beginning: the entry is dropped, or set to none.
OnPictureChanged ==
    LET u == Head(news).user
        removed == Head(news).type = "removed"
    IN
    /\ news # <<>> /\ Head(news).type # "contact"
    /\ \A j \in Jobs : job[j].kind # "event"
    /\ news' = Tail(news)
    /\ entries' = [entries EXCEPT ![u] = IF removed THEN "none" ELSE "miss"]
    /\ Start("event", u, IF removed THEN "done" ELSE "start")
    /\ overtaken' = IF InFlight("rpc", u) THEN overtaken \cup {u} ELSE overtaken \ {u}
    /\ UNCHANGED <<serverVars, disk, names, feed, windowVars, crossed, bounds>>

\* Its end: the path, or its absence, is published; the broker or the stream
\* may lose the event.
PublishPicture(j) ==
    LET u == job[j].user IN
    /\ Running(j, {"event"}, "done")
    /\ job' = [job EXCEPT ![j] = Free]
    /\ \/ /\ feed' = Append(feed, [user |-> u, path |-> job[j].got # 0])
          /\ UNCHANGED <<overtaken, bounds>>
       \/ /\ Fault
          /\ overtaken' = overtaken \cup {u}
          /\ feed' = feed
    /\ UNCHANGED <<serverVars, news, cacheVars, windowVars, crossed>>

-----------------------------------------------------------------------------
(* contactName and the events that invalidate it.                          *)

\* The name under the address itself, or else under the other one.
Resolved(u) ==
    IF contact[u] # 0 \/ ~mapped THEN contact[u] ELSE contact[Alt[u]]

\* A miss begins a lookup.
ContactName(u) ==
    /\ names[u] = Unknown
    /\ Start("name", u, "start")
    /\ UNCHANGED <<serverVars, news, cacheVars, feed, windowVars, history, bounds>>

ReadContacts(j) ==
    /\ Running(j, {"name"}, "start")
    /\ job' = [job EXCEPT ![j].phase = "putting", ![j].got = Resolved(job[j].user)]
    /\ UNCHANGED <<serverVars, news, cacheVars, feed, windowVars, history, bounds>>

\* A lookup of the mapping or of a contact that fails (its context may have
\* been cancelled) is taken for one that found nothing, and what is left is
\* put: no name, or the one under the other address.
ReadFails(j) ==
    LET u == job[j].user IN
    /\ Fault
    /\ Running(j, {"name"}, "start")
    /\ \E name \in {0} \cup {contact[a] : a \in IF mapped THEN {Alt[u]} ELSE {}} :
          job' = [job EXCEPT ![j].phase = "putting", ![j].got = name]
    /\ crossed' = crossed \cup {u}
    /\ UNCHANGED <<serverVars, news, cacheVars, feed, windowVars, overtaken>>

PutName(j) ==
    /\ Running(j, {"name"}, "putting")
    /\ names' = [names EXCEPT ![job[j].user] = job[j].got]
    /\ job' = [job EXCEPT ![j] = Free]
    /\ UNCHANGED <<serverVars, news, entries, disk, feed, windowVars, history, bounds>>

\* Mutant: the other address is forgotten instead.
MutantDropName ==
    LET u == Head(news).user IN
    /\ news # <<>> /\ Head(news).type = "contact"
    /\ \A j \in Jobs : job[j].kind # "event"
    /\ news' = Tail(news)
    /\ names' = [names EXCEPT ![Alt[u]] = Unknown]
    /\ crossed' = IF InFlight("name", u) THEN crossed \cup {u} ELSE crossed \ {u}
    /\ UNCHANGED <<serverVars, entries, disk, job, feed, windowVars, overtaken, bounds>>

\* Contact, PushName, BusinessName: the name of that address is forgotten.
DropName ==
    LET u == Head(news).user IN
    /\ news # <<>> /\ Head(news).type = "contact"
    /\ \A j \in Jobs : job[j].kind # "event"
    /\ news' = Tail(news)
    /\ names' = [names EXCEPT ![u] = Unknown]
    /\ crossed' = IF InFlight("name", u) THEN crossed \cup {u} ELSE crossed \ {u}
    /\ UNCHANGED <<serverVars, entries, disk, job, feed, windowVars, overtaken, bounds>>

\* LoggedOut and Logout reset the names; the pictures stay.
ResetNames ==
    /\ Fault
    /\ names' = [u \in Users |-> Unknown]
    /\ UNCHANGED <<serverVars, news, entries, disk, job, feed, windowVars, history>>

\* The daemon restarts: both caches are empty and the files are still there.
Restart ==
    /\ Fault
    /\ entries' = [u \in Users |-> "miss"] /\ names' = [u \in Users |-> Unknown]
    /\ job' = [j \in Jobs |-> IF job[j].kind = "rpc" THEN [job[j] EXCEPT !.phase = "failed"]
                             ELSE Free]
    /\ news' = <<>> /\ feed' = <<>>
    /\ overtaken' = Users
    /\ UNCHANGED <<serverVars, disk, windowVars, crossed>>

\* The user empties the cache directory.
RemoveFile(u) ==
    /\ Fault
    /\ disk' = [disk EXCEPT ![u] = 0]
    /\ UNCHANGED <<serverVars, news, entries, names, job, feed, windowVars, history>>

-----------------------------------------------------------------------------
(* The window.                                                             *)

\* Mutant: only the cache is updated.
MutantSetAvatar(u, hasPath) ==
    /\ avatars' = [avatars EXCEPT ![u] = IF hasPath THEN disk[u] ELSE 0]
    /\ row' = row
    /\ overtaken' = IF hasPath /\ disk[u] = 0 THEN overtaken \cup {u} ELSE overtaken

\* setAvatar loads the file as it is now, and fills every widget of the user.
SetAvatar(u, hasPath) ==
    LET image == IF hasPath THEN disk[u] ELSE 0 IN
    /\ avatars' = [avatars EXCEPT ![u] = image]
    /\ row' = [r \in Rows |-> IF row[r].user = u THEN [row[r] EXCEPT !.image = image] ELSE row[r]]
    /\ overtaken' = IF hasPath /\ disk[u] = 0 THEN overtaken \cup {u} ELSE overtaken

\* bindAvatar: the entry of the first request stays nil until it is answered.
BindAvatar(r, u) ==
    /\ row[r].user # u
    /\ row' = [row EXCEPT ![r] = [user |-> u, image |-> IF avatars[u] = Unknown THEN 0 ELSE avatars[u]]]
    /\ \/ /\ avatars[u] # Unknown
          /\ UNCHANGED <<avatars, job>>
       \/ /\ avatars[u] = Unknown
          /\ avatars' = [avatars EXCEPT ![u] = 0]
          /\ Start("rpc", u, "start")
    /\ UNCHANGED <<serverVars, news, cacheVars, feed, history, bounds>>

UnbindAvatar(r) ==
    /\ row[r].user # None
    /\ row' = [row EXCEPT ![r] = [user |-> None, image |-> 0]]
    /\ UNCHANGED <<serverVars, news, cacheVars, job, feed, avatars, history, bounds>>

\* The callback of GetProfilePicture: an error counts as no picture.
OnReply(j) ==
    /\ job[j].kind = "rpc" /\ job[j].phase \in {"done", "failed"}
    /\ job' = [job EXCEPT ![j] = Free]
    /\ SetAvatar(job[j].user, job[j].phase = "done" /\ job[j].got # 0)
    /\ UNCHANGED <<serverVars, news, cacheVars, feed, crossed, bounds>>

OnProfilePictureUpdated ==
    /\ feed # <<>>
    /\ SetAvatar(Head(feed).user, Head(feed).path)
    /\ feed' = Tail(feed)
    /\ UNCHANGED <<serverVars, news, cacheVars, job, crossed, bounds>>

-----------------------------------------------------------------------------
ProfilesInit ==
    /\ picture = [u \in Users |-> 0] /\ contact = [u \in Users |-> 0] /\ mapped = FALSE
    /\ news = <<>> /\ feed = <<>>
    /\ entries = [u \in Users |-> "miss"] /\ disk = [u \in Users |-> 0]
    /\ names = [u \in Users |-> Unknown] /\ job = [j \in Jobs |-> Free]
    /\ avatars = [u \in Users |-> Unknown]
    /\ row = [r \in Rows |-> [user |-> None, image |-> 0]]
    /\ overtaken = {} /\ crossed = {} /\ changes = 0 /\ faults = 0

JobNext(j) ==
    \/ LookUpCache(j) \/ AskServer(j) \/ DownloadAvatar(j) \/ PutAvatar(j)
    \/ LookupFails(j) \/ PublishPicture(j) \/ ReadContacts(j) \/ ReadFails(j)
    \/ PutName(j) \/ OnReply(j)

UserNext(u) ==
    \/ PictureChanges(u) \/ ContactChanges(u) \/ ContactName(u) \/ RemoveFile(u)
    \/ \E r \in Rows : BindAvatar(r, u)

ProfilesNext ==
    \/ \E j \in Jobs : JobNext(j)
    \/ \E u \in Users : UserNext(u)
    \/ \E r \in Rows : UnbindAvatar(r)
    \/ LearnMapping \/ OnPictureChanged \/ DropName \/ ResetNames \/ Restart
    \/ OnProfilePictureUpdated

ProfilesSpec == ProfilesInit /\ [][ProfilesNext]_profilesVars

-----------------------------------------------------------------------------
Quiet(u) ==
    /\ \A j \in Jobs : job[j].user # u
    /\ \A i \in DOMAIN news : news[i].user # u
    /\ \A i \in DOMAIN feed : feed[i].user # u

\* When nothing of a user is under way and no lookup spanned the last change,
\* the picture the window remembers, the daemon's entry and the file are the
\* user's picture: an older lookup never wins over a newer one otherwise.
SettledPictureIsCurrent ==
    \A u \in Users \ overtaken : Quiet(u) =>
        /\ avatars[u] \in {Unknown, picture[u]}
        /\ entries[u] = "none" => picture[u] = 0
        /\ entries[u] = "file" => disk[u] \in {0, picture[u]}

\* Every widget of a user shows the picture the window remembers of him, the
\* recycled ones and those bound while the request was in flight included.
WidgetsAgree ==
    \A r \in Rows : row[r].user # None =>
        row[r].image = (IF avatars[row[r].user] = Unknown THEN 0 ELSE avatars[row[r].user])

\* A remembered name is the one the contacts hold under that address, if they
\* hold one, unless a lookup spanned the change or failed after it: what is
\* cached (no name, or that of the other address) then stays until the contact
\* changes again.
NameFollowsContact ==
    \A u \in Users \ crossed :
        (/\ Quiet(u) /\ contact[u] # 0) => names[u] \in {Unknown, contact[u]}
=============================================================================
