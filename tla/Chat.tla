-------------------------------- MODULE Chat --------------------------------
(***************************************************************************)
(* chat-service, for the room of one order or of one pair of users: two    *)
(* MongoDB collections, rooms and messages.  A send reads the room, looks  *)
(* for the client's id, draws an ObjectID and inserts; reading marks every *)
(* stored message up to an id.                                             *)
(***************************************************************************)
EXTENDS Integers, FiniteSets

CONSTANTS Reqs, None,
          User, Driver,  \* the room's two participants
          Clients,       \* client ids of messages
          MaxRooms, MaxRequests, \* bounds on the rooms inserted and the requests
          Faults         \* TRUE: a look-up fails, the process dies

VARIABLES direct,    \* the room is of a pair of users and looked up before it is made
          indexed,   \* order_id has the unique index CreateRoom expects
          rooms, closed, roomDriver, \* rooms inserted, those closed, the driver of each
          messages,  \* messages[i]: the message stored under id i, or None
          drawn,     \* ids drawn so far
          read,      \* ids with is_read
          marked,    \* history: marked[w], the highest id a reader of room w named
          outrun,      \* history: messages stored under an id read up to before
          chatClash,     \* history: "room" or "send" when equal requests overlap or a look-up fails
          chatJob, chatArrived
chatVars == <<direct, indexed, rooms, closed, roomDriver, messages, drawn, read, marked, outrun, chatClash,
              chatJob, chatArrived>>

Ids == 1..MaxRequests
Rooms == 1..MaxRooms
Messages == [room : Rooms, from : {User, Driver}, client : Clients \cup {None}]
Idle == [op |-> "none"]
Stored(w) == {i \in Ids : messages[i] # None /\ messages[i].room = w}

TypeOK ==
    /\ direct \in BOOLEAN /\ indexed \in BOOLEAN
    /\ closed \subseteq rooms /\ rooms \subseteq Rooms /\ roomDriver \in [Rooms -> {None, Driver}]
    /\ messages \in [Ids -> Messages \cup {None}] /\ drawn \in 0..MaxRequests
    /\ read \subseteq Ids /\ outrun \subseteq Ids /\ marked \in [Rooms -> 0..MaxRequests]
    /\ chatClash \subseteq {"room", "send"}
    /\ \A r \in Reqs : chatJob[r].op \in {"none", "create", "reopen", "look", "store"}

Init == /\ direct \in BOOLEAN /\ indexed \in BOOLEAN
        /\ rooms = {} /\ closed = {} /\ roomDriver = [w \in Rooms |-> None]
        /\ messages = [i \in Ids |-> None] /\ drawn = 0
        /\ read = {} /\ marked = [w \in Rooms |-> 0] /\ outrun = {} /\ chatClash = {}
        /\ chatJob = [r \in Reqs |-> Idle] /\ chatArrived = 0

Arrive == chatArrived < MaxRequests /\ chatArrived' = chatArrived + 1
Begin(r, job) == /\ chatJob[r] = Idle /\ Arrive /\ chatJob' = [chatJob EXCEPT ![r] = job]
Goes(r, job) == chatJob' = [chatJob EXCEPT ![r] = job] /\ UNCHANGED chatArrived
House == <<direct, indexed, rooms, closed, roomDriver>>
Talk == <<messages, drawn, read, marked, outrun>>

-----------------------------------------------------------------------------
(* Rooms *)

(* Mutant: the database takes any room. *)
NoIndex == TRUE
(* With the index a second room of the order is a duplicate key, and the     *)
(* first is answered.                                                        *)
Inserts == ~indexed \/ rooms = {}

CreateRoom(d) ==
    LET w == Cardinality(rooms) + 1 IN
    /\ w \in Rooms \/ ~Inserts
    /\ IF Inserts THEN rooms' = rooms \cup {w} /\ roomDriver' = [roomDriver EXCEPT ![w] = d]
       ELSE UNCHANGED <<rooms, roomDriver>>
    /\ UNCHANGED <<direct, indexed, closed, Talk>>

(* InternalCreateRoom looks for no other room. *)
InternalCreateRoom(d) ==
    /\ ~direct /\ Arrive /\ CreateRoom(d)
    /\ chatClash' = IF rooms # {} THEN chatClash \cup {"room"} ELSE chatClash
    /\ UNCHANGED chatJob

(* CreateDirectRoom: no room was found, or the look-up failed. *)
CreateDirectRoom(r) ==
    /\ direct /\ (rooms = {} \/ Faults) /\ Begin(r, [op |-> "create"])
    /\ chatClash' = IF rooms # {} \/ \E s \in Reqs : chatJob[s].op = "create"
                THEN chatClash \cup {"room"} ELSE chatClash
    /\ UNCHANGED <<House, Talk>>

InsertDirectRoom(r) ==
    /\ chatJob[r].op = "create" /\ Goes(r, Idle)
    /\ CreateRoom(Driver) /\ UNCHANGED chatClash

(* The pair's room was found closed: the update's error is dropped. *)
FindClosedRoom(r, w) ==
    /\ direct /\ w \in closed /\ Begin(r, [op |-> "reopen", room |-> w])
    /\ UNCHANGED <<House, Talk, chatClash>>

ReopenRoom(r) ==
    /\ chatJob[r].op = "reopen"
    /\ closed' = closed \ {chatJob[r].room} /\ Goes(r, Idle)
    /\ UNCHANGED <<direct, indexed, rooms, roomDriver, Talk, chatClash>>

InternalCloseRoom(w) ==
    /\ w \in rooms /\ Arrive /\ closed' = closed \cup {w}
    /\ UNCHANGED <<direct, indexed, rooms, roomDriver, Talk, chatClash, chatJob>>

(* FindOneAndUpdate changes one room of the order, closed or not. *)
InternalAssignDriver(w) ==
    /\ ~direct /\ w \in rooms /\ Arrive /\ roomDriver' = [roomDriver EXCEPT ![w] = Driver]
    /\ UNCHANGED <<direct, indexed, rooms, closed, Talk, chatClash, chatJob>>

-----------------------------------------------------------------------------
(* Messages *)
Participant(w, p) == p = User \/ roomDriver[w] = p

SendMessage(r, w, p, c) ==
    /\ w \in rooms \ closed /\ Participant(w, p)
    /\ Begin(r, [op |-> "look", m |-> [room |-> w, from |-> p, client |-> c], id |-> 0])
    /\ chatClash' = IF c # None /\ \E s \in Reqs : /\ chatJob[s].op \in {"look", "store"}
                                               /\ chatJob[s].m.room = w /\ chatJob[s].m.client = c
                THEN chatClash \cup {"send"} ELSE chatClash
    /\ UNCHANGED <<House, Talk>>

Draw(r, m) == /\ drawn' = drawn + 1 /\ Goes(r, [op |-> "store", m |-> m, id |-> drawn + 1])
              /\ UNCHANGED <<House, messages, read, marked, outrun>>

(* Mutant: the client's id is not looked for. *)
NotLooked(m) == FALSE
Existing(m) == m.client # None /\ \E i \in Stored(m.room) : messages[i].client = m.client

GetMessageByClientID(r) ==
    LET m == chatJob[r].m IN
    /\ chatJob[r].op = "look" /\ UNCHANGED chatClash
    /\ IF Existing(m) THEN Goes(r, Idle) /\ UNCHANGED <<House, Talk>> ELSE Draw(r, m)

(* An error of the look-up counts as a message not found. *)
LookFails(r) ==
    LET m == chatJob[r].m IN
    /\ Faults /\ chatJob[r].op = "look" /\ m.client # None /\ Draw(r, m)
    /\ chatClash' = chatClash \cup {"send"}

InsertMessage(r) ==
    LET q == chatJob[r] IN
    /\ q.op = "store" /\ Goes(r, Idle)
    /\ messages' = [messages EXCEPT ![q.id] = q.m]
    /\ outrun' = IF q.id <= marked[q.m.room] THEN outrun \cup {q.id} ELSE outrun
    /\ UNCHANGED <<House, drawn, read, marked, chatClash>>

(* Mutants: only the message named is marked; the whole room is. *)
OnlyThat(w, i) == {i}
Everything(w, i) == Stored(w)
(* Everything stored up to it, whoever sent it: the reader's own messages    *)
(* are marked as read with the others.                                       *)
UpTo(w, i) == {j \in Stored(w) : j <= i}

(* Any ObjectID is taken, of a message or not: one to come as well. *)
MarkMessagesAsRead(w, p, i) ==
    /\ Participant(w, p) /\ Arrive
    /\ read' = read \cup UpTo(w, i)
    /\ marked' = [marked EXCEPT ![w] = IF i > @ THEN i ELSE @]
    /\ UNCHANGED <<House, messages, drawn, outrun, chatClash, chatJob>>

Die(r) == /\ Faults /\ chatJob[r] # Idle /\ Goes(r, Idle)
          /\ UNCHANGED <<House, Talk, chatClash>>

(* The endpoints of participants and of other services. *)
ParticipantRequests(r) ==
    \/ CreateDirectRoom(r)
    \/ \E w \in rooms : \/ FindClosedRoom(r, w)
                        \/ \E p \in {User, Driver} : \/ \E c \in Clients \cup {None} : SendMessage(r, w, p, c)
                                                     \/ \E i \in Ids : MarkMessagesAsRead(w, p, i)
InternalRequests == \/ \E d \in {None, Driver} : InternalCreateRoom(d)
                    \/ \E w \in rooms : InternalCloseRoom(w) \/ InternalAssignDriver(w)
Next == \/ InternalRequests
        \/ \E r \in Reqs : \/ ParticipantRequests(r) \/ InsertDirectRoom(r) \/ ReopenRoom(r)
                           \/ GetMessageByClientID(r) \/ LookFails(r) \/ InsertMessage(r) \/ Die(r)
Spec == Init /\ [][Next]_chatVars

-----------------------------------------------------------------------------
(* Properties *)

(* Two rooms of one order or pair take a database without the index, and     *)
(* creations that overlap, repeat or could not look.                         *)
OneRoom == Cardinality(rooms) > 1 => ~indexed /\ "room" \in chatClash

(* A client's id is stored once in a room, unless two sends of it overlapped *)
(* or the look-up failed.                                                    *)
SentOnce ==
    \A w \in rooms : \A i, j \in Stored(w) :
        i # j /\ messages[i].client = messages[j].client /\ messages[i].client # None
        => "send" \in chatClash

(* No unread message has an id up to the one a participant has named, but    *)
(* those stored after it was named, under an id drawn before or to come.     *)
NoHoles == \A w \in rooms : \A i \in Stored(w) : i <= marked[w] => i \in read \cup outrun

(* Nothing beyond what a participant named is marked as read. *)
ReadNamed == \A w \in rooms : \A i \in Stored(w) : i \in read => i <= marked[w]

(* Together: one room, each message once in it, and read marks that cover    *)
(* what was named and nothing after it.                                      *)
ChatSafe == TypeOK /\ OneRoom /\ SentOnce /\ NoHoles /\ ReadNamed
=============================================================================
