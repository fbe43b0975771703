----------------------------- MODULE PeopleList -----------------------------
(***************************************************************************)
(* The people in the table of PeopleController: childAdded observers over  *)
(* the Firebase Database client, whose connection is lost and restored,    *)
(* whose writes show before the server has them, and whose listens may be  *)
(* answered late, twice or with a refusal.  A row is added for each event  *)
(* and never taken away, so an event too many is a person listed twice.    *)
(***************************************************************************)
EXTENDS Naturals, Sequences, FiniteSets

CONSTANTS Lists,       \* the people tables opened since launch
          Users,       \* uids, the keys below users/
          NoList,     \* nil
          Restricted,  \* may the database rules take away reading?
          MaxDrops     \* bound: lost connections

ASSUME ConstantsAssumption == /\ NoList \notin Lists \cup Users
                              /\ Lists \cap Users = {}
                              /\ Restricted \in BOOLEAN
                              /\ MaxDrops \in Nat

VARIABLES
    stored,      \* server: the records below users/
    tried,       \* the users whose record was written, here or elsewhere
    up,          \* requests on their way: listens by the table that asked, puts by user
    down,        \* messages from the server
    serving,     \* server: pushes new records to this connection
    drops,       \* lost connections
    connection,  \* FPersistentConnection.connectionState
    listen,      \* listens: the table whose observer made the client listen
    unacked,     \* unackedListensCount
    puts,        \* outstandingPuts
    held,        \* putsToAck
    writes,      \* pendingWriteTree
    synced,      \* is the server cache fully initialised?
    serverCache,       \* the server cache
    observers,   \* the tables with a registration
    opened,      \* the tables opened so far
    events,      \* childAdded events waiting on the main queue, by table and user
    rows         \* rows of a table that show a user

network == <<up, down, serving, drops>>
client == <<connection, listen, unacked, puts, held>>
tree == <<writes, synced, serverCache, observers>>
peopleVars == <<stored, tried, up, down, serving, drops, connection, listen, unacked,
                puts, held, writes, synced, serverCache, observers, opened, events, rows>>

Sendable == Lists \cup Users
Messages == [kind : {"data"}, users : SUBSET Users]
            \cup [kind : {"added", "put"}, user : Users]
            \cup [kind : {"granted", "denied"}, list : Lists]
            \cup [kind : {"revoked"}]

PeopleTypeOK == /\ stored \subseteq Users /\ tried \subseteq Users
                /\ up \in [Sendable -> Nat]
                /\ down \in Seq(Messages)
                /\ serving \in BOOLEAN
                /\ drops \in 0 .. MaxDrops
                /\ connection \in {"down", "authenticating", "up"}
                /\ listen \in Lists \cup {NoList}
                /\ unacked \in Nat
                /\ puts \subseteq Users /\ held \subseteq Users /\ writes \subseteq Users
                /\ synced \in BOOLEAN
                /\ serverCache \subseteq Users
                /\ observers \subseteq Lists /\ opened \subseteq Lists
                /\ events \in [Lists -> [Users -> Nat]]
                /\ rows \in [Lists -> [Users -> Nat]]

PeopleInit == /\ stored \in SUBSET Users /\ tried = stored
              /\ up = [x \in Sendable |-> 0] /\ down = <<>> /\ serving = FALSE /\ drops = 0
              /\ connection = "down" /\ listen = NoList /\ unacked = 0
              /\ puts = {} /\ held = {}
              /\ writes = {} /\ synced = FALSE /\ serverCache = {} /\ observers = {}
              /\ opened = {}
              /\ events = [l \in Lists |-> [u \in Users |-> 0]]
              /\ rows = [l \in Lists |-> [u \in Users |-> 0]]

Connected == connection \in {"authenticating", "up"}
One(condition) == IF condition THEN 1 ELSE 0
-----------------------------------------------------------------------------
(* FSyncTree and its one view.  A local merge shows only where the server  *)
(* cache is complete.                                                      *)
Visible(w, s, c) == c \cup (IF s THEN w ELSE {})
Shown == Visible(writes, synced, serverCache)

(* One childAdded event for each observer and each user who appears.       *)
Raise(appeared) ==
    events' = [l \in Lists |-> IF l \in observers
                               THEN [u \in Users |-> events[l][u] + One(u \in appeared)]
                               ELSE events[l]]

(* A listen that is refused or revoked takes every observer with it.       *)
RemoveView == /\ listen' = NoList
              /\ synced' = FALSE /\ serverCache' = {} /\ observers' = {}
-----------------------------------------------------------------------------
(* Fault: an observer that joins the others is told of new users only. *)
ObserveLate(l) ==
    /\ l \notin opened
    /\ opened' = opened \cup {l}
    /\ observers' = observers \cup {l}
    /\ IF observers = {}
       THEN /\ listen' = l
            /\ up' = [up EXCEPT ![l] = @ + One(Connected)]
            /\ unacked' = unacked + One(Connected)
       ELSE UNCHANGED <<listen, up, unacked>>
    /\ UNCHANGED <<stored, tried, down, serving, drops, connection, puts, held,
                   writes, synced, serverCache, events, rows>>

(* PeopleController.viewDidLoad.  Only the first observer makes the client *)
(* listen; each one gets its own initial events.                           *)
Observe(l) ==
    /\ l \notin opened
    /\ opened' = opened \cup {l}
    /\ observers' = observers \cup {l}
    /\ events' = [events EXCEPT ![l] = [u \in Users |-> One(u \in Shown)]]
    /\ IF observers = {}
       THEN /\ listen' = l
            /\ up' = [up EXCEPT ![l] = @ + One(Connected)]
            /\ unacked' = unacked + One(Connected)
       ELSE UNCHANGED <<listen, up, unacked>>
    /\ UNCHANGED <<stored, tried, down, serving, drops, connection, puts, held,
                   writes, synced, serverCache, rows>>

(* The record of a sign-up on this phone.                                  *)
Write(u) ==
    /\ u \notin tried
    /\ tried' = tried \cup {u}
    /\ writes' = writes \cup {u}
    /\ Raise(Visible({u}, synced, serverCache) \ Shown)
    /\ puts' = puts \cup {u}
    /\ up' = [up EXCEPT ![u] = @ + One(connection = "up")]
    /\ UNCHANGED <<stored, down, serving, drops, connection, listen, unacked, held,
                   synced, serverCache, observers, opened, rows>>

(* The main queue: append the user, reload the table.                      *)
AddRow(l, u) == /\ events[l][u] > 0
                /\ events' = [events EXCEPT ![l][u] = @ - 1]
                /\ rows' = [rows EXCEPT ![l][u] = @ + 1]
                /\ UNCHANGED <<stored, tried, network, client, tree, opened>>
-----------------------------------------------------------------------------
(* FPersistentConnection.  Everything the client still waits for is sent   *)
(* again, a listen that was sent while authenticating included.            *)
RestoreState ==
    /\ connection' = "up"
    /\ up' = [x \in Sendable |-> up[x] + One(x = listen \/ x \in puts)]
    /\ unacked' = unacked + One(listen # NoList)

Connect == /\ connection = "down"
           /\ \/ RestoreState
              \/ connection' = "authenticating" /\ UNCHANGED <<up, unacked>>
           /\ UNCHANGED <<stored, tried, down, serving, drops, listen, puts, held,
                          tree, opened, events, rows>>

Authenticated ==
    /\ connection = "authenticating"
    /\ RestoreState
    /\ UNCHANGED <<stored, tried, down, serving, drops, listen, puts, held,
                   tree, opened, events, rows>>

(* Fault: the listens of the lost connection are still counted. *)
DropCounting ==
    /\ Connected /\ drops < MaxDrops
    /\ drops' = drops + 1
    /\ connection' = "down"
    /\ up' = [x \in Sendable |-> 0] /\ down' = <<>> /\ serving' = FALSE
    /\ UNCHANGED <<stored, tried, listen, unacked, puts, held, tree, opened, events, rows>>

(* What is on its way in either direction is lost, and so are the          *)
(* callbacks of its requests; a rejected token ends the same way.          *)
Drop == /\ Connected /\ drops < MaxDrops
        /\ drops' = drops + 1
        /\ connection' = "down"
        /\ up' = [x \in Sendable |-> 0] /\ down' = <<>> /\ serving' = FALSE
        /\ unacked' = 0
        /\ UNCHANGED <<stored, tried, listen, puts, held, tree, opened, events, rows>>
-----------------------------------------------------------------------------
(* The server answers requests in any order, but its messages arrive in    *)
(* the order it sends them.                                                *)
Server == UNCHANGED <<drops, client, tree, opened, events, rows>>
Push(messages) == down' = down \o messages

GrantListen(l) == /\ up[l] > 0
                  /\ up' = [up EXCEPT ![l] = @ - 1]
                  /\ serving' = TRUE
                  /\ Push(<<[kind |-> "data", users |-> stored],
                            [kind |-> "granted", list |-> l]>>)
                  /\ UNCHANGED <<stored, tried>> /\ Server

DenyListen(l) == /\ Restricted
                 /\ up[l] > 0
                 /\ up' = [up EXCEPT ![l] = @ - 1]
                 /\ Push(<<[kind |-> "denied", list |-> l]>>)
                 /\ UNCHANGED <<stored, tried, serving>> /\ Server

RevokeListen == /\ Restricted /\ serving
                /\ serving' = FALSE
                /\ Push(<<[kind |-> "revoked"]>>)
                /\ UNCHANGED <<stored, tried, up>> /\ Server

(* A new record goes to the listeners before its put is answered.          *)
Announce(u) == IF serving /\ u \notin stored THEN <<[kind |-> "added", user |-> u]>> ELSE <<>>

AcceptPut(u) == /\ up[u] > 0
                /\ up' = [up EXCEPT ![u] = @ - 1]
                /\ stored' = stored \cup {u}
                /\ Push(Append(Announce(u), [kind |-> "put", user |-> u]))
                /\ UNCHANGED <<tried, serving>> /\ Server

RefusePut(u) == /\ up[u] > 0
                /\ up' = [up EXCEPT ![u] = @ - 1]
                /\ Push(<<[kind |-> "put", user |-> u]>>)
                /\ UNCHANGED <<stored, tried, serving>> /\ Server

(* A sign-up on another phone.                                             *)
WriteElsewhere(u) == /\ u \notin tried
                     /\ tried' = tried \cup {u}
                     /\ stored' = stored \cup {u}
                     /\ Push(Announce(u))
                     /\ UNCHANGED <<up, serving>> /\ Server
-----------------------------------------------------------------------------
Receive(kind) == /\ down # <<>> /\ Head(down).kind = kind
                 /\ down' = Tail(down)
                 /\ UNCHANGED <<stored, tried, up, serving, drops, connection, opened, rows>>

(* All the records: what was not shown before appears.                     *)
ReceiveData ==
    /\ Receive("data")
    /\ IF observers = {} THEN UNCHANGED <<synced, serverCache, events>>
       ELSE /\ synced' = TRUE
            /\ serverCache' = Head(down).users
            /\ Raise(Visible(writes, TRUE, serverCache') \ Shown)
    /\ UNCHANGED <<listen, unacked, puts, held, writes, observers>>

(* One record.  A view that waits for its own data may have to ignore it,  *)
(* as it cannot tell the record from a part of one.                        *)
ReceiveAdded ==
    /\ Receive("added")
    /\ \/ /\ observers # {}
          /\ serverCache' = serverCache \cup {Head(down).user}
          /\ Raise(Visible(writes, synced, serverCache') \ Shown)
       \/ /\ ~synced
          /\ UNCHANGED <<serverCache, events>>
    /\ UNCHANGED <<listen, unacked, puts, held, writes, synced, observers>>

(* Fault: puts held back are forgotten. *)
AckHeldNever == UNCHANGED <<held, writes>>

(* The last listen was answered: answers to puts held back meanwhile are   *)
(* handled now.                                                            *)
AckHeld == IF unacked' = 0 THEN held' = {} /\ writes' = writes \ held
                           ELSE UNCHANGED <<held, writes>>

ReceiveGranted ==
    /\ Receive("granted")
    /\ unacked' = unacked - 1
    /\ IF Head(down).list = listen
       THEN synced' = TRUE /\ Raise(Visible(writes, TRUE, serverCache) \ Shown)
       ELSE UNCHANGED <<synced, events>>
    /\ AckHeld
    /\ UNCHANGED <<listen, puts, serverCache, observers>>

(* Answers to a listen that was removed, even if another has taken its     *)
(* place, are only counted.                                                *)
ReceiveDenied ==
    /\ Receive("denied")
    /\ unacked' = unacked - 1
    /\ IF Head(down).list = listen THEN RemoveView
                                   ELSE UNCHANGED <<listen, synced, serverCache, observers>>
    /\ AckHeld
    /\ UNCHANGED <<puts, events>>

ReceiveRevoked == /\ Receive("revoked")
                  /\ RemoveView
                  /\ UNCHANGED <<unacked, puts, held, writes, events>>

(* Fault: the write is acknowledged although a listen is unanswered. *)
ReceivePutAtOnce ==
    /\ Receive("put")
    /\ puts' = puts \ {Head(down).user}
    /\ writes' = writes \ {Head(down).user}
    /\ UNCHANGED <<held, listen, unacked, synced, serverCache, observers, events>>

(* The local write makes way for what the server cache says.               *)
ReceivePut ==
    /\ Receive("put")
    /\ puts' = puts \ {Head(down).user}
    /\ IF unacked = 0 THEN writes' = writes \ {Head(down).user} /\ UNCHANGED held
                      ELSE held' = held \cup {Head(down).user} /\ UNCHANGED writes
    /\ UNCHANGED <<listen, unacked, synced, serverCache, observers, events>>

ReceiveAny == \/ ReceiveData \/ ReceiveAdded \/ ReceiveGranted \/ ReceiveDenied
              \/ ReceiveRevoked \/ ReceivePut
-----------------------------------------------------------------------------
PeopleNext == \/ \E l \in Lists : Observe(l) \/ GrantListen(l) \/ DenyListen(l)
              \/ \E u \in Users : Write(u) \/ AcceptPut(u) \/ RefusePut(u) \/ WriteElsewhere(u)
              \/ \E l \in Lists, u \in Users : AddRow(l, u)
              \/ Connect \/ Authenticated \/ Drop \/ RevokeListen \/ ReceiveAny

(* The client reconnects, the server answers, all queues are drained.      *)
PeopleFairness == /\ WF_peopleVars(Connect) /\ WF_peopleVars(Authenticated) /\ WF_peopleVars(ReceiveAny)
                  /\ \A l \in Lists : WF_peopleVars(GrantListen(l) \/ DenyListen(l))
                  /\ \A u \in Users : WF_peopleVars(AcceptPut(u) \/ RefusePut(u))
                  /\ \A l \in Lists, u \in Users : WF_peopleVars(AddRow(l, u))

PeopleSpec == PeopleInit /\ [][PeopleNext]_peopleVars
PeopleFairSpec == PeopleSpec /\ PeopleFairness
-----------------------------------------------------------------------------
(* Nobody is listed twice, though every childAdded adds a row: whatever is *)
(* lost, sent again or answered late, the client reports a user once.      *)
NobodyTwice == \A l \in Lists, u \in Users : events[l][u] + rows[l][u] <= 1

(* There is a listen behind the observers, and none without them: "listen  *)
(* called twice for the same query" (FPersistentConnection) cannot be.     *)
ListenBehindObservers == listen # NoList <=> observers # {}

(* unackedListensCount is the number of answers to come; it is asserted    *)
(* never to be negative, and puts are held back for ever if it is too big. *)
ListensIn(requests) == UNION {{l} \X (1 .. requests[l]) : l \in Lists}
AnswersIn(messages) == {i \in DOMAIN messages : messages[i].kind \in {"granted", "denied"}}
AnswersAreCounted ==
    unacked = Cardinality(ListensIn(up)) + Cardinality(AnswersIn(down))

(* What the client knows of its listen and of the answers to come is true. *)
ListensAreCounted == PeopleTypeOK /\ ListenBehindObservers /\ AnswersAreCounted

(* Every table that is not cut off comes to list everybody.                *)
ListsCatchUp == \A l \in Lists, u \in Users :
    l \in observers /\ u \in stored ~> rows[l][u] > 0 \/ l \notin observers

(* Every write is called back: a sign-up waits for this.  Only a put that   *)
(* was held back for a listen may wait for another table, if reading was   *)
(* taken away before the listen was answered on this connection.           *)
WritesAreAnswered ==
    \A u \in Users : u \in writes ~> u \notin writes \/ (u \in held /\ listen = NoList)
=============================================================================
