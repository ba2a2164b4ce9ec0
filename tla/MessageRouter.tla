---------------------------- MODULE MessageRouter ----------------------------
(* The message router (util/system/message_router.cc): message hubs register  *)
(* with a callback object, open sessions between their endpoints and send     *)
(* messages over them.  The tables are guarded by mMutex, and every callback  *)
(* into a hub is made after the mutex is released: an operation is one        *)
(* critical section that changes the tables and leaves the callbacks its      *)
(* thread still owes in todo[t], and other threads run in between.  A hub has *)
(* one endpoint here and registers once; a callback object outlives the       *)
(* registration (pw::IntrusivePtr), so an owed callback is made anyway.       *)
EXTENDS Integers, Sequences, FiniteSets, SequencesExt

CONSTANTS Hubs, Threads,
          kMaxMessageHubs, kMaxSessions,
          kReservedSessionId,    \* IDs handed out are below it
          kMaxIterations,        \* of the search for a free ID
          MaxCalls,              \* bound: operations called
          MaxOpens               \* bound: sessions opened

VARIABLES hubs,      \* mMessageHubs, in order of registration
          sessions,  \* mSessions: [id, uid, active]; uid is an index of made
          next,      \* mNextSessionId
          opening,   \* per thread, the openSession between its check and its insertion
          sending,   \* per thread, the sending hub and the ID of the session refused
          todo,      \* per thread, the callbacks owed after the critical section
          heard,     \* history, per hub: the callbacks made
          made,      \* history: every session ever inserted
          left,      \* history: the hubs that unregistered, with the hubs then present
          calls      \* bound: the operations called

vars == <<hubs, sessions, next, opening, sending, todo, heard, made, left, calls>>

None == [from |-> "", to |-> ""]

NoMessage == [hub |-> "", id |-> 0]

Idle(t) == opening[t] = None /\ sending[t] = NoMessage /\ todo[t] = << >>

Quiet == \A t \in Threads : Idle(t)

(* A call starts on an idle thread; registrations are bounded by the hubs.    *)
Call(t) == Idle(t) /\ calls < MaxCalls /\ calls' = calls + 1

Registered == Range(hubs)

Ends(s) == {made[s.uid].from, made[s.uid].to}

RouterTypeOK ==
  /\ hubs \in Seq(Hubs) /\ Len(hubs) <= kMaxMessageHubs
  /\ sessions \in Seq([id : 0..kReservedSessionId - 1, uid : 1..MaxOpens,
                       active : BOOLEAN])
  /\ Len(sessions) <= kMaxSessions
  /\ next \in 0..kReservedSessionId
  /\ opening \in [Threads -> [from : Hubs, to : Hubs] \cup {None}]
  /\ sending \in [Threads -> [hub : Hubs, id : 0..kReservedSessionId - 1] \cup {NoMessage}]
  /\ \A t \in Threads :
       todo[t] \in Seq([hub : Hubs, what : {"new", "gone", "request", "opened", "closed"},
                        uid : 0..MaxOpens])
  /\ Len(made) <= MaxOpens /\ calls \in 0..MaxCalls

Init ==
  /\ hubs = << >> /\ sessions = << >> /\ next = 0
  /\ opening = [t \in Threads |-> None] /\ sending = [t \in Threads |-> NoMessage]
  /\ todo = [t \in Threads |-> << >>]
  /\ heard = [h \in Hubs |-> << >>] /\ made = << >>
  /\ left = {} /\ calls = 0

Tell(h, what, uid) == [hub |-> h, what |-> what, uid |-> uid]

TellAll(hs, what) == [i \in DOMAIN hs |-> Tell(hs[i], what, 0)]

-----------------------------------------------------------------------------
(* registerMessageHub: refused when the table is full or the ID is taken      *)
(* (here: a hub registers once); the hubs already there are told.             *)
RegisterMessageHub(t, h) ==
  /\ Idle(t) /\ UNCHANGED calls
  /\ Len(hubs) < kMaxMessageHubs
  /\ h \notin Registered /\ \A gone \in left : gone.hub # h
  /\ todo' = [todo EXCEPT ![t] = TellAll(hubs, "new")]
  /\ hubs' = Append(hubs, h)
  /\ UNCHANGED <<sessions, next, opening, sending, heard, made, left>>

Others(h) == SelectSeq(hubs, LAMBDA g : g # h)

(* The hubs the loop of unregisterMessageHub collects in hubsToNotify.  It    *)
(* erases the hub from the vector it iterates over: the hub after the erased  *)
(* one moves into its place and is passed over, and the last step of the loop *)
(* reads the moved-from record behind the new end, whose callback is null.    *)
HubsToNotify(h) ==
  LET i == CHOOSE i \in DOMAIN hubs : hubs[i] = h IN
  SubSeq(hubs, 1, i - 1) \o SubSeq(hubs, i + 2, Len(hubs))

SessionsToDestroy(h) == SelectSeq(sessions, LAMBDA s : h \in Ends(s))

(* The sessions of the hub are erased; the other hub, when it is registered,  *)
(* is told with HUB_RESET, then the collected hubs are told.                  *)
UnregisterMessageHub(t, h) ==
  LET gone == SessionsToDestroy(h)
      other(s) == IF made[s.uid].from = h THEN made[s.uid].to ELSE made[s.uid].from
      told == SelectSeq(gone, LAMBDA s : other(s) \in Registered \ {h})
  IN  /\ Call(t)
      /\ h \in Registered
      /\ sessions' = SelectSeq(sessions, LAMBDA s : s \notin Range(gone))
      /\ hubs' = Others(h)
      /\ todo' = [todo EXCEPT ![t] =
           [i \in DOMAIN told |-> Tell(other(told[i]), "closed", told[i].uid)]
             \o TellAll(HubsToNotify(h), "gone")]
      /\ left' = left \cup {[hub |-> h, present |-> Registered \ {h}]}
      /\ UNCHANGED <<next, opening, sending, heard, made>>

-----------------------------------------------------------------------------
(* openSession, first part: both callbacks are looked up and asked for their  *)
(* endpoints, without the mutex held from here to the insertion.              *)
OpenSession(t, from, to) ==
  /\ Call(t)
  /\ {from, to} \subseteq Registered
  /\ opening' = [opening EXCEPT ![t] = [from |-> from, to |-> to]]
  /\ UNCHANGED <<hubs, sessions, next, sending, todo, heard, made, left>>

Used == {sessions[i].id : i \in DOMAIN sessions}

Candidate(k) == ((IF next >= kReservedSessionId THEN 0 ELSE next) + k) % kReservedSessionId

(* getNextSessionIdLocked: the first free ID of the next kMaxIterations, the  *)
(* counter wrapping at the reserved range; kReservedSessionId stands for none.*)
GetNextSessionId ==
  LET free == {k \in 0..kMaxIterations - 1 : Candidate(k) \notin Used}
      k == CHOOSE k \in free : \A j \in free : k <= j
  IN  IF free = {} THEN [id |-> kReservedSessionId, next |-> Candidate(kMaxIterations)]
      ELSE [id |-> Candidate(k), next |-> Candidate(k) + 1]

(* openSession, second part: under the mutex, a session between the same two  *)
(* is found, whoever opened it, or a new one is inserted; the peer is asked.  *)
(* Whether the two hubs are still registered is not looked at again (`stale'  *)
(* records it).                                                               *)
InsertSession(t) ==
  LET from == opening[t].from
      to == opening[t].to
      same == {i \in DOMAIN sessions : Ends(sessions[i]) = {from, to}}
      new == GetNextSessionId
      uid == Len(made) + 1
      done == opening' = [opening EXCEPT ![t] = None]
  IN  /\ opening[t] # None
      /\ \/ /\ Len(sessions) = kMaxSessions
            /\ done /\ UNCHANGED <<sessions, next, todo, made>>
         \/ /\ Len(sessions) < kMaxSessions
            /\ \E i \in same :
                 todo' = [todo EXCEPT ![t] = <<Tell(to, "request", sessions[i].uid)>>]
            /\ done /\ UNCHANGED <<sessions, next, made>>
         \/ /\ Len(sessions) < kMaxSessions /\ same = {}
            /\ new.id = kReservedSessionId
            /\ next' = new.next
            /\ done /\ UNCHANGED <<sessions, todo, made>>
         \/ /\ Len(sessions) < kMaxSessions /\ same = {}
            /\ new.id # kReservedSessionId /\ uid <= MaxOpens
            /\ next' = new.next
            /\ sessions' = Append(sessions, [id |-> new.id, uid |-> uid, active |-> FALSE])
            /\ made' = Append(made, [from |-> from, to |-> to,
                                     stale |-> ~({from, to} \subseteq Registered)])
            /\ todo' = [todo EXCEPT ![t] = <<Tell(to, "request", uid)>>]
            /\ done
      /\ UNCHANGED <<hubs, sending, heard, left, calls>>

Asked(h, s) == Tell(h, "request", s.uid) \in Range(heard[h])

(* The two hubs know a session once one has been asked by the other.          *)
Known(s) == \E h \in Ends(s) : Asked(h, s)

(* The callbacks finalizeSession makes: both hubs, once if they are one hub.  *)
Both(s, what) ==
  LET ends == <<made[s.uid].from, made[s.uid].to>>
      each == IF ends[1] = ends[2] THEN <<ends[1]>> ELSE ends
  IN  [i \in DOMAIN each |-> Tell(each[i], what, s.uid)]

(* finalizeSession without a reason (onSessionOpenComplete).  When one of the *)
(* hubs is gone, the session is erased and nobody is told.                    *)
OnSessionOpenComplete(t, h, i) ==
  LET s == sessions[i]
      present == Ends(s) \subseteq Registered
  IN  /\ Call(t) /\ Asked(h, s) /\ h \in Ends(s) \cap Registered
      /\ sessions' = IF present THEN [sessions EXCEPT ![i].active = TRUE]
                     ELSE RemoveAt(sessions, i)
      /\ todo' = [todo EXCEPT ![t] = IF present THEN Both(s, "opened") ELSE << >>]
      /\ UNCHANGED <<hubs, next, opening, sending, heard, made, left>>

\* Mutant: the session is closed without a word to the peer.
FinalizeCloseOnly(s, what) == SubSeq(Both(s, what), 1, 1)

(* finalizeSession with a reason: erased first, told if both hubs are there.  *)
FinalizeClose(s, what) == IF Ends(s) \subseteq Registered THEN Both(s, what) ELSE << >>

CloseSession(t, h, i) ==
  LET s == sessions[i] IN
  /\ Call(t) /\ Known(s) /\ h \in Ends(s) \cap Registered
  /\ sessions' = RemoveAt(sessions, i)
  /\ todo' = [todo EXCEPT ![t] = FinalizeClose(s, "closed")]
  /\ UNCHANGED <<hubs, next, opening, sending, heard, made, left>>

(* sendMessage: the session is verified under the mutex; the receiver takes   *)
(* the message outside it, or is missing or refuses, and the sender's hub     *)
(* then closes the session.  A message that is taken changes nothing here.    *)
SendMessageRefused(t, h, i) ==
  LET s == sessions[i] IN
  /\ Call(t) /\ s.active /\ h \in Ends(s) \cap Registered
  /\ sending' = [sending EXCEPT ![t] = [hub |-> h, id |-> s.id]]
  /\ UNCHANGED <<hubs, sessions, next, opening, todo, heard, made, left>>

(* The close that follows finds a session of the hub by its ID, which may be  *)
(* another one by now.                                                        *)
CloseRefused(t) ==
  LET mine == {i \in DOMAIN sessions : /\ sessions[i].id = sending[t].id
                                       /\ sending[t].hub \in Ends(sessions[i])} IN
  /\ sending[t] # NoMessage
  /\ sending' = [sending EXCEPT ![t] = NoMessage]
  /\ \/ mine = {} /\ UNCHANGED <<sessions, todo>>
     \/ \E i \in mine :
          /\ sessions' = RemoveAt(sessions, i)
          /\ todo' = [todo EXCEPT ![t] = FinalizeClose(sessions[i], "closed")]
  /\ UNCHANGED <<hubs, next, opening, heard, made, left, calls>>

(* A thread makes the next callback it owes.                                  *)
CallBack(t) ==
  /\ todo[t] # << >>
  /\ heard' = [heard EXCEPT ![Head(todo[t]).hub] = Append(@, Head(todo[t]))]
  /\ todo' = [todo EXCEPT ![t] = Tail(@)]
  /\ UNCHANGED <<hubs, sessions, next, opening, sending, made, left, calls>>

Next ==
  \E t \in Threads :
    \/ \E h \in Hubs : RegisterMessageHub(t, h)
    \/ \E h \in Hubs : UnregisterMessageHub(t, h)
    \/ \E from, to \in Hubs : OpenSession(t, from, to)
    \/ InsertSession(t)
    \/ \E h \in Hubs, i \in DOMAIN sessions : OnSessionOpenComplete(t, h, i)
    \/ \E h \in Hubs, i \in DOMAIN sessions : CloseSession(t, h, i)
    \/ \E h \in Hubs, i \in DOMAIN sessions : SendMessageRefused(t, h, i)
    \/ CloseRefused(t)
    \/ CallBack(t)

Spec == Init /\ [][Next]_vars

-----------------------------------------------------------------------------
HeardCount(h, what, uid) ==
  Cardinality({i \in DOMAIN heard[h] : heard[h][i].what = what /\ heard[h][i].uid = uid})

Live(uid) == \E i \in DOMAIN sessions : sessions[i].uid = uid

(* No two open sessions have the same ID, whatever the order in which IDs     *)
(* wrap around and sessions close (getNextSessionIdLocked).                   *)
SessionIdsUnique ==
  \A i, j \in DOMAIN sessions : sessions[i].id = sessions[j].id => i = j

(* A hub that is still registered when a session of its own has ended - by a  *)
(* close from either side, a refused message or the other hub leaving - is    *)
(* told once, and a hub of an open session never is, unless a hub had left    *)
(* before the session was inserted (finalizeSession, unregisterMessageHub).   *)
SessionEndTold ==
  Quiet => \A uid \in DOMAIN made : \A h \in {made[uid].from, made[uid].to} \cap Registered :
    ~made[uid].stale =>
      HeardCount(h, "closed", uid) = (IF Live(uid) THEN 0 ELSE 1)

(* An open session connects two registered hubs, unless one of them left      *)
(* between openSession's check and its insertion (openSession looks the hubs  *)
(* up and inserts the session in different critical sections).                *)
SessionsConnectHubs ==
  \A i \in DOMAIN sessions :
    ~made[sessions[i].uid].stale => Ends(sessions[i]) \subseteq Registered

(* Does not hold: the session inserted after its hub has left stays in the    *)
(* table until the other side tries to use it.                                *)
EverySessionConnectsHubs ==
  \A i \in DOMAIN sessions : Ends(sessions[i]) \subseteq Registered

(* Does not hold: the callbacks of two critical sections are made by two      *)
(* threads in any order, so a hub can hear that a session opened after it     *)
(* heard that the session closed.                                             *)
NeverOpenedAfterClosed ==
  \A h \in Hubs : \A i, j \in DOMAIN heard[h] :
    heard[h][i].what = "closed" /\ heard[h][j].what = "opened"
      /\ heard[h][i].uid = heard[h][j].uid => j < i

(* When every owed callback is made, a registered hub has been told of every  *)
(* hub that unregistered while it was there (MessageHubCallback: "Callback    *)
(* called when a message hub except this one is unregistered").               *)
HubGoneTold ==
  Quiet => \A h \in Registered :
    Cardinality({i \in DOMAIN heard[h] : heard[h][i].what = "gone"})
      = Cardinality({gone \in left : h \in gone.present})
=============================================================================
