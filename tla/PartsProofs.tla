-------------------------------- MODULE PartsProofs --------------------------------
(***************************************************************************)
(* The control socket, the command loop, the start decision and connecting:  *)
(* each with its inductive invariants and the theorems that follow from      *)
(* them.  The parts share nothing, and neither do their proofs.             *)
(***************************************************************************)
EXTENDS ControlSocket, CommandLoop, StartDecision, Connecting, ListLemmas

-----------------------------------------------------------------------------
(* The control socket.                                                     *)

PeerPlaces == {"away", "queued", "taken", "closed", "refused"}
Replies == [file : Nat, success : BOOLEAN]

CallRecords == [id : Nat, handled : BOOLEAN]

ProcessStates ==
    [at : {"absent", "code", "accept", "read", "gone"}, peer : Peers \cup {"none"},
     lastTrigger : Nat, calls : Seq(CallRecords), frames : Seq(CallRecords), observer : BOOLEAN,
     cached : SUBSET BOOLEAN, session : BOOLEAN, signals : SUBSET {"connect", "break"}]

SocketTyped ==
    /\ now \in Nat
    /\ peers \in [Peers -> [at : PeerPlaces, wrote : Orders \cup {"nothing", "reset"},
                            answers : Seq(Replies)]]
    /\ backlog \in Seq(Peers)
    /\ processes \in [Processes -> ProcessStates]

\* Who waits to be accepted waits once.
QueuedOnce ==
    \A i \in DOMAIN backlog :
       /\ peers[backlog[i]].at = "queued"
       /\ \A j \in DOMAIN backlog : backlog[i] = backlog[j] => i = j

\* A peer that was accepted is held by a process that reads from it, and by one only.
TakenAreHeld ==
    /\ \A q \in Processes : processes[q].at = "read" =>
          /\ processes[q].peer \in Peers /\ peers[processes[q].peer].at = "taken"
          /\ \A r \in Processes :
                processes[r].at = "read" /\ processes[r].peer = processes[q].peer => r = q
    /\ \A p \in Peers : peers[p].at = "taken" =>
          \E q \in Processes : processes[q].at = "read" /\ processes[q].peer = p

Counted ==
    \A p \in Peers :
       Len(peers[p].answers) = IF peers[p].at = "closed" /\ peers[p].wrote # "reset" THEN 1 ELSE 0

\* Calls, and frames, are kept in the order in which the calls were made.
Ordered(t) == \A i, j \in DOMAIN t : i < j => t[i].id < t[j].id

\* What is recorded (f) of the open calls (c) while the observer is on: those that are
\* observed, and of the others only what has, or is, a frame without a handler at or above.
Records(c, f) ==
    /\ \A i \in DOMAIN c : c[i].handled => \E k \in DOMAIN f : f[k] = c[i]
    /\ \A k \in DOMAIN f :
          \/ \E i \in DOMAIN c : c[i] = f[k]
          \/ \E m \in DOMAIN f :
                m >= k /\ ~f[m].handled /\ \A i \in DOMAIN c : c[i] # f[m]

\* In every place of a process, also where it waits; the first call is that of the script.
Fits(s) ==
    /\ s.calls # << >> /\ s.calls[1] = MainCall /\ Ordered(s.calls)
    /\ s.observer => s.frames # << >> /\ s.frames[1] = MainCall /\ Ordered(s.frames)
                     /\ Records(s.calls, s.frames)
    /\ ~s.observer => s.frames = << >>

FilesAreRight ==
    \A p \in Peers : \A k \in DOMAIN peers[p].answers :
       peers[p].wrote = "ps" => peers[p].answers[k].file = MainCall.id

SocketParts ==
    /\ SocketTyped /\ QueuedOnce /\ TakenAreHeld /\ Counted
    /\ (\A q \in Processes : Fits(processes[q])) /\ FilesAreRight

LEMMA MainIs ==
    /\ MainCall \in CallRecords /\ <<MainCall>> \in Seq(CallRecords) /\ << >> \in Seq(CallRecords)
    /\ <<MainCall>> # << >> /\ Ordered(<<MainCall>>) /\ <<MainCall>>[1] = MainCall
    /\ Records(<<MainCall>>, <<MainCall>>)
<1>1. MainCall \in CallRecords
  BY DEF MainCall, CallRecords
<1> HIDE DEF MainCall
<1>2. /\ <<MainCall>> \in Seq(CallRecords) /\ << >> \in Seq(CallRecords) /\ <<MainCall>> # << >>
      /\ <<MainCall>>[1] = MainCall /\ DOMAIN <<MainCall>> = {1}
  BY <1>1
<1> QED
  BY <1>1, <1>2 DEF Ordered, Records

LEMMA FreshIs ==
    /\ Fresh \in ProcessStates /\ Fits(Fresh)
    /\ \A client, observer \in BOOLEAN :
          LET s == [Fresh EXCEPT !.at = "code", !.session = client, !.observer = observer,
                                 !.frames = IF observer THEN <<MainCall>> ELSE << >>]
          IN s \in ProcessStates /\ Fits(s) /\ s.at = "code"
<1> HIDE DEF MainCall
<1>1. Fresh \in ProcessStates
  BY MainIs DEF Fresh, ProcessStates
<1>2. Fits(Fresh)
  BY MainIs DEF Fresh, Fits
<1>3. ASSUME NEW client \in BOOLEAN, NEW observer \in BOOLEAN
      PROVE LET s == [Fresh EXCEPT !.at = "code", !.session = client, !.observer = observer,
                                   !.frames = IF observer THEN <<MainCall>> ELSE << >>]
            IN s \in ProcessStates /\ Fits(s) /\ s.at = "code"
  <2> DEFINE f == IF observer THEN <<MainCall>> ELSE << >>
             s == [Fresh EXCEPT !.at = "code", !.session = client, !.observer = observer,
                                !.frames = f]
  <2>1. /\ s \in ProcessStates /\ s.at = "code" /\ s.calls = <<MainCall>> /\ s.observer = observer
        /\ s.frames = f
    BY MainIs DEF Fresh, ProcessStates
  <2>2. Fits(s)
    BY <2>1, MainIs DEF Fits
  <2> QED
    BY <2>1, <2>2
<1> QED
  BY <1>1, <1>2, <1>3

LEMMA SocketInitHolds == SocketInit => SocketParts
<1> SUFFICES ASSUME SocketInit PROVE SocketParts
  OBVIOUS
<1>1. /\ << >> \in Seq(Peers) /\ << >> \in Seq(Replies) /\ Len(<< >>) = 0 /\ DOMAIN << >> = {}
  OBVIOUS
<1>2. PICK client \in BOOLEAN, onDemand \in BOOLEAN :
         processes = [q \in Processes |->
             IF q = "child" THEN Fresh
             ELSE [Fresh EXCEPT !.at = "code", !.session = client,
                                !.observer = client \/ onDemand,
                                !.frames = IF client \/ onDemand THEN <<MainCall>> ELSE << >>]]
  BY DEF SocketInit
<1> DEFINE s == [Fresh EXCEPT !.at = "code", !.session = client,
                              !.observer = client \/ onDemand,
                              !.frames = IF client \/ onDemand THEN <<MainCall>> ELSE << >>]
<1>3. s \in ProcessStates /\ Fits(s) /\ s.at = "code"
  <2>1. (client \/ onDemand) \in BOOLEAN
    OBVIOUS
  <2> QED
    BY <2>1, FreshIs
<1>4. \A q \in Processes : processes[q] = IF q = "child" THEN Fresh ELSE s
  BY <1>2
<1>5. processes \in [Processes -> ProcessStates]
  BY <1>2, <1>3, FreshIs
<1> HIDE DEF s
<1>6. SocketTyped
  BY <1>1, <1>5 DEF SocketTyped, SocketInit, PeerPlaces
<1>7. Fresh.at = "absent"
  BY DEF Fresh
<1>8. QueuedOnce /\ TakenAreHeld /\ Counted /\ FilesAreRight
  BY <1>1, <1>3, <1>4, <1>7 DEF QueuedOnce, TakenAreHeld, Counted, FilesAreRight, SocketInit
<1>9. \A q \in Processes : Fits(processes[q])
  BY <1>3, <1>4, FreshIs
<1> QED
  BY <1>6, <1>8, <1>9 DEF SocketParts

\* A process that only works on what it has: its place and its peer stay.
LEMMA ProcessWorks ==
    ASSUME SocketParts, NEW q \in Processes, NEW s \in ProcessStates, Fits(s),
           s.at = processes[q].at \/ {s.at, processes[q].at} \subseteq {"absent", "code", "accept", "gone"},
           s.peer = processes[q].peer \/ s.at # "read",
           processes' = [processes EXCEPT ![q] = s], UNCHANGED <<peers, backlog, now>>
    PROVE  SocketParts'
<1> USE DEF SocketParts
<1>1. \A r \in Processes : processes'[r] = IF r = q THEN s ELSE processes[r]
  BY DEF SocketTyped
<1>2. SocketTyped' /\ (\A r \in Processes : Fits(processes[r]))'
  BY <1>1 DEF SocketTyped
<1>3. QueuedOnce' /\ Counted' /\ FilesAreRight'
  BY DEF QueuedOnce, Counted, FilesAreRight
<1>4. \A r \in Processes :
         /\ processes'[r].at = "read" <=> processes[r].at = "read"
         /\ processes[r].at = "read" => processes'[r].peer = processes[r].peer
  BY <1>1
<1>5. TakenAreHeld'
  BY <1>4 DEF TakenAreHeld
<1> QED
  BY <1>2, <1>3, <1>5

LEMMA ParentForks == SocketParts /\ Fork => SocketParts'
<1> SUFFICES ASSUME SocketParts, Fork PROVE SocketParts'
  OBVIOUS
<1>1. /\ "child" \in Processes /\ "parent" \in Processes
      /\ processes["parent"] \in ProcessStates /\ Fits(processes["parent"])
  BY DEF SocketParts, SocketTyped, Processes
<1>2. /\ processes["parent"].at = "code" /\ processes["child"].at = "absent"
      /\ processes' = [processes EXCEPT !["child"] = processes["parent"]]
      /\ UNCHANGED <<peers, backlog, now>>
  BY DEF Fork, Code
<1> QED
  BY <1>1, <1>2, ProcessWorks

\* A call that begins has an identity of its own, behind all others.
LEMMA YoungestIs ==
    ASSUME NEW s \in ProcessStates, Fits(s)
    PROVE  /\ Youngest(s) \in Nat
           /\ \A i \in DOMAIN s.calls : s.calls[i].id < Youngest(s) + 1
           /\ \A k \in DOMAIN s.frames : s.frames[k].id < Youngest(s) + 1
<1> DEFINE c == s.calls
           f == s.frames
<1>1. /\ c \in Seq(CallRecords) /\ f \in Seq(CallRecords) /\ c # << >> /\ Ordered(c)
      /\ f # << >> => Ordered(f)
  BY DEF ProcessStates, Fits
<1>2. /\ Youngest(s) = IF f # << >> /\ Last(f).id > Last(c).id THEN Last(f).id ELSE Last(c).id
  BY DEF Youngest
<1> HIDE DEF c, f
<1>3. ASSUME NEW t \in Seq(CallRecords), t # << >>, Ordered(t)
      PROVE  Last(t).id \in Nat /\ \A i \in DOMAIN t : t[i].id \in Nat /\ t[i].id <= Last(t).id
  <2>1. /\ Len(t) \in Nat /\ Len(t) >= 1 /\ DOMAIN t = 1..Len(t) /\ Last(t) = t[Len(t)]
        /\ \A i \in 1..Len(t) : t[i] \in CallRecords
    BY <1>3, PopIs, ElementOfSeq
  <2>2. \A i \in 1..Len(t) : t[i].id \in Nat
    BY <2>1 DEF CallRecords
  <2> QED
    BY <1>3, <2>1, <2>2 DEF Ordered
<1>4. Last(c).id \in Nat /\ \A i \in DOMAIN c : c[i].id \in Nat /\ c[i].id <= Last(c).id
  BY <1>1, <1>3
<1>5. CASE f # << >>
  <2>1. Last(f).id \in Nat /\ \A i \in DOMAIN f : f[i].id \in Nat /\ f[i].id <= Last(f).id
    BY <1>1, <1>3, <1>5
  <2> QED
    BY <1>2, <1>4, <2>1 DEF c, f
<1>6. CASE f = << >>
  <2>1. DOMAIN f = {}
    BY <1>6
  <2> QED
    BY <1>2, <1>4, <1>6, <2>1 DEF c, f
<1> QED
  BY <1>5, <1>6

\* What the begin handler records of a call, or leaves unrecorded.
LEMMA CallRecorded ==
    ASSUME NEW c \in Seq(CallRecords), NEW f \in Seq(CallRecords), NEW x \in CallRecords,
           Ordered(c), Ordered(f), Records(c, f),
           \A i \in DOMAIN c : c[i].id < x.id, \A k \in DOMAIN f : f[k].id < x.id
    PROVE  /\ Ordered(Append(c, x)) /\ Ordered(Append(f, x))
           /\ Records(Append(c, x), Append(f, x))
           /\ ~x.handled => Records(Append(c, x), f)
<1> DEFINE d == Append(c, x)
           g == Append(f, x)
<1>1. /\ Len(c) \in Nat /\ DOMAIN c = 1..Len(c) /\ DOMAIN d = 1..(Len(c) + 1)
      /\ \A i \in 1..Len(c) : d[i] = c[i]
      /\ d[Len(c) + 1] = x
  BY PushIs
<1>2. /\ Len(f) \in Nat /\ DOMAIN f = 1..Len(f) /\ DOMAIN g = 1..(Len(f) + 1)
      /\ \A i \in 1..Len(f) : g[i] = f[i]
      /\ g[Len(f) + 1] = x
  BY PushIs
<1> HIDE DEF d, g
<1>3. Ordered(d)
  BY <1>1 DEF Ordered
<1>4. Ordered(g)
  BY <1>2 DEF Ordered
<1>5. \A k \in DOMAIN f : x # f[k]
  <2>1. x.id \in Nat
    BY DEF CallRecords
  <2> QED
    BY <2>1
<1>6. \A k \in DOMAIN f :
         \/ \E i \in DOMAIN d : d[i] = f[k]
         \/ \E m \in DOMAIN f : m >= k /\ ~f[m].handled /\ \A i \in DOMAIN d : d[i] # f[m]
  <2> SUFFICES ASSUME NEW k \in DOMAIN f, \A i \in DOMAIN c : c[i] # f[k]
               PROVE  \E m \in DOMAIN f : m >= k /\ ~f[m].handled /\ \A i \in DOMAIN d : d[i] # f[m]
    BY <1>1
  <2>1. PICK m \in DOMAIN f : m >= k /\ ~f[m].handled /\ \A i \in DOMAIN c : c[i] # f[m]
    BY DEF Records
  <2>2. \A i \in DOMAIN d : (i \in DOMAIN c /\ d[i] = c[i]) \/ d[i] = x
    BY <1>1
  <2> QED
    BY <1>5, <2>1, <2>2
<1>7. \A i \in DOMAIN c : c[i].handled => \E k \in DOMAIN f : f[k] = c[i]
  BY DEF Records
<1>8. ~x.handled => Records(d, f)
  <2> SUFFICES ASSUME ~x.handled PROVE \A i \in DOMAIN d : d[i].handled => \E k \in DOMAIN f : f[k] = d[i]
    BY <1>6 DEF Records
  <2>1. \A i \in DOMAIN d : (i \in DOMAIN c /\ d[i] = c[i]) \/ d[i] = x
    BY <1>1
  <2> QED
    BY <1>7, <2>1
<1>9. Records(d, g)
  <2>1. \A i \in DOMAIN d : d[i].handled => \E k \in DOMAIN g : g[k] = d[i]
    <3>1. \A i \in DOMAIN d : (i \in DOMAIN c /\ d[i] = c[i]) \/ d[i] = x
      BY <1>1
    <3>2. Len(f) + 1 \in DOMAIN g /\ \A k \in DOMAIN f : k \in DOMAIN g /\ g[k] = f[k]
      BY <1>2
    <3> QED
      BY <1>2, <1>7, <3>1, <3>2
  <2>2. ASSUME NEW k \in DOMAIN g
        PROVE  \/ \E i \in DOMAIN d : d[i] = g[k]
               \/ \E m \in DOMAIN g : m >= k /\ ~g[m].handled /\ \A i \in DOMAIN d : d[i] # g[m]
    <3>1. CASE k = Len(f) + 1
      <4>1. Len(c) + 1 \in DOMAIN d /\ d[Len(c) + 1] = g[k]
        BY <1>1, <1>2, <3>1
      <4> QED
        BY <4>1
    <3>2. CASE k \in DOMAIN f
      <4>1. \A m \in DOMAIN f : m \in DOMAIN g /\ g[m] = f[m]
        BY <1>2
      <4> QED
        BY <1>6, <3>2, <4>1
    <3> QED
      BY <1>2, <3>1, <3>2
  <2> QED
    BY <2>1, <2>2 DEF Records
<1> QED
  BY <1>3, <1>4, <1>8, <1>9 DEF d, g

\* What is recorded when the youngest call returns: its frame is popped if it is observed and
\* uncovered; if it is observed and covered, what covers it was left by another.
LEMMA ReturnRecorded ==
    ASSUME NEW c \in Seq(CallRecords), NEW f \in Seq(CallRecords), c # << >>, f # << >>,
           Ordered(c), Ordered(f), Records(c, f)
    PROVE  /\ Ordered(Front(c)) /\ Ordered(Front(f))
           /\ Last(c).handled /\ Last(f) = Last(c) => Records(Front(c), Front(f))
           /\ ~(Last(c).handled /\ Last(f) = Last(c)) => Records(Front(c), f)
<1> DEFINE d == Front(c)
           g == Front(f)
           x == Last(c)
           n == Len(f)
<1>1. /\ Len(c) \in Nat /\ Len(c) >= 1 /\ DOMAIN c = 1..Len(c) /\ DOMAIN d = 1..(Len(c) - 1)
      /\ \A i \in 1..(Len(c) - 1) : d[i] = c[i]
      /\ x = c[Len(c)] /\ x \in CallRecords
  BY PopIs
<1>2. /\ n \in Nat /\ n >= 1 /\ DOMAIN f = 1..n /\ DOMAIN g = 1..(n - 1)
      /\ \A i \in 1..(n - 1) : g[i] = f[i]
      /\ Last(f) = f[n]
  BY PopIs
<1>i. (\A i \in DOMAIN c : c[i].id \in Nat) /\ (\A k \in DOMAIN f : f[k].id \in Nat)
  <2>1. (\A i \in DOMAIN c : c[i] \in CallRecords) /\ (\A k \in DOMAIN f : f[k] \in CallRecords)
    OBVIOUS
  <2>2. \A r \in CallRecords : r.id \in Nat
    BY DEF CallRecords
  <2> QED
    BY <2>1, <2>2
<1> HIDE DEF d, g, x, n
<1>3. Ordered(d) /\ Ordered(g)
  <2>1. \A i \in DOMAIN d : i \in DOMAIN c /\ d[i] = c[i]
    BY <1>1
  <2>2. \A i \in DOMAIN g : i \in DOMAIN f /\ g[i] = f[i]
    BY <1>2
  <2> QED
    BY <2>1, <2>2 DEF Ordered
<1>4. \A i \in DOMAIN d : i \in DOMAIN c /\ d[i] = c[i] /\ d[i] # x
  <2>1. \A i \in DOMAIN d : i \in DOMAIN c /\ d[i] = c[i] /\ Len(c) \in DOMAIN c /\ i < Len(c)
    BY <1>1
  <2>2. \A i \in DOMAIN d : c[i].id < x.id
    BY <1>1, <2>1 DEF Ordered
  <2>3. x.id \in Nat
    BY <1>1 DEF CallRecords
  <2> QED
    BY <2>1, <2>2, <2>3, <1>i
<1>5. \A k \in DOMAIN f : f[k] # x => \A i \in DOMAIN c : c[i] = f[k] => i \in DOMAIN d /\ d[i] = f[k]
  BY <1>1
<1>6. \A m \in DOMAIN f : (\A i \in DOMAIN c : c[i] # f[m]) => \A i \in DOMAIN d : d[i] # f[m]
  BY <1>4
<1>7. \A i \in DOMAIN d : d[i].handled => \E k \in DOMAIN f : f[k] = d[i] /\ f[k] # x
  BY <1>4 DEF Records
<1>8. ASSUME NEW k \in DOMAIN f, f[k] # x
      PROVE  \/ \E i \in DOMAIN d : d[i] = f[k]
             \/ \E m \in DOMAIN f : m >= k /\ ~f[m].handled /\ (\A i \in DOMAIN c : c[i] # f[m])
                                   /\ \A i \in DOMAIN d : d[i] # f[m]
  BY <1>5, <1>6, <1>8 DEF Records
<1>9. ASSUME x.handled, f[n] = x PROVE Records(d, g)
  <2>1. \A k \in DOMAIN f : f[k] # x => k \in DOMAIN g /\ g[k] = f[k]
    BY <1>2, <1>9
  <2>2. \A k \in DOMAIN g : k \in DOMAIN f /\ g[k] = f[k] /\ f[k] # x
    <3>1. \A k \in DOMAIN g : k \in DOMAIN f /\ g[k] = f[k] /\ n \in DOMAIN f /\ k < n
      BY <1>2
    <3>2. \A k \in DOMAIN g : f[k].id < f[n].id
      BY <3>1 DEF Ordered
    <3> QED
      BY <1>9, <1>i, <3>1, <3>2
  <2>3. \A i \in DOMAIN d : d[i].handled => \E k \in DOMAIN g : g[k] = d[i]
    BY <1>7, <2>1
  <2>4. \E i \in DOMAIN c : c[i] = x
    <3>1. Len(c) \in DOMAIN c
      BY <1>1
    <3> QED
      BY <1>1, <3>1
  <2>5. ASSUME NEW k \in DOMAIN g
        PROVE  \/ \E i \in DOMAIN d : d[i] = g[k]
               \/ \E m \in DOMAIN g : m >= k /\ ~g[m].handled /\ \A i \in DOMAIN d : d[i] # g[m]
    <3>1. CASE \E i \in DOMAIN d : d[i] = f[k]
      BY <2>2, <3>1
    <3>2. CASE \E m \in DOMAIN f : m >= k /\ ~f[m].handled /\ (\A i \in DOMAIN c : c[i] # f[m])
                                  /\ \A i \in DOMAIN d : d[i] # f[m]
      <4>1. PICK m \in DOMAIN f : m >= k /\ ~f[m].handled /\ (\A i \in DOMAIN c : c[i] # f[m])
                                  /\ \A i \in DOMAIN d : d[i] # f[m]
        BY <3>2
      <4>2. m \in DOMAIN g /\ g[m] = f[m]
        BY <2>1, <2>4, <4>1
      <4> QED
        BY <4>1, <4>2
    <3> QED
      BY <1>8, <2>2, <3>1, <3>2
  <2> QED
    BY <2>3, <2>5 DEF Records
<1>10. ASSUME ~(x.handled /\ f[n] = x) PROVE Records(d, f)
  <2>1. \A i \in DOMAIN d : d[i].handled => \E k \in DOMAIN f : f[k] = d[i]
    BY <1>7
  <2>2. ASSUME NEW k \in DOMAIN f, f[k] = x
        PROVE  \E m \in DOMAIN f : m >= k /\ ~f[m].handled /\ \A i \in DOMAIN d : d[i] # f[m]
    <3>1. CASE ~x.handled
      BY <1>1, <1>2, <1>4, <2>2, <3>1
    <3>2. CASE x.handled
      <4>1. n \in DOMAIN f /\ f[n] # x /\ k < n
        BY <1>2, <1>10, <2>2, <3>2
      <4>2. f[k].id < f[n].id
        BY <4>1 DEF Ordered
      <4>3. \A i \in DOMAIN c : c[i].id <= x.id
        BY <1>1, <1>i DEF Ordered
      <4>4. \A i \in DOMAIN c : c[i] # f[n]
        BY <1>i, <2>2, <4>1, <4>2, <4>3
      <4>5. PICK m \in DOMAIN f : m >= n /\ ~f[m].handled /\ \A i \in DOMAIN c : c[i] # f[m]
        BY <4>1, <4>4 DEF Records
      <4> QED
        BY <1>2, <1>6, <4>1, <4>5
    <3> QED
      BY <3>1, <3>2
  <2>3. \A k \in DOMAIN f :
           \/ \E i \in DOMAIN d : d[i] = f[k]
           \/ \E m \in DOMAIN f : m >= k /\ ~f[m].handled /\ \A i \in DOMAIN d : d[i] # f[m]
    BY <1>8, <2>2
  <2> QED
    BY <2>1, <2>3 DEF Records
<1> QED
  BY <1>2, <1>3, <1>9, <1>10 DEF d, g, x, n

LEMMA FunctionCalled ==
    ASSUME SocketParts, NEW q \in Processes, CallFunction(q)
    PROVE  SocketParts'
<1> DEFINE s == processes[q]
<1>1. s \in ProcessStates /\ Fits(s)
  BY DEF SocketParts, SocketTyped
<1>2. PICK h \in s.cached \cup {s.observer} :
         processes' = [processes EXCEPT
            ![q].cached = @ \cup {h},
            ![q].calls = Append(@, [id |-> Youngest(s) + 1, handled |-> h]),
            ![q].frames = IF h /\ s.observer THEN Append(@, [id |-> Youngest(s) + 1, handled |-> h])
                                              ELSE @]
  BY DEF CallFunction
<1> DEFINE x == [id |-> Youngest(s) + 1, handled |-> h]
           f == IF h /\ s.observer THEN Append(s.frames, x) ELSE s.frames
           t == [s EXCEPT !.cached = @ \cup {h}, !.calls = Append(@, x), !.frames = f]
<1>3. h \in BOOLEAN /\ Youngest(s) \in Nat
  BY <1>1, <1>2, YoungestIs DEF ProcessStates
<1>4. /\ x \in CallRecords /\ x.handled = h
      /\ \A i \in DOMAIN s.calls : s.calls[i].id < x.id
      /\ \A k \in DOMAIN s.frames : s.frames[k].id < x.id
  <2>1. x \in CallRecords /\ x.handled = h /\ x.id = Youngest(s) + 1
    BY <1>3 DEF CallRecords
  <2> QED
    BY <1>1, <2>1, YoungestIs
<1>5. s.calls \in Seq(CallRecords) /\ s.frames \in Seq(CallRecords) /\ s.calls # << >> /\ s.calls[1] = MainCall
  BY <1>1 DEF ProcessStates, Fits
<1>6. processes' = [processes EXCEPT ![q] = t] /\ UNCHANGED <<peers, backlog, now>>
  BY <1>1, <1>2 DEF CallFunction, SocketParts, SocketTyped
<1> HIDE DEF x
<1>7. /\ Append(s.calls, x) \in Seq(CallRecords) /\ Append(s.frames, x) \in Seq(CallRecords)
      /\ Append(s.calls, x) # << >> /\ Append(s.calls, x)[1] = MainCall
      /\ Append(s.frames, x) # << >>
      /\ s.frames # << >> => Append(s.frames, x)[1] = s.frames[1]
  <2> HIDE DEF s
  <2>1. Len(s.calls) \in Nat /\ Len(s.calls) >= 1 /\ (s.frames # << >> => Len(s.frames) >= 1)
    BY <1>5, LenProperties, EmptySeq
  <2>2. /\ Append(s.calls, x) \in Seq(CallRecords) /\ Len(Append(s.calls, x)) = Len(s.calls) + 1
        /\ \A i \in 1..Len(s.calls) : Append(s.calls, x)[i] = s.calls[i]
    BY <1>4, <1>5, PushIs
  <2>3. /\ Append(s.frames, x) \in Seq(CallRecords) /\ Len(Append(s.frames, x)) = Len(s.frames) + 1
        /\ \A i \in 1..Len(s.frames) : Append(s.frames, x)[i] = s.frames[i]
        /\ Len(s.frames) \in Nat
    BY <1>4, <1>5, PushIs
  <2>4. Append(s.calls, x) # << >> /\ Append(s.frames, x) # << >>
    <3>1. ASSUME NEW u \in Seq(CallRecords) PROVE Append(u, x) # << >>
      BY <1>4, PushIs
    <3> QED
      BY <1>5, <3>1
  <2>5. Append(s.calls, x)[1] = MainCall
    BY <1>5, <2>1, <2>2
  <2>6. s.frames # << >> => Append(s.frames, x)[1] = s.frames[1]
    BY <2>1, <2>3
  <2> QED
    BY <2>2, <2>3, <2>4, <2>5, <2>6
<1>8. /\ t \in ProcessStates /\ t.at = s.at /\ t.peer = s.peer /\ t.calls = Append(s.calls, x)
      /\ t.frames = f /\ t.observer = s.observer
  BY <1>1, <1>3, <1>7 DEF ProcessStates
<1>9. Fits(t)
  <2>1. Ordered(s.calls) /\ (s.observer => Ordered(s.frames) /\ Records(s.calls, s.frames))
    BY <1>1 DEF Fits
  <2>2. CASE s.observer
    <3>1. /\ Ordered(Append(s.calls, x)) /\ Ordered(Append(s.frames, x))
          /\ Records(Append(s.calls, x), Append(s.frames, x))
          /\ ~h => Records(Append(s.calls, x), s.frames)
      BY <1>4, <1>5, <2>1, <2>2, CallRecorded
    <3>2. s.frames # << >> /\ s.frames[1] = MainCall /\ Ordered(s.frames)
      BY <1>1, <2>2 DEF Fits
    <3>3. CASE h
      <4>1. f = Append(s.frames, x)
        BY <2>2, <3>3
      <4> HIDE DEF t, f
      <4> QED
        BY <1>7, <1>8, <2>2, <3>1, <3>2, <4>1 DEF Fits
    <3>4. CASE ~h
      <4>1. f = s.frames
        BY <3>4
      <4> HIDE DEF t, f
      <4> QED
        BY <1>7, <1>8, <2>2, <3>1, <3>2, <3>4, <4>1 DEF Fits
    <3> QED
      BY <3>3, <3>4
  <2>3. CASE ~s.observer
    <3>1. f = << >> /\ s.frames = << >>
      BY <1>1, <2>3 DEF Fits
    <3>2. Ordered(Append(s.calls, x))
      <4>1. << >> \in Seq(CallRecords) /\ Ordered(<< >>) /\ \A k \in DOMAIN << >> : << >>[k].id < x.id
        BY DEF Ordered
      <4> DEFINE c == s.calls
                 d == Append(c, x)
      <4>2. /\ Len(c) \in Nat /\ DOMAIN c = 1..Len(c) /\ DOMAIN d = 1..(Len(c) + 1)
            /\ \A i \in 1..Len(c) : d[i] = c[i]
            /\ d[Len(c) + 1] = x
        BY <1>4, <1>5, PushIs
      <4> HIDE DEF d, s
      <4> QED
        BY <1>4, <2>1, <4>2 DEF Ordered, d
    <3> HIDE DEF t, f
    <3> QED
      BY <1>7, <1>8, <2>3, <3>1, <3>2 DEF Fits
  <2> QED
    BY <2>2, <2>3
<1> HIDE DEF t
<1> QED
  BY <1>6, <1>8, <1>9, ProcessWorks

LEMMA FunctionReturns ==
    ASSUME SocketParts, NEW q \in Processes, ReturnFunction(q)
    PROVE  SocketParts'
<1> DEFINE s == processes[q]
           x == Last(s.calls)
           pops == x.handled /\ s.observer /\ s.frames # << >> /\ Last(s.frames) = x
           f == IF pops THEN Front(s.frames) ELSE s.frames
           t == [s EXCEPT !.calls = Front(@), !.frames = f]
<1>1. s \in ProcessStates /\ Fits(s) /\ Len(s.calls) > 1
  BY DEF SocketParts, SocketTyped, ReturnFunction
<1>2. /\ s.calls \in Seq(CallRecords) /\ s.frames \in Seq(CallRecords) /\ s.calls # << >>
      /\ s.calls[1] = MainCall /\ Ordered(s.calls)
  BY <1>1 DEF ProcessStates, Fits
<1>3. processes' = [processes EXCEPT ![q] = t] /\ UNCHANGED <<peers, backlog, now>>
  BY <1>1 DEF ReturnFunction, SocketParts, SocketTyped
<1>4. /\ Front(s.calls) \in Seq(CallRecords) /\ Front(s.calls) # << >> /\ Front(s.calls)[1] = MainCall
      /\ Last(s.calls) # MainCall
      /\ s.frames # << >> => Front(s.frames) \in Seq(CallRecords)
  <2> HIDE DEF s
  <2>1. s.frames # << >> => Front(s.frames) \in Seq(CallRecords)
    BY <1>2, PopIs
  <2>2. /\ Front(s.calls) \in Seq(CallRecords) /\ Len(Front(s.calls)) = Len(s.calls) - 1
        /\ Len(s.calls) \in Nat /\ \A i \in 1..(Len(s.calls) - 1) : Front(s.calls)[i] = s.calls[i]
        /\ DOMAIN s.calls = 1..Len(s.calls) /\ Last(s.calls) = s.calls[Len(s.calls)]
        /\ Last(s.calls) \in CallRecords
    BY <1>2, PopIs
  <2>3. s.calls[1].id < Last(s.calls).id
    BY <1>1, <1>2, <2>2 DEF Ordered
  <2>4. Last(s.calls) # MainCall
    <3>1. \A r \in CallRecords : r.id \in Nat
      BY DEF CallRecords
    <3> QED
      BY <1>2, <2>2, <2>3, <3>1
  <2>5. Front(s.calls) # << >> /\ Front(s.calls)[1] = MainCall
    <3>1. Len(s.calls) - 1 > 0
      BY <1>1, <2>2
    <3> QED
      BY <1>2, <2>2, <3>1, EmptySeq
  <2> QED
    BY <2>1, <2>2, <2>4, <2>5
<1>5. /\ t \in ProcessStates /\ t.at = s.at /\ t.peer = s.peer /\ t.calls = Front(s.calls)
      /\ t.frames = f /\ t.observer = s.observer
  BY <1>1, <1>4 DEF ProcessStates
<1>6. Fits(t)
  <2>1. CASE ~s.observer
    <3>1. f = << >> /\ s.frames = << >>
      BY <1>1, <2>1 DEF Fits
    <3>2. Ordered(Front(s.calls))
      <4> HIDE DEF s
      <4>1. /\ Len(s.calls) \in Nat /\ DOMAIN s.calls = 1..Len(s.calls)
            /\ DOMAIN Front(s.calls) = 1..(Len(s.calls) - 1)
            /\ \A i \in 1..(Len(s.calls) - 1) : Front(s.calls)[i] = s.calls[i]
        BY <1>2, PopIs
      <4> QED
        BY <1>2, <4>1 DEF Ordered
    <3> HIDE DEF t, f
    <3> QED
      BY <1>4, <1>5, <2>1, <3>1, <3>2 DEF Fits
  <2>2. CASE s.observer
    <3>1. s.frames # << >> /\ s.frames[1] = MainCall /\ Ordered(s.frames) /\ Records(s.calls, s.frames)
      BY <1>1, <2>2 DEF Fits
    <3>2. /\ Ordered(Front(s.calls)) /\ Ordered(Front(s.frames))
          /\ x.handled /\ Last(s.frames) = x => Records(Front(s.calls), Front(s.frames))
          /\ ~(x.handled /\ Last(s.frames) = x) => Records(Front(s.calls), s.frames)
      BY <1>2, <3>1, ReturnRecorded
    <3>3. CASE pops
      <4>1. f = Front(s.frames) /\ Last(s.frames) # MainCall
        BY <1>4, <3>3
      <4>2. Front(s.frames) # << >> /\ Front(s.frames)[1] = MainCall
        <5> HIDE DEF s
        <5>1. /\ Len(s.frames) \in Nat /\ Len(s.frames) >= 1 /\ Last(s.frames) = s.frames[Len(s.frames)]
              /\ Front(s.frames) \in Seq(CallRecords) /\ Len(Front(s.frames)) = Len(s.frames) - 1
              /\ \A i \in 1..(Len(s.frames) - 1) : Front(s.frames)[i] = s.frames[i]
          BY <1>2, <3>1, PopIs
        <5> QED
          BY <3>1, <4>1, <5>1, EmptySeq
      <4> HIDE DEF t, f
      <4> QED
        BY <1>4, <1>5, <2>2, <3>2, <3>3, <4>1, <4>2 DEF Fits
    <3>4. CASE ~pops
      <4>1. f = s.frames /\ ~(x.handled /\ Last(s.frames) = x)
        BY <2>2, <3>1, <3>4
      <4> HIDE DEF t, f
      <4> QED
        BY <1>4, <1>5, <2>2, <3>1, <3>2, <4>1 DEF Fits
    <3> QED
      BY <3>3, <3>4
  <2> QED
    BY <2>1, <2>2
<1> HIDE DEF t
<1> QED
  BY <1>3, <1>5, <1>6, ProcessWorks

LEMMA SocketLookedAt ==
    ASSUME SocketParts, NEW q \in Processes, Dispatch(q)
    PROVE  SocketParts'
<1> DEFINE s == processes[q]
           t == [s EXCEPT !.lastTrigger = now, !.at = IF backlog = << >> THEN "code" ELSE "accept"]
<1>1. s \in ProcessStates /\ Fits(s) /\ now \in Nat /\ s.at = "code"
  BY DEF SocketParts, SocketTyped, Dispatch, Code
<1>2. /\ t \in ProcessStates /\ t.at \in {"code", "accept"} /\ t.peer = s.peer
      /\ t.calls = s.calls /\ t.frames = s.frames /\ t.observer = s.observer
  BY <1>1 DEF ProcessStates
<1>3. processes' = [processes EXCEPT ![q] = t] /\ UNCHANGED <<peers, backlog, now>>
  BY <1>1 DEF Dispatch, SocketParts, SocketTyped
<1> HIDE DEF t
<1>4. Fits(t)
  BY <1>1, <1>2 DEF Fits
<1> QED
  BY <1>1, <1>2, <1>3, <1>4, ProcessWorks

LEMMA ScriptIsOver ==
    ASSUME SocketParts, NEW q \in Processes, Teardown(q)
    PROVE  SocketParts'
<1> DEFINE t == [Fresh EXCEPT !.at = "gone"]
<1> USE DEF SocketParts
<1>1. /\ t \in ProcessStates /\ t.at = "gone" /\ Fits(t)
      /\ processes[q].at = "code" /\ processes' = [processes EXCEPT ![q] = t] /\ now' = now
  <2>1. /\ t \in ProcessStates /\ t.at = "gone" /\ t.calls = Fresh.calls
        /\ t.frames = Fresh.frames /\ t.observer = Fresh.observer
    <3>1. Fresh \in ProcessStates
      BY FreshIs
    <3> HIDE DEF Fresh
    <3> QED
      BY <3>1 DEF ProcessStates
  <2>2. Fits(t)
    BY <2>1, FreshIs DEF Fits
  <2> QED
    BY <2>1, <2>2 DEF Teardown, Code, SocketTyped
<1> HIDE DEF t
<1>2. CASE UNCHANGED <<backlog, peers>>
  <2>1. {t.at, processes[q].at} \subseteq {"absent", "code", "accept", "gone"} /\ t.at # "read"
    BY <1>1
  <2> QED
    BY <1>1, <1>2, <2>1, ProcessWorks
<1>3. CASE /\ backlog' = << >>
           /\ peers' = [p \in Peers |->
                 IF p \in ToSet(backlog) THEN [peers[p] EXCEPT !.at = "refused"] ELSE peers[p]]
  <2>1. \A r \in Processes : processes'[r] = IF r = q THEN t ELSE processes[r]
    BY <1>1 DEF SocketTyped
  <2>2. \A p \in Peers : peers[p].at = "queued" \/ p \notin ToSet(backlog)
    BY DEF QueuedOnce, ToSet
  <2>3. ASSUME NEW p \in Peers
        PROVE  /\ peers'[p] \in [at : PeerPlaces, wrote : Orders \cup {"nothing", "reset"},
                                 answers : Seq(Replies)]
               /\ peers'[p].wrote = peers[p].wrote /\ peers'[p].answers = peers[p].answers
               /\ peers'[p].at = "taken" <=> peers[p].at = "taken"
               /\ peers'[p].at = "closed" <=> peers[p].at = "closed"
    <3>1. peers[p] \in [at : PeerPlaces, wrote : Orders \cup {"nothing", "reset"},
                        answers : Seq(Replies)]
      BY DEF SocketTyped
    <3>2. peers'[p] = IF p \in ToSet(backlog) THEN [peers[p] EXCEPT !.at = "refused"] ELSE peers[p]
      BY <1>3
    <3>3. CASE p \in ToSet(backlog)
      BY <2>2, <3>1, <3>2, <3>3 DEF PeerPlaces
    <3>4. CASE p \notin ToSet(backlog)
      BY <3>1, <3>2, <3>4
    <3> QED
      BY <3>3, <3>4
  <2>4. SocketTyped' /\ (\A r \in Processes : Fits(processes[r]))'
    <3>1. backlog' \in Seq(Peers)
      BY <1>3
    <3>2. peers' \in [Peers -> [at : PeerPlaces, wrote : Orders \cup {"nothing", "reset"},
                                answers : Seq(Replies)]]
      BY <1>3, <2>3
    <3> QED
      BY <1>1, <2>1, <3>1, <3>2 DEF SocketTyped
  <2>5. QueuedOnce' /\ Counted' /\ FilesAreRight'
    BY <1>3, <2>3 DEF QueuedOnce, Counted, FilesAreRight
  <2>6. TakenAreHeld'
    BY <1>1, <2>1, <2>3 DEF TakenAreHeld
  <2> QED
    BY <2>4, <2>5, <2>6
<1> QED
  BY <1>2, <1>3 DEF Teardown

LEMMA PeerQueues ==
    ASSUME SocketParts, NEW p \in Peers, PeerConnects(p)
    PROVE  SocketParts'
<1> USE DEF SocketParts
<1>1. peers[p] \in [at : PeerPlaces, wrote : Orders \cup {"nothing", "reset"},
                    answers : Seq(Replies)]
  BY DEF SocketTyped
<1>2. \A r \in Peers : peers'[r] = IF r = p THEN [peers[p] EXCEPT !.at = "queued"] ELSE peers[r]
  BY DEF PeerConnects, SocketTyped
<1>3. /\ peers'[p].at = "queued" /\ peers[p].at = "away"
      /\ peers'[p].wrote = peers[p].wrote /\ peers'[p].answers = peers[p].answers
  BY <1>1, <1>2 DEF PeerConnects
<1>4. /\ Append(backlog, p) \in Seq(Peers)
      /\ DOMAIN backlog = 1..Len(backlog) /\ DOMAIN Append(backlog, p) = 1..(Len(backlog) + 1)
      /\ Len(backlog) \in Nat
      /\ \A i \in 1..Len(backlog) : Append(backlog, p)[i] = backlog[i] /\ backlog[i] \in Peers
      /\ Append(backlog, p)[Len(backlog) + 1] = p
  BY PushIs, ElementOfSeq DEF SocketTyped
<1>5. SocketTyped' /\ (\A r \in Processes : Fits(processes[r]))'
  <2>1. peers'[p] \in [at : PeerPlaces, wrote : Orders \cup {"nothing", "reset"},
                       answers : Seq(Replies)]
    BY <1>1, <1>2 DEF PeerPlaces
  <2> QED
    BY <1>2, <1>4, <2>1 DEF SocketTyped, PeerConnects
<1>6. QueuedOnce'
  <2> DEFINE b == Append(backlog, p)
             n == Len(backlog)
  <2>1. backlog' = b
    BY DEF PeerConnects
  <2>2. /\ DOMAIN b = 1..(n + 1) /\ n \in Nat /\ b[n + 1] = p /\ DOMAIN backlog = 1..n
        /\ \A i \in 1..n : b[i] = backlog[i] /\ b[i] \in Peers
    BY <1>4
  <2>3. \A i \in 1..n : backlog[i] # p
    BY <1>3, <2>2 DEF QueuedOnce
  <2> HIDE DEF b, n
  <2>4. \A i \in 1..(n + 1) : i \in 1..n \/ i = n + 1
    BY <2>2
  <2>5. \A i \in 1..(n + 1) : peers'[b[i]].at = "queued"
    BY <1>2, <1>3, <2>2, <2>4 DEF QueuedOnce
  <2>6. \A i, j \in 1..(n + 1) : b[i] = b[j] => i = j
    BY <2>2, <2>3, <2>4 DEF QueuedOnce
  <2> QED
    BY <2>1, <2>2, <2>5, <2>6 DEF QueuedOnce
<1>7. Counted' /\ FilesAreRight'
  BY <1>2, <1>3 DEF Counted, FilesAreRight
<1>8. TakenAreHeld'
  <2>1. processes' = processes
    BY DEF PeerConnects
  <2> QED
    BY <1>2, <1>3, <2>1 DEF TakenAreHeld
<1> QED
  BY <1>5, <1>6, <1>7, <1>8

LEMMA PeerWrites ==
    ASSUME SocketParts, NEW p \in Peers, Write(p)
    PROVE  SocketParts'
<1> USE DEF SocketParts
<1>1. peers[p] \in [at : PeerPlaces, wrote : Orders \cup {"nothing", "reset"},
                    answers : Seq(Replies)]
  BY DEF SocketTyped
<1>2. PICK order \in Orders \cup {"reset"} : peers' = [peers EXCEPT ![p].wrote = order]
  BY DEF Write
<1>3. /\ peers[p].at \in {"queued", "taken"} /\ UNCHANGED <<backlog, processes, now>>
  BY DEF Write
<1>4. \A r \in Peers : peers'[r] = IF r = p THEN [peers[p] EXCEPT !.wrote = order] ELSE peers[r]
  BY <1>2 DEF SocketTyped
<1>5. peers'[p].at = peers[p].at /\ peers'[p].answers = peers[p].answers
  BY <1>1, <1>4
<1>6. SocketTyped' /\ (\A r \in Processes : Fits(processes[r]))'
  <2>1. peers'[p] \in [at : PeerPlaces, wrote : Orders \cup {"nothing", "reset"},
                       answers : Seq(Replies)]
    BY <1>1, <1>4
  <2> QED
    BY <1>2, <1>3, <1>4, <2>1 DEF SocketTyped
<1>7. \A r \in Peers : peers'[r].at = peers[r].at
  BY <1>4, <1>5
<1>8. QueuedOnce'
  BY <1>3, <1>7, ElementOfSeq, LenProperties DEF QueuedOnce, SocketTyped
<1>9. TakenAreHeld'
  BY <1>3, <1>7 DEF TakenAreHeld
<1>10. Len(peers[p].answers) = 0 /\ DOMAIN peers[p].answers = {}
  <2>1. Len(peers[p].answers) = 0
    BY <1>3 DEF Counted
  <2>2. peers[p].answers \in Seq(Replies)
    BY <1>1
  <2> QED
    BY <2>1, <2>2, LenProperties
<1>11. Counted'
  BY <1>3, <1>4, <1>5, <1>10 DEF Counted
<1>12. FilesAreRight'
  BY <1>4, <1>5, <1>10 DEF FilesAreRight
<1> QED
  BY <1>6, <1>8, <1>9, <1>11, <1>12

LEMMA PeerIsAccepted ==
    ASSUME SocketParts, NEW q \in Processes, Accept(q)
    PROVE  SocketParts'
<1> DEFINE p == Head(backlog)
           t == [processes[q] EXCEPT !.at = "read", !.peer = p]
<1> USE DEF SocketParts
<1>1. /\ backlog # << >> /\ backlog \in Seq(Peers) /\ processes[q].at = "accept"
      /\ backlog' = Tail(backlog) /\ now' = now
      /\ peers' = [peers EXCEPT ![p].at = "taken"]
      /\ processes' = [processes EXCEPT ![q].at = "read", ![q].peer = p]
  BY DEF Accept, SocketTyped
<1>2. /\ p = backlog[1] /\ p \in Peers /\ 1 \in DOMAIN backlog /\ Len(backlog) \in Nat
      /\ DOMAIN backlog = 1..Len(backlog) /\ \A i \in 1..Len(backlog) : backlog[i] \in Peers
  BY <1>1, HeadTailProperties, LenProperties, ElementOfSeq, EmptySeq
<1>3. /\ Tail(backlog) \in Seq(Peers) /\ Len(Tail(backlog)) = Len(backlog) - 1
      /\ DOMAIN Tail(backlog) = 1..(Len(backlog) - 1)
      /\ \A i \in 1..(Len(backlog) - 1) : Tail(backlog)[i] = backlog[i + 1]
  <2>1. Tail(backlog) \in Seq(Peers) /\ Len(Tail(backlog)) = Len(backlog) - 1
    BY <1>1, HeadTailProperties
  <2> QED
    BY <1>1, <2>1, LenProperties
<1> HIDE DEF p
<1>4. peers[p] \in [at : PeerPlaces, wrote : Orders \cup {"nothing", "reset"},
                    answers : Seq(Replies)]
  BY <1>2 DEF SocketTyped
<1>5. \A r \in Peers : peers'[r] = IF r = p THEN [peers[p] EXCEPT !.at = "taken"] ELSE peers[r]
  BY <1>1 DEF SocketTyped
<1>6. /\ peers'[p].at = "taken" /\ peers[p].at = "queued"
      /\ peers'[p].wrote = peers[p].wrote /\ peers'[p].answers = peers[p].answers
  BY <1>2, <1>4, <1>5 DEF QueuedOnce
<1>7. processes[q] \in ProcessStates /\ processes' = [processes EXCEPT ![q] = t]
  BY <1>1 DEF SocketTyped
<1>8. /\ t \in ProcessStates /\ t.at = "read" /\ t.peer = p
      /\ Fits(processes[q]) => Fits(t)
  BY <1>2, <1>7 DEF ProcessStates, Fits
<1> HIDE DEF t
<1>9. \A r \in Processes : processes'[r] = IF r = q THEN t ELSE processes[r]
  BY <1>7 DEF SocketTyped
<1>10. SocketTyped' /\ (\A r \in Processes : Fits(processes[r]))'
  <2>1. peers'[p] \in [at : PeerPlaces, wrote : Orders \cup {"nothing", "reset"},
                       answers : Seq(Replies)]
    BY <1>4, <1>5, <1>2 DEF PeerPlaces
  <2>2. \A r \in Processes : Fits(processes'[r])
    BY <1>1, <1>8, <1>9
  <2>3. processes' \in [Processes -> ProcessStates]
    BY <1>7, <1>8 DEF SocketTyped
  <2>4. peers' \in [Peers -> [at : PeerPlaces, wrote : Orders \cup {"nothing", "reset"},
                             answers : Seq(Replies)]]
    BY <1>1, <1>5, <2>1 DEF SocketTyped
  <2>5. SocketTyped'
    BY <1>1, <1>3, <2>3, <2>4 DEF SocketTyped
  <2> QED
    BY <2>2, <2>5 DEF Fits
<1>11. QueuedOnce'
  <2> DEFINE n == Len(backlog)
             b == Tail(backlog)
  <2>1. /\ n \in Nat /\ DOMAIN b = 1..(n - 1) /\ backlog' = b /\ DOMAIN backlog = 1..n
        /\ \A i \in 1..(n - 1) : b[i] = backlog[i + 1] /\ b[i] \in Peers /\ i + 1 \in 1..n /\ i + 1 # 1
    BY <1>1, <1>2, <1>3
  <2> HIDE DEF n, b
  <2>2. \A i \in 1..(n - 1) : b[i] # p
    BY <1>2, <2>1 DEF QueuedOnce
  <2>3. \A i \in 1..(n - 1) : peers'[b[i]].at = "queued"
    BY <1>5, <2>1, <2>2 DEF QueuedOnce
  <2>4. ASSUME NEW i \in 1..(n - 1), NEW j \in 1..(n - 1), b[i] = b[j] PROVE i = j
    BY <2>1, <2>4 DEF QueuedOnce
  <2> QED
    BY <2>1, <2>3, <2>4 DEF QueuedOnce
<1>12. Counted' /\ FilesAreRight'
  BY <1>5, <1>6 DEF Counted, FilesAreRight
<1>13. TakenAreHeld'
  <2>1. \A r \in Processes : processes[r].at = "read" => processes[r].peer # p
    BY <1>6 DEF TakenAreHeld
  <2>2. ASSUME NEW r \in Processes, processes'[r].at = "read"
        PROVE  /\ processes'[r].peer \in Peers /\ peers'[processes'[r].peer].at = "taken"
               /\ \A o \in Processes :
                     processes'[o].at = "read" /\ processes'[o].peer = processes'[r].peer => o = r
    <3>1. CASE r = q
      <4>1. processes'[r].peer = p
        BY <1>8, <1>9, <3>1
      <4> QED
        BY <1>2, <1>6, <1>9, <2>1, <3>1, <4>1
    <3>2. CASE r # q
      <4>1. processes'[r] = processes[r]
        BY <1>9, <3>2
      <4> QED
        BY <1>5, <1>8, <1>9, <2>1, <2>2, <3>2, <4>1 DEF TakenAreHeld
    <3> QED
      BY <3>1, <3>2
  <2>3. ASSUME NEW r \in Peers, peers'[r].at = "taken"
        PROVE  \E o \in Processes : processes'[o].at = "read" /\ processes'[o].peer = r
    <3>1. CASE r = p
      BY <1>8, <1>9, <3>1
    <3>2. CASE r # p
      <4>1. peers[r].at = "taken"
        BY <1>5, <2>3, <3>2
      <4>2. PICK o \in Processes : processes[o].at = "read" /\ processes[o].peer = r
        BY <4>1 DEF TakenAreHeld
      <4>3. processes'[o] = processes[o]
        BY <1>1, <1>9, <4>2
      <4> QED
        BY <4>2, <4>3
    <3> QED
      BY <3>1, <3>2
  <2> QED
    BY <2>2, <2>3 DEF TakenAreHeld
<1> QED
  BY <1>10, <1>11, <1>12, <1>13

\* ps drops the stack that it had to build, pause builds the one that the observer needs.
LEMMA HandledIs ==
    ASSUME NEW s \in ProcessStates, Fits(s), NEW order
    PROVE  /\ Handle(s, order).state \in ProcessStates /\ Fits(Handle(s, order).state)
           /\ Handle(s, order).state.at = s.at
           /\ Handle(s, order).answer \in Replies
           /\ order = "ps" => Handle(s, order).answer.file = MainCall.id
<1>1. /\ << >> \in Seq(CallRecords) /\ s.calls \in Seq(CallRecords) /\ s.calls # << >>
      /\ s.frames \in Seq(CallRecords) /\ s.calls[1] = MainCall /\ Ordered(s.calls)
      /\ s.frames # << >> => s.observer /\ s.frames[1] = MainCall
      /\ s.frames = << >> => ~s.observer
  BY DEF ProcessStates, Fits
<1>2. CASE order = "ps"
  <2>1. Head(s.calls) = MainCall /\ (s.frames # << >> => Head(s.frames) = MainCall)
    BY <1>1, HeadTailProperties
  <2>2. /\ WithStack(s).frames = IF s.frames = << >> THEN s.calls ELSE s.frames
        /\ [WithStack(s) EXCEPT !.frames = << >>] \in ProcessStates
    BY <1>1 DEF WithStack, Rebuilt, ProcessStates
  <2>3. PsReport(s) \in Replies /\ PsReport(s).file = MainCall.id
    BY <2>1, <2>2 DEF PsReport, Replies, MainCall
  <2>4. Ps(s) \in ProcessStates /\ Fits(Ps(s)) /\ Ps(s).at = s.at
    <3>1. CASE s.frames = << >>
      <4> DEFINE t == [WithStack(s) EXCEPT !.frames = << >>]
      <4>1. /\ t.frames = << >> /\ t.calls = s.calls /\ t.observer = s.observer /\ t.at = s.at
            /\ ~s.observer
        BY <1>1, <3>1 DEF WithStack, Rebuilt, ProcessStates
      <4>2. Fits(t)
        BY <1>1, <4>1 DEF Fits
      <4> QED
        BY <2>2, <3>1, <4>1, <4>2 DEF Ps
    <3>2. CASE s.frames # << >>
      BY <3>2 DEF Ps
    <3> QED
      BY <3>1, <3>2
  <2> QED
    BY <1>2, <2>3, <2>4 DEF Handle
<1>3. CASE order = "pause"
  <2> DEFINE seen == IF s.observer THEN s ELSE Rebuilt(s)
             more == IF s.session THEN "break" ELSE "connect"
  <2>1. /\ seen \in ProcessStates /\ seen.calls = s.calls /\ seen.at = s.at
        /\ seen.frames = IF s.observer THEN s.frames ELSE s.calls
    BY <1>1 DEF Rebuilt, ProcessStates
  <2>8. seen.frames # << >> /\ seen.frames[1] = MainCall /\ Ordered(seen.frames) /\ Records(s.calls, seen.frames)
    <3>1. CASE s.observer
      BY <2>1, <3>1 DEF Fits
    <3>2. CASE ~s.observer
      <4>1. Records(s.calls, s.calls)
        BY DEF Records
      <4> QED
        BY <1>1, <2>1, <3>2, <4>1
    <3> QED
      BY <3>1, <3>2
  <2>2. PauseScript(s) = [seen EXCEPT !.signals = @ \cup {more}, !.observer = TRUE]
    BY DEF PauseScript
  <2>3. more \in {"connect", "break"}
    OBVIOUS
  <2> HIDE DEF seen, more
  <2> DEFINE wanted == seen.signals \cup {more}
  <2>7. wanted \in SUBSET {"connect", "break"} /\ PauseScript(s) = [seen EXCEPT !.signals = wanted, !.observer = TRUE]
    BY <2>1, <2>2, <2>3 DEF ProcessStates
  <2> HIDE DEF wanted
  <2>4. /\ PauseScript(s) \in ProcessStates /\ PauseScript(s).calls = s.calls
        /\ PauseScript(s).frames = seen.frames /\ PauseScript(s).at = s.at /\ PauseScript(s).observer
    BY <2>1, <2>7 DEF ProcessStates
  <2>5. Fits(PauseScript(s))
    BY <1>1, <2>4, <2>8 DEF Fits
  <2>6. [Error EXCEPT !.success = TRUE] \in Replies
    BY DEF Error, Replies
  <2> QED
    BY <1>3, <2>4, <2>5, <2>6 DEF Handle
<1>4. CASE order \notin {"ps", "pause"}
  BY <1>4 DEF Handle, Error, Replies
<1> QED
  BY <1>2, <1>3, <1>4

LEMMA OrderIsRead ==
    ASSUME SocketParts, NEW q \in Processes, ReadOrder(q)
    PROVE  SocketParts'
<1> DEFINE p       == processes[q].peer
           s       == [processes[q] EXCEPT !.at = "code", !.peer = "none"]
           dealt == Handle(s, peers[p].wrote)
           reset   == peers[p].wrote = "reset"
           t       == IF reset THEN s ELSE dealt.state
           a       == IF reset THEN peers[p].answers ELSE Append(peers[p].answers, dealt.answer)
<1> USE DEF SocketParts
<1>1. /\ processes[q].at = "read" /\ p \in Peers /\ peers[p].at = "taken"
      /\ peers[p].wrote # "nothing" /\ UNCHANGED <<backlog, now>>
  BY DEF ReadOrder, TakenAreHeld
<1>2. peers[p] \in [at : PeerPlaces, wrote : Orders \cup {"nothing", "reset"},
                    answers : Seq(Replies)]
  BY <1>1 DEF SocketTyped
<1>3. s \in ProcessStates /\ Fits(s) /\ s.at = "code"
  <2>1. processes[q] \in ProcessStates /\ Fits(processes[q])
    BY DEF SocketTyped
  <2> QED
    BY <2>1 DEF ProcessStates, Fits
<1>4. processes' = [processes EXCEPT ![q] = t] /\ peers' = [peers EXCEPT ![p] = AfterRead(p, a)]
  BY <1>1 DEF ReadOrder, SocketTyped
<1> HIDE DEF s
<1>5. /\ t \in ProcessStates /\ Fits(t) /\ t.at = "code"
      /\ dealt.answer \in Replies
      /\ peers[p].wrote = "ps" => dealt.answer.file = MainCall.id
  BY <1>3, HandledIs
<1> HIDE DEF dealt
<1>6. /\ a \in Seq(Replies) /\ Len(a) = IF reset THEN 0 ELSE 1
      /\ \A k \in DOMAIN a : peers[p].wrote = "ps" => a[k].file = MainCall.id
  <2>1. Len(peers[p].answers) = 0 /\ peers[p].answers \in Seq(Replies)
    BY <1>1, <1>2 DEF Counted
  <2>2. CASE reset
    BY <2>1, <2>2, LenProperties
  <2>3. CASE ~reset
    <3>1. /\ a = Append(peers[p].answers, dealt.answer) /\ a \in Seq(Replies) /\ Len(a) = 1
          /\ DOMAIN a = 1..1 /\ a[1] = dealt.answer
      <4>1. a = Append(peers[p].answers, dealt.answer)
        BY <2>3
      <4> HIDE DEF a
      <4> QED
        <5> DEFINE x == peers[p].answers
                   y == dealt.answer
        <5>1. x \in Seq(Replies) /\ y \in Replies /\ Len(x) = 0 /\ a = Append(x, y)
          BY <1>5, <2>1, <4>1
        <5> HIDE DEF x, y
        <5>2. /\ a \in Seq(Replies) /\ Len(a) = Len(x) + 1 /\ DOMAIN a = 1..(Len(x) + 1)
              /\ a[Len(x) + 1] = y
          BY <5>1, PushIs
        <5>3. Len(x) + 1 = 1
          BY <5>1
        <5> QED
          BY <4>1, <5>1, <5>2, <5>3 DEF y
    <3> HIDE DEF a
    <3>2. \A k \in DOMAIN a : k = 1
      BY <3>1
    <3> QED
      BY <1>5, <2>3, <3>1, <3>2
  <2> QED
    BY <2>2, <2>3
<1> HIDE DEF a, t
<1>7. \A r \in Peers : peers'[r] = IF r = p THEN AfterRead(p, a) ELSE peers[r]
  BY <1>4 DEF SocketTyped
<1>8. /\ peers'[p].at = "closed" /\ peers'[p].wrote = peers[p].wrote /\ peers'[p].answers = a
      /\ peers'[p] \in [at : PeerPlaces, wrote : Orders \cup {"nothing", "reset"},
                        answers : Seq(Replies)]
  BY <1>1, <1>2, <1>6, <1>7 DEF AfterRead, PeerPlaces
<1>9. \A r \in Processes : processes'[r] = IF r = q THEN t ELSE processes[r]
  BY <1>4 DEF SocketTyped
<1> HIDE DEF p
<1>10. SocketTyped' /\ (\A r \in Processes : Fits(processes[r]))'
  BY <1>1, <1>4, <1>5, <1>7, <1>8, <1>9 DEF SocketTyped
<1>11. QueuedOnce'
  <2>1. \A i \in DOMAIN backlog : backlog[i] \in Peers
    BY ElementOfSeq, LenProperties DEF SocketTyped
  <2> QED
    BY <1>1, <1>7, <1>8, <2>1 DEF QueuedOnce
<1>12. Counted'
  BY <1>6, <1>7, <1>8 DEF Counted
<1>14. FilesAreRight'
  BY <1>6, <1>7, <1>8 DEF FilesAreRight
<1>13. TakenAreHeld'
  BY <1>1, <1>5, <1>7, <1>8, <1>9 DEF TakenAreHeld, p
<1> QED
  BY <1>10, <1>11, <1>12, <1>13, <1>14

LEMMA SocketStep == SocketParts /\ [SocketNext]_socketVars => SocketParts'
<1> SUFFICES ASSUME SocketParts, [SocketNext]_socketVars PROVE SocketParts'
  OBVIOUS
<1>1. CASE \E p \in Peers : PeerConnects(p) \/ Write(p)
  BY <1>1, PeerQueues, PeerWrites
<1>2. CASE \E q \in Processes : \/ CallFunction(q) \/ ReturnFunction(q) \/ Teardown(q)
                                \/ Dispatch(q) \/ Accept(q) \/ ReadOrder(q)
  BY <1>2, FunctionCalled, FunctionReturns, ScriptIsOver, SocketLookedAt, PeerIsAccepted, OrderIsRead
<1>3. CASE Fork
  BY <1>3, ParentForks
<1>4. CASE Tick
  <2>1. now' \in Nat
    BY <1>4 DEF Tick, SocketParts, SocketTyped
  <2> QED
    BY <1>4, <2>1 DEF Tick, SocketParts, SocketTyped, QueuedOnce, TakenAreHeld, Counted, FilesAreRight
<1>5. CASE UNCHANGED socketVars
  BY <1>5 DEF socketVars, SocketParts, SocketTyped, QueuedOnce, TakenAreHeld, Counted, FilesAreRight
<1> QED
  BY <1>1, <1>2, <1>3, <1>4, <1>5 DEF SocketNext

LEMMA SocketInvariant == SocketSpec => []SocketParts
<1>1. SocketInit => SocketParts
  BY SocketInitHolds
<1>2. SocketParts /\ [SocketNext]_socketVars => SocketParts'
  BY SocketStep
<1> QED
  BY <1>1, <1>2, PTL DEF SocketSpec

\* Every peer that is accepted, by the parent or by the child, is read by one process and
\* answered once, unless it broke off, however many peers there are.
THEOREM PeersAreAnswered == SocketSpec => []OneAnswerEach
<1>1. SocketParts => OneAnswerEach
  <2> SUFFICES ASSUME SocketParts, NEW p \in Peers
               PROVE  LET holders == {q \in Processes : processes[q].at = "read" /\ processes[q].peer = p}
                      IN Cardinality(holders) = IF peers[p].at = "taken" THEN 1 ELSE 0
    BY DEF OneAnswerEach, SocketParts, Counted
  <2> DEFINE holders == {q \in Processes : processes[q].at = "read" /\ processes[q].peer = p}
  <2>1. CASE peers[p].at = "taken"
    <3>1. PICK q \in Processes : processes[q].at = "read" /\ processes[q].peer = p
      BY <2>1 DEF SocketParts, TakenAreHeld
    <3>2. holders = {q}
      BY <3>1 DEF SocketParts, TakenAreHeld
    <3>3. Cardinality(holders) = 1
      BY <3>2, FS_Singleton
    <3> QED
      BY <2>1, <3>3
  <2>2. CASE peers[p].at # "taken"
    <3>1. holders = {}
      BY <2>2 DEF SocketParts, TakenAreHeld
    <3>2. Cardinality(holders) = 0
      BY <3>1, FS_EmptySet
    <3> QED
      BY <2>2, <3>2
  <2> QED
    BY <2>1, <2>2
<1> QED
  BY <1>1, SocketInvariant, PTL

\* Whatever is asked over the control socket, none is recorded while the observer is off, and
\* while it is on every observed call has its frame; what stays of calls that are over is what
\* pause built for functions without handlers, and what that covers; and ps names the script,
\* for any number of peers, any depth of the calls and any time between two looks.
THEOREM CommandsKeepTheStack == SocketSpec => []StackFitsObserver
<1>1. SocketParts => StackFitsObserver
  <2> SUFFICES ASSUME SocketParts, NEW q \in Processes
               PROVE  LET s == processes[q]
                      IN IF ~s.observer THEN s.frames = << >>
                         ELSE /\ \A c \in Open(s) : c.handled => c \in ToSet(s.frames)
                              /\ \A k, m \in DOMAIN s.frames : k < m => s.frames[k].id < s.frames[m].id
                              /\ \A k \in DOMAIN s.frames : LeftOver(s, k) =>
                                    \E m \in DOMAIN s.frames :
                                       m >= k /\ LeftOver(s, m) /\ ~s.frames[m].handled
    BY DEF SocketParts, StackFitsObserver, FilesAreRight
  <2> DEFINE s == processes[q]
  <2>1. CASE ~s.observer
    BY <2>1 DEF SocketParts, Fits
  <2>2. CASE s.observer
    <3>1. Ordered(s.frames) /\ Records(s.calls, s.frames)
      BY <2>2 DEF SocketParts, Fits
    <3>2. /\ \A c : c \in Open(s) <=> \E i \in DOMAIN s.calls : s.calls[i] = c
          /\ \A c : c \in ToSet(s.frames) <=> \E k \in DOMAIN s.frames : s.frames[k] = c
      BY DEF Open, ToSet
    <3>3. \A k : LeftOver(s, k) <=> \A i \in DOMAIN s.calls : s.calls[i] # s.frames[k]
      BY <3>2 DEF LeftOver
    <3>4. \A c \in Open(s) : c.handled => c \in ToSet(s.frames)
      BY <3>1, <3>2 DEF Records
    <3>5. \A k \in DOMAIN s.frames : LeftOver(s, k) =>
             \E m \in DOMAIN s.frames : m >= k /\ LeftOver(s, m) /\ ~s.frames[m].handled
      BY <3>1, <3>3 DEF Records
    <3> QED
      BY <2>2, <3>1, <3>4, <3>5 DEF Ordered
  <2> QED
    BY <2>1, <2>2
<1> QED
  BY <1>1, SocketInvariant, PTL

-----------------------------------------------------------------------------
(* The command loop.                                                       *)

Stream == buffer \o wire
AllPieces == Nat \X {"text", "nul"}
Statuses == {"starting", "running", "break", "stopping", "stopped"}
Reply == [id : Nat, status : Statuses \cup {"error"}]

LoopTyped ==
    /\ packets \in Seq(Commands) /\ handled \in 0..Len(packets) /\ last \in 0..handled
    /\ place \in {"prompt", "script", "post mortem", "closed"} /\ status \in Statuses
    /\ wire \in Seq(AllPieces) /\ buffer \in Seq(AllPieces)
    /\ answers \in Seq(Reply) /\ \A a \in DOMAIN answers : answers[a].id <= handled
    /\ place = "prompt" => status \in {"starting", "break"}

\* StreamIsWhole, piece by piece.
WholeFrom(s, h, n) ==
    /\ Len(s) = 2 * (n - h)
    /\ \A k \in 1..(n - h) : s[2 * k - 1] = <<h + k, "text">> /\ s[2 * k] = <<h + k, "nul">>

IdOf(k) == IF packets[k] = "no id" THEN 0 ELSE k

\* The answer that is still to come is that to the last command, and only the script
\* can be what it waits for.
EachHasAnswer ==
    place # "closed" =>
       \A k \in 1..handled :
          \/ IdOf(k) = 0
          \/ \E a \in DOMAIN answers : answers[a].id = k
          \/ place = "script" /\ last = k

Regular == \A k \in 1..handled : packets[k] \notin {"unknown", "stop"}

InOrder(n) == Len(answers) = n /\ \A k \in 1..n : answers[k].id = IdOf(k)

AnswersInOrder ==
    Regular =>
       /\ AtPrompt => InOrder(handled)
       /\ place = "script" =>
             handled >= 1 /\ last = handled /\ IdOf(handled) = handled /\ InOrder(handled - 1)

LoopParts ==
    /\ LoopTyped /\ (place # "closed" => WholeFrom(Stream, handled, Len(packets)))
    /\ EachHasAnswer /\ AnswersInOrder

LEMMA LoopInitHolds == LoopInit => LoopParts
<1> SUFFICES ASSUME LoopInit PROVE LoopParts
  OBVIOUS
<1>1. /\ packets = << >> /\ wire = << >> /\ buffer = << >> /\ answers = << >>
      /\ handled = 0 /\ last = 0 /\ place = "prompt" /\ status = "starting"
      /\ Len(<< >>) = 0 /\ DOMAIN << >> = {} /\ << >> \o << >> = << >>
  BY DEF LoopInit
<1>2. LoopTyped
  BY <1>1 DEF LoopTyped, Statuses
<1>3. WholeFrom(Stream, handled, Len(packets))
  BY <1>1 DEF WholeFrom, Stream
<1>4. EachHasAnswer /\ AnswersInOrder
  BY <1>1 DEF EachHasAnswer, AnswersInOrder, InOrder
<1> QED
  BY <1>2, <1>3, <1>4 DEF LoopParts

\* Another packet on the wire.
LEMMA PacketExtends ==
    ASSUME NEW b \in Seq(AllPieces), NEW w \in Seq(AllPieces), NEW n \in Nat, NEW h \in 0..n,
           WholeFrom(b \o w, h, n)
    PROVE  /\ w \o Pieces(n + 1) \in Seq(AllPieces)
           /\ WholeFrom(b \o (w \o Pieces(n + 1)), h, n + 1)
<1> DEFINE p == Pieces(n + 1)
           s == b \o w
           t == s \o p
           m == Len(s)
<1>0. p[1] = <<n + 1, "text">> /\ p[2] = <<n + 1, "nul">>
  BY DEF Pieces
<1>1. p \in Seq(AllPieces) /\ Len(p) = 2
  BY DEF Pieces, AllPieces
<1> HIDE DEF p
<1>2. w \o p \in Seq(AllPieces) /\ b \o (w \o p) = t
  <2>1. w \o p \in Seq(AllPieces)
    BY <1>1, ConcatIs
  <2>2. b \o (w \o p) = t
    <3>1. p \in Seq(AllPieces) /\ t = (b \o w) \o p
      BY <1>1
    <3> HIDE DEF t
    <3> QED
      BY <3>1, Regrouped
  <2> QED
    BY <2>1, <2>2
<1>3. s \in Seq(AllPieces)
  BY ConcatIs
<1>4. /\ m = 2 * (n - h)
      /\ \A k \in 1..(n - h) : s[2 * k - 1] = <<h + k, "text">> /\ s[2 * k] = <<h + k, "nul">>
  BY DEF WholeFrom
<1> HIDE DEF s
<1>5. /\ m \in Nat /\ Len(t) = m + 2
      /\ \A i \in 1..m : t[i] = s[i]
      /\ \A i \in 1..2 : t[m + i] = p[i]
  <2>1. /\ Len(s) \in Nat /\ Len(s \o p) = Len(s) + Len(p)
        /\ \A i \in 1..Len(s) : (s \o p)[i] = s[i]
        /\ \A i \in 1..Len(p) : (s \o p)[Len(s) + i] = p[i]
    <3>1. p \in Seq(AllPieces)
      BY <1>1
    <3> QED
      BY <1>3, <3>1, ConcatIs
  <2> QED
    BY <1>1, <2>1
<1> HIDE DEF t, m
<1>6. t[m + 1] = <<n + 1, "text">> /\ t[m + 2] = <<n + 1, "nul">>
  BY <1>0, <1>5
<1>7. ASSUME NEW k \in 1..(n + 1 - h)
      PROVE  t[2 * k - 1] = <<h + k, "text">> /\ t[2 * k] = <<h + k, "nul">>
  <2>1. CASE k <= n - h
    <3>1. k \in 1..(n - h) /\ 2 * k - 1 \in 1..m /\ 2 * k \in 1..m
      BY <1>4, <2>1
    <3> QED
      BY <1>4, <1>5, <3>1
  <2>2. CASE ~(k <= n - h)
    <3>1. 2 * k - 1 = m + 1 /\ 2 * k = m + 2 /\ h + k = n + 1
      BY <1>4, <2>2
    <3> QED
      BY <1>6, <3>1
  <2> QED
    BY <2>1, <2>2
<1>8. Len(t) = 2 * (n + 1 - h)
  BY <1>4, <1>5
<1>9. WholeFrom(t, h, n + 1)
  BY <1>7, <1>8 DEF WholeFrom
<1> QED
  BY <1>2, <1>9 DEF p

\* What is received is taken from the wire and appended to the buffer.
LEMMA ReceivingKeeps ==
    ASSUME NEW b \in Seq(AllPieces), NEW w \in Seq(AllPieces), NEW n \in Nat, n >= 1, n <= Len(w)
    PROVE  /\ b \o SubSeq(w, 1, n) \in Seq(AllPieces) /\ SubSeq(w, n + 1, Len(w)) \in Seq(AllPieces)
           /\ (b \o SubSeq(w, 1, n)) \o SubSeq(w, n + 1, Len(w)) = b \o w
<1> DEFINE m == Len(w)
           x == SubSeq(w, 1, n)
           y == SubSeq(w, n + 1, m)
<1>1. m \in Nat /\ \A i \in 1..m : w[i] \in AllPieces
  BY LenProperties, ElementOfSeq
<1>2. x \in Seq(AllPieces)
  <2>1. \A i \in 1..n : w[i] \in AllPieces
    BY <1>1
  <2> QED
    BY <2>1, SubSeqProperties
<1>3. y \in Seq(AllPieces)
  <2> HIDE DEF m
  <2>1. n + 1 \in Int /\ m \in Int /\ \A i \in (n + 1)..m : w[i] \in AllPieces
    BY <1>1
  <2> QED
    BY <2>1, SubSeqProperties
<1>4. x \o y = w
  <2>1. 1 \in 1..(m + 1) /\ n \in (1 - 1)..m /\ m \in n..m
    BY <1>1
  <2>2. x \o y = SubSeq(w, 1, m)
    BY <2>1, ConcatAdjacentSubSeq
  <2> QED
    BY <2>2, SubSeqFull
<1> HIDE DEF x, y
<1>5. (b \o x) \o y = b \o w
  <2> DEFINE d == (b \o x) \o y
  <2>1. b \o (x \o y) = d
    <3>1. /\ b \in Seq(AllPieces) /\ x \in Seq(AllPieces) /\ y \in Seq(AllPieces)
          /\ d = (b \o x) \o y
      BY <1>2, <1>3
    <3> HIDE DEF d
    <3> QED
      BY ONLY <3>1, Regrouped
  <2> QED
    BY <1>4, <2>1
<1> QED
  BY <1>2, <1>3, <1>5, ConcatIs DEF x, y, m

\* What Taken leaves.
AfterNul(b) == SubSeq(b, SelectInSeq(b, LAMBDA p : p[2] = "nul") + 1, Len(b))

\* A buffer that ends in a NUL begins with a whole packet, and without it what is left
\* begins with the next one.
LEMMA TakingKeeps ==
    ASSUME NEW b \in Seq(AllPieces), NEW w \in Seq(AllPieces), NEW n \in Nat, NEW h \in 0..n,
           WholeFrom(b \o w, h, n), Ends(b),
           NEW r, r = AfterNul(b)
    PROVE  /\ r \in Seq(AllPieces) /\ h + 1 \in 0..n
           /\ WholeFrom(r \o w, h + 1, n)
<1> DEFINE s == b \o w
           m == Len(b)
           q == r \o w
           f == SubSeq(b, 1, 2)
<1>1. m \in Nat /\ m >= 1 /\ b[m][2] = "nul" /\ \A i \in 1..m : b[i] \in AllPieces
  BY LenProperties, ElementOfSeq, EmptySeq DEF Ends, Last
<1>2. s \in Seq(AllPieces) /\ Len(s) = m + Len(w) /\ Len(w) \in Nat /\ \A i \in 1..m : s[i] = b[i]
  BY ConcatIs
<1>3. /\ Len(s) = 2 * (n - h)
      /\ \A k \in 1..(n - h) : s[2 * k - 1] = <<h + k, "text">> /\ s[2 * k] = <<h + k, "nul">>
  BY DEF WholeFrom
<1>4. n - h >= 1 /\ h + 1 \in 0..n /\ 1 \in 1..(n - h)
  <2> HIDE DEF s, m
  <2> QED
    BY <1>1, <1>2, <1>3
<1>5. s[1] = <<h + 1, "text">> /\ s[2] = <<h + 1, "nul">>
  <2> HIDE DEF s, m
  <2>1. s[2 * 1 - 1] = <<h + 1, "text">> /\ s[2 * 1] = <<h + 1, "nul">>
    BY <1>3, <1>4
  <2> QED
    BY <2>1
<1>6. m >= 2 /\ b[1] = s[1] /\ b[2] = s[2]
  <2> HIDE DEF s, m
  <2>1. b[1] = s[1]
    BY <1>1, <1>2
  <2>2. b[1][2] = "text"
    BY <1>5, <2>1
  <2>3. m # 1
    BY <1>1, <2>2
  <2> QED
    BY <1>1, <1>2, <2>1, <2>3
<1>7. SelectInSeq(b, LAMBDA p : p[2] = "nul") = 2
  <2> DEFINE I == {i \in 1..Len(b) : b[i][2] = "nul"}
  <2> HIDE DEF s
  <2>1. I \in SUBSET Nat /\ 2 \in I /\ 1 \notin I
    BY <1>1, <1>5, <1>6
  <2>2. \A i \in I : i >= 1
    OBVIOUS
  <2>3. SelectInSeq(b, LAMBDA p : p[2] = "nul") = Min(I)
    BY <2>1 DEF SelectInSeq
  <2> HIDE DEF I
  <2>4. Min(I) \in I /\ Min(I) <= 2
    BY <2>1, MinIs
  <2> QED
    BY <2>1, <2>2, <2>3, <2>4
<1>8. r \in Seq(AllPieces) /\ f \in Seq(AllPieces) /\ Len(f) = 2 /\ f \o r = b
  <2>1. r = SubSeq(b, 2 + 1, m)
    BY <1>7 DEF AfterNul
  <2>2. /\ \A i \in (2 + 1)..m : b[i] \in AllPieces
        /\ \A i \in 1..2 : b[i] \in AllPieces
    BY <1>1, <1>6
  <2>3. r \in Seq(AllPieces)
    <3>1. 2 + 1 \in Int /\ m \in Int
      BY <1>1
    <3> HIDE DEF m
    <3> QED
      BY <2>1, <2>2, <3>1, SubSeqProperties
  <2>4. f \in Seq(AllPieces) /\ Len(f) = 2 - 1 + 1
    BY <2>2, SubSeqProperties
  <2>5. 1 \in 1..(m + 1) /\ 2 \in (1 - 1)..m /\ m \in 2..m
    BY <1>1, <1>6
  <2>6. f \o r = SubSeq(b, 1, m)
    BY <2>1, <2>5, ConcatAdjacentSubSeq
  <2>7. SubSeq(b, 1, m) = b
    BY SubSeqFull
  <2> HIDE DEF f, m, q, s
  <2>8. f \in Seq(AllPieces) /\ Len(f) = 2
    BY <2>4
  <2>9. f \o r = b
    BY <2>6, <2>7
  <2> QED
    BY <2>3, <2>8, <2>9
<1> HIDE DEF f
<1>9. q \in Seq(AllPieces) /\ s = f \o q
  <2>1. q \in Seq(AllPieces)
    BY <1>8, ConcatIs
  <2>2. f \o (r \o w) = s
    <3>1. /\ f \in Seq(AllPieces) /\ r \in Seq(AllPieces) /\ w \in Seq(AllPieces)
          /\ s = (f \o r) \o w
      BY <1>8
    <3> HIDE DEF s
    <3> QED
      BY ONLY <3>1, Regrouped
  <2> QED
    BY <2>1, <2>2
<1>10. Len(q) \in Nat /\ Len(s) = 2 + Len(q) /\ \A i \in 1..Len(q) : s[2 + i] = q[i]
  <2> HIDE DEF q, s
  <2>1. f \in Seq(AllPieces) /\ q \in Seq(AllPieces)
    BY <1>8, <1>9
  <2>2. /\ Len(q) \in Nat /\ Len(f \o q) = Len(f) + Len(q)
        /\ \A i \in 1..Len(q) : (f \o q)[Len(f) + i] = q[i]
    BY <2>1, ConcatIs
  <2> QED
    BY <1>8, <1>9, <2>2
<1> HIDE DEF q, s
<1>11. Len(q) = 2 * (n - (h + 1))
  BY <1>3, <1>10
<1>12. ASSUME NEW k \in 1..(n - (h + 1))
       PROVE  q[2 * k - 1] = <<(h + 1) + k, "text">> /\ q[2 * k] = <<(h + 1) + k, "nul">>
  <2>1. /\ 2 * k - 1 \in 1..Len(q) /\ 2 * k \in 1..Len(q)
        /\ 2 + (2 * k - 1) = 2 * (k + 1) - 1 /\ 2 + 2 * k = 2 * (k + 1)
        /\ k + 1 \in 1..(n - h) /\ h + (k + 1) = (h + 1) + k
    BY <1>11
  <2>2. q[2 * k - 1] = s[2 * (k + 1) - 1] /\ q[2 * k] = s[2 * (k + 1)]
    BY <1>10, <2>1
  <2>3. s[2 * (k + 1) - 1] = <<h + (k + 1), "text">> /\ s[2 * (k + 1)] = <<h + (k + 1), "nul">>
    BY <1>3, <2>1
  <2> QED
    BY <2>1, <2>2, <2>3
<1> QED
  BY <1>4, <1>8, <1>11, <1>12 DEF WholeFrom, q

\* A packet is taken from the buffer.
LEMMA PacketIsTaken ==
    ASSUME LoopParts, NEW kinds, Take(kinds)
    PROVE  /\ place \in {"prompt", "post mortem"} /\ buffer' \in Seq(AllPieces)
           /\ handled \in Nat /\ handled' = handled + 1 /\ handled' \in 0..Len(packets)
           /\ WholeFrom(Stream', handled', Len(packets)) /\ Kind \in kinds \cap Commands
           /\ packets' = packets /\ wire' = wire
<1>1. /\ AtPrompt /\ Ends(buffer) /\ Kind \in kinds /\ handled' = handled + 1
      /\ packets' = packets /\ wire' = wire
      /\ buffer' = AfterNul(buffer)
  BY DEF Take, Taken, AfterNul
<1>2. /\ buffer \in Seq(AllPieces) /\ wire \in Seq(AllPieces) /\ packets \in Seq(Commands)
      /\ handled \in 0..Len(packets) /\ Len(packets) \in Nat
      /\ WholeFrom(buffer \o wire, handled, Len(packets))
  <2>1. /\ buffer \in Seq(AllPieces) /\ wire \in Seq(AllPieces) /\ packets \in Seq(Commands)
        /\ handled \in 0..Len(packets)
    BY DEF LoopParts, LoopTyped
  <2>2. place # "closed"
    BY <1>1 DEF AtPrompt
  <2>3. WholeFrom(buffer \o wire, handled, Len(packets))
    BY <2>2 DEF LoopParts, Stream
  <2>4. Len(packets) \in Nat
    BY <2>1, LenProperties
  <2> QED
    BY <2>1, <2>3, <2>4
<1>3. /\ buffer' \in Seq(AllPieces) /\ handled + 1 \in 0..Len(packets)
      /\ WholeFrom(buffer' \o wire, handled + 1, Len(packets))
  <2> DEFINE n == Len(packets)
             r == buffer'
  <2>1. /\ buffer \in Seq(AllPieces) /\ wire \in Seq(AllPieces) /\ n \in Nat /\ handled \in 0..n
        /\ WholeFrom(buffer \o wire, handled, n) /\ Ends(buffer)
        /\ r = AfterNul(buffer)
    BY <1>1, <1>2
  <2> HIDE DEF n, r
  <2>2. r \in Seq(AllPieces) /\ handled + 1 \in 0..n /\ WholeFrom(r \o wire, handled + 1, n)
    BY <2>1, TakingKeeps
  <2> QED
    BY <2>2 DEF n, r
<1>4. handled \in Nat /\ handled + 1 \in 1..Len(packets)
  BY <1>2, <1>3
<1>5. Kind \in Commands
  BY <1>2, <1>4, ElementOfSeq DEF Kind
<1>6. WholeFrom(Stream', handled', Len(packets))
  BY <1>1, <1>3 DEF Stream
<1> QED
  BY <1>1, <1>3, <1>4, <1>5, <1>6 DEF AtPrompt

LEMMA AnswerIs ==
    ASSUME LoopTyped, NEW id \in 0..handled', NEW s \in Statuses \cup {"error"}, Answer(id, s),
           handled' \in Nat, handled <= handled'
    PROVE  /\ answers' \in Seq(Reply) /\ Len(answers) \in Nat /\ Len(answers') = Len(answers) + 1
           /\ DOMAIN answers = 1..Len(answers) /\ DOMAIN answers' = 1..(Len(answers) + 1)
           /\ \A a \in 1..Len(answers) : answers'[a] = answers[a]
           /\ answers'[Len(answers) + 1].id = id
           /\ \A a \in DOMAIN answers' : answers'[a].id <= handled'
<1> DEFINE r == [id |-> id, status |-> s]
<1>1. r \in Reply /\ r.id = id
  BY DEF Reply
<1>2. answers' = Append(answers, r) /\ answers \in Seq(Reply) /\ handled \in Nat
  <2>1. answers' = Append(answers, r)
    BY DEF Answer
  <2>2. packets \in Seq(Commands) /\ handled \in 0..Len(packets) /\ answers \in Seq(Reply)
    BY DEF LoopTyped
  <2>3. Len(packets) \in Nat
    BY <2>2, LenProperties
  <2> HIDE DEF r
  <2>4. handled \in Nat
    BY <2>2, <2>3
  <2> QED
    BY <2>1, <2>2, <2>4
<1> HIDE DEF r
<1>3. /\ answers' \in Seq(Reply) /\ Len(answers) \in Nat /\ Len(answers') = Len(answers) + 1
      /\ DOMAIN answers = 1..Len(answers) /\ DOMAIN answers' = 1..(Len(answers) + 1)
      /\ \A a \in 1..Len(answers) : answers'[a] = answers[a]
      /\ answers'[Len(answers) + 1] = r
  BY <1>1, <1>2, PushIs
<1>4. \A a \in 1..Len(answers) : answers[a].id \in Nat /\ answers[a].id <= handled
  <2>1. \A a \in 1..Len(answers) : answers[a] \in Reply
    BY <1>2, ElementOfSeq
  <2> QED
    BY <1>3, <2>1 DEF LoopTyped, Reply
<1>5. ASSUME NEW a \in DOMAIN answers' PROVE answers'[a].id <= handled'
  <2>1. CASE a \in 1..Len(answers)
    <3>1. answers'[a].id \in Nat /\ answers'[a].id <= handled
      BY <1>3, <1>4, <2>1
    <3> QED
      BY <1>2, <3>1
  <2>2. CASE a = Len(answers) + 1
    BY <1>1, <1>3, <2>2
  <2> QED
    BY <1>3, <2>1, <2>2
<1> QED
  BY <1>1, <1>3, <1>5

\* A command that is answered at once.
AtOnce(kinds, s) ==
    /\ Take(kinds) /\ s \in Statuses \cup {"error"} /\ Answer(IdOf(Id), s)
    /\ last' \in 0..handled' /\ status' \in Statuses
    /\ place' \in {"prompt", "script", "post mortem", "closed"}
    /\ place' = "prompt" => status' \in {"starting", "break"}
    /\ place' = "script" => Kind \in {"unknown", "stop"}

LEMMA AnsweredAtOnce ==
    ASSUME LoopParts, NEW kinds, NEW s, AtOnce(kinds, s)
    PROVE  LoopParts'
<1> DEFINE n == Len(answers)
<1>1. /\ place \in {"prompt", "post mortem"} /\ buffer' \in Seq(AllPieces)
      /\ handled \in Nat /\ handled' = handled + 1 /\ handled' \in 0..Len(packets)
      /\ WholeFrom(Stream', handled', Len(packets)) /\ Kind \in kinds \cap Commands
      /\ packets' = packets /\ wire' = wire
  BY PacketIsTaken DEF AtOnce
<1>0. handled \in Nat /\ handled' = handled + 1 /\ Id = handled + 1
  BY <1>1 DEF Id
<1>2. IdOf(Id) \in 0..handled' /\ handled <= handled' /\ handled' \in Nat
  <2>1. IdOf(Id) = 0 \/ IdOf(Id) = Id
    BY DEF IdOf
  <2> QED
    BY <1>0, <2>1
<1>3. /\ answers' \in Seq(Reply) /\ n \in Nat /\ Len(answers') = n + 1
      /\ DOMAIN answers = 1..n /\ DOMAIN answers' = 1..(n + 1)
      /\ \A a \in 1..n : answers'[a] = answers[a]
      /\ answers'[n + 1].id = IdOf(Id)
      /\ \A a \in DOMAIN answers' : answers'[a].id <= handled'
  BY <1>2, AnswerIs DEF AtOnce, LoopParts
<1>4. LoopTyped'
  BY <1>1, <1>3 DEF LoopTyped, LoopParts, AtOnce
<1> HIDE DEF n
<1>5. \A k : IdOf(k)' = IdOf(k)
  BY <1>1 DEF IdOf
<1>6. \A k \in 1..handled' : k \in 1..handled \/ k = Id
  BY <1>0
<1>7. EachHasAnswer'
  <2>1. ASSUME NEW k \in 1..handled'
        PROVE  IdOf(k) = 0 \/ \E a \in DOMAIN answers' : answers'[a].id = k
    <3>1. CASE k = Id
      <4>1. IdOf(k) \in {0, k}
        BY DEF IdOf
      <4>2. n + 1 \in DOMAIN answers'
        BY <1>3
      <4> QED
        BY <1>3, <3>1, <4>1, <4>2
    <3>2. CASE k \in 1..handled
      <4>1. IdOf(k) = 0 \/ \E a \in DOMAIN answers : answers[a].id = k
        BY <1>1, <3>2 DEF EachHasAnswer, LoopParts
      <4>2. \A a \in 1..n : a \in 1..(n + 1)
        BY <1>3
      <4> QED
        BY <1>3, <4>1, <4>2
    <3> QED
      BY <1>6, <3>1, <3>2
  <2> QED
    BY <1>5, <2>1 DEF EachHasAnswer
<1>8. AnswersInOrder'
  <2> SUFFICES ASSUME Regular' PROVE place' # "script" /\ (AtPrompt' => InOrder(handled)')
    BY DEF AnswersInOrder
  <2>0. place' = "script" => Kind \in {"unknown", "stop"}
    BY DEF AtOnce
  <2>1. Id \in 1..handled' /\ (\A k \in 1..handled : k \in 1..handled')
    BY <1>0
  <2>2. Regular /\ Kind \notin {"unknown", "stop"}
    BY <1>1, <2>1 DEF Regular, Kind, Id
  <2>3. n = handled /\ \A k \in 1..n : answers[k].id = IdOf(k)
    BY <1>1, <2>2 DEF AnswersInOrder, AtPrompt, InOrder, n, LoopParts
  <2>4. Len(answers') = handled' /\ Id = n + 1
    BY <1>1, <1>3, <2>3 DEF Id
  <2>5. \A k \in 1..handled' : answers'[k].id = IdOf(k)
    BY <1>3, <1>6, <2>3, <2>4
  <2> QED
    BY <1>5, <2>0, <2>2, <2>4, <2>5 DEF InOrder
<1> QED
  BY <1>1, <1>4, <1>7, <1>8 DEF LoopParts

\* A continuation is answered later.
LEMMA ScriptGoesOn == LoopParts /\ Continue => LoopParts'
<1> SUFFICES ASSUME LoopParts, Continue PROVE LoopParts'
  OBVIOUS
<1>1. /\ Take(Continuations) /\ last' = Id /\ status' = "running" /\ answers' = answers
      /\ place' = IF place = "post mortem" THEN "closed" ELSE "script"
  BY DEF Continue, Leave
<1>2. /\ place \in {"prompt", "post mortem"} /\ buffer' \in Seq(AllPieces)
      /\ handled \in Nat /\ handled' = handled + 1 /\ handled' \in 0..Len(packets)
      /\ WholeFrom(Stream', handled', Len(packets)) /\ Kind \in Continuations
      /\ packets' = packets /\ wire' = wire
  BY <1>1, PacketIsTaken
<1>3. Id = handled' /\ Kind = packets[Id] /\ Kind = "run"
  BY <1>2 DEF Kind, Id, Continuations
<1>0. handled \in Nat /\ handled' = handled + 1
  BY <1>2
<1>4. LoopTyped'
  <2>1. \A a \in DOMAIN answers : answers[a].id \in Nat
    <3>1. answers \in Seq(Reply)
      BY DEF LoopTyped, LoopParts
    <3>2. \A a \in DOMAIN answers : answers[a] \in Reply
      BY <3>1, ElementOfSeq, LenProperties
    <3> QED
      BY <3>2 DEF Reply
  <2>2. \A a \in DOMAIN answers : answers[a].id <= handled'
    <3>1. \A a \in DOMAIN answers : answers[a].id <= handled
      BY DEF LoopTyped, LoopParts
    <3> QED
      BY <1>0, <2>1, <3>1
  <2>3. last' \in 0..handled' /\ status' \in Statuses
    <3>1. last' = handled'
      BY <1>1, <1>3
    <3>2. handled' \in 0..handled'
      BY <1>0
    <3>3. status' \in Statuses
      BY <1>1 DEF Statuses
    <3> QED
      BY <3>1, <3>2, <3>3
  <2>4. place' \in {"script", "closed"}
    BY <1>1
  <2> QED
    BY <1>1, <1>2, <2>2, <2>3, <2>4 DEF LoopTyped, LoopParts
<1>5. \A k : IdOf(k)' = IdOf(k)
  BY <1>2 DEF IdOf
<1>6. EachHasAnswer'
  <2>1. \A k \in 1..handled' : k \in 1..handled \/ k = Id
    BY <1>0, <1>3
  <2> QED
    BY <1>1, <1>2, <1>5, <2>1 DEF EachHasAnswer, LoopParts
<1>7. AnswersInOrder'
  <2> SUFFICES ASSUME Regular', place' = "script"
               PROVE  /\ handled' >= 1 /\ last' = handled' /\ IdOf(handled)' = handled'
                      /\ InOrder(handled - 1)'
    BY <1>1 DEF AnswersInOrder, AtPrompt
  <2>1. \A k \in 1..handled : k \in 1..handled'
    BY <1>0
  <2>2. Regular
    BY <1>2, <2>1 DEF Regular
  <2>3. InOrder(handled)
    BY <1>2, <2>2 DEF AnswersInOrder, AtPrompt, LoopParts
  <2>4. handled' - 1 = handled /\ handled' >= 1
    BY <1>0
  <2>5. InOrder(handled - 1)'
    BY <1>1, <1>5, <2>3, <2>4 DEF InOrder
  <2>6. IdOf(handled)' = handled'
    BY <1>2, <1>3 DEF IdOf
  <2> QED
    BY <1>1, <1>3, <2>4, <2>5, <2>6
<1> QED
  BY <1>2, <1>4, <1>6, <1>7 DEF LoopParts

\* What a turn of the loop finds.
LEMMA TurnFinds ==
    ASSUME LoopParts, NEW kinds, Take(kinds)
    PROVE  /\ place \in {"prompt", "post mortem"} /\ (place = "prompt" => status \in {"starting", "break"})
           /\ Kind \in kinds /\ status \in Statuses
           /\ last \in 0..handled' /\ Id \in 0..handled' /\ 0 \in 0..handled'
           /\ IdOf(Id) = IF Kind = "no id" THEN 0 ELSE Id
<1>1. /\ place \in {"prompt", "post mortem"} /\ Kind \in kinds
      /\ handled \in Nat /\ handled' = handled + 1
  BY PacketIsTaken
<1>2. /\ place = "prompt" => status \in {"starting", "break"}
      /\ status \in Statuses /\ last \in 0..handled
  BY DEF LoopParts, LoopTyped
<1>3. last \in 0..handled' /\ handled + 1 \in 0..handled' /\ 0 \in 0..handled'
  <2>1. handled \in Nat /\ last \in 0..handled /\ handled' = handled + 1
    BY <1>1, <1>2
  <2>2. handled + 1 \in 0..handled' /\ 0 \in 0..handled'
    BY <2>1
  <2>3. last \in 0..handled'
    BY <2>1
  <2> QED
    BY <2>2, <2>3
<1>4. IdOf(Id) = IF Kind = "no id" THEN 0 ELSE Id
  BY DEF IdOf, Kind, Id
<1> QED
  BY <1>1, <1>2, <1>3, <1>4 DEF Id

LEMMA RefuseAnswers == LoopParts /\ Refuse => LoopParts'
<1> SUFFICES ASSUME LoopParts, Refuse PROVE LoopParts'
  OBVIOUS
<1>1. /\ Take(Malformed) /\ Answer(IF Kind = "no id" THEN 0 ELSE Id, "error")
      /\ place' = place /\ status' = status /\ last' = last
  BY DEF Refuse
<1>2. AtOnce(Malformed, "error")
  BY <1>1, TurnFinds DEF AtOnce
<1> QED
  BY <1>2, AnsweredAtOnce

LEMMA UnimplementedAnswers == LoopParts /\ Unimplemented => LoopParts'
<1> SUFFICES ASSUME LoopParts, Unimplemented PROVE LoopParts'
  OBVIOUS
<1>1. /\ Take({"unknown"}) /\ Answer(Id, "error") /\ status' = status /\ last' = last
      /\ place' = IF place = "post mortem" THEN "closed" ELSE "script"
  BY DEF Unimplemented, Leave
<1>3. /\ place \in {"prompt", "post mortem"} /\ (place = "prompt" => status \in {"starting", "break"})
      /\ Kind \in {"unknown"} /\ status \in Statuses
      /\ last \in 0..handled' /\ Id \in 0..handled' /\ 0 \in 0..handled'
      /\ IdOf(Id) = IF Kind = "no id" THEN 0 ELSE Id
  BY <1>1, TurnFinds
<1>2. AtOnce({"unknown"}, "error")
  BY <1>1, <1>3 DEF AtOnce
<1> QED
  BY <1>2, AnsweredAtOnce

LEMMA ExecuteAnswers == LoopParts /\ Execute => LoopParts'
<1> SUFFICES ASSUME LoopParts, Execute PROVE LoopParts'
  OBVIOUS
<1> DEFINE K == Commands \ (Continuations \cup Endings \cup Malformed \cup {"unknown"})
<1>1. /\ Take(K) /\ last' = Id /\ status' = status
      /\ \/ /\ status = "stopping" /\ Answer(Id, "error")
            /\ place' = IF place = "post mortem" THEN "closed" ELSE "script"
         \/ Answer(Id, status) /\ place' = place
  BY DEF Execute, Leave
<1>2. Kind \in K
  <2> HIDE DEF K
  <2> QED
    BY <1>1, TurnFinds
<1>5. Kind # "no id"
  BY <1>2 DEF Malformed
<1> HIDE DEF K
<1>3. CASE status = "stopping" /\ Answer(Id, "error") /\ place' = IF place = "post mortem" THEN "closed" ELSE "script"
  <2>1. AtOnce(K, "error")
    BY <1>1, <1>3, <1>5, TurnFinds DEF AtOnce
  <2> QED
    BY <2>1, AnsweredAtOnce
<1>4. CASE Answer(Id, status) /\ place' = place
  <2>1. AtOnce(K, status)
    BY <1>1, <1>4, <1>5, TurnFinds DEF AtOnce
  <2> QED
    BY <2>1, AnsweredAtOnce
<1> QED
  BY <1>1, <1>3, <1>4

LEMMA EndingsAnswer == LoopParts /\ (Stop \/ Detach) => LoopParts'
<1> SUFFICES ASSUME LoopParts, Stop \/ Detach PROVE LoopParts'
  OBVIOUS
<1>1. CASE Stop
  <2>1. /\ Take({"stop"}) /\ last' = Id /\ status' = "stopped" /\ Answer(Id, "stopped")
        /\ place' = IF place = "post mortem" THEN "closed" ELSE "script"
    BY <1>1 DEF Stop, Leave
  <2>4. /\ place \in {"prompt", "post mortem"} /\ (place = "prompt" => status \in {"starting", "break"})
        /\ Kind \in {"stop"} /\ status \in Statuses
        /\ last \in 0..handled' /\ Id \in 0..handled' /\ 0 \in 0..handled'
        /\ IdOf(Id) = IF Kind = "no id" THEN 0 ELSE Id
    BY <2>1, TurnFinds
  <2>2. CASE place = "post mortem"
    <3>1. AtOnce({"stop"}, "stopped")
      BY <2>1, <2>2, <2>4 DEF AtOnce, Statuses
    <3> QED
      BY <3>1, AnsweredAtOnce
  <2>3. CASE place = "prompt"
    <3>1. AtOnce({"stop"}, "stopped")
      BY <2>1, <2>3, <2>4 DEF AtOnce, Statuses
    <3> QED
      BY <3>1, AnsweredAtOnce
  <2> QED
    BY <2>2, <2>3, <2>4
<1>2. CASE Detach
  <2>1. /\ Take({"detach"}) /\ last' = 0 /\ status' = "stopping" /\ place' = "closed"
        /\ Answer(Id, "stopping")
    BY <1>2 DEF Detach
  <2>3. /\ place \in {"prompt", "post mortem"} /\ (place = "prompt" => status \in {"starting", "break"})
        /\ Kind \in {"detach"} /\ status \in Statuses
        /\ last \in 0..handled' /\ Id \in 0..handled' /\ 0 \in 0..handled'
        /\ IdOf(Id) = IF Kind = "no id" THEN 0 ELSE Id
    BY <2>1, TurnFinds
  <2>2. AtOnce({"detach"}, "stopping")
    BY <2>1, <2>3 DEF AtOnce, Statuses
  <2> QED
    BY <2>2, AnsweredAtOnce
<1> QED
  BY <1>1, <1>2

\* The last command is answered when the script stops or ends.
ByScript(s) ==
    /\ place = "script" /\ Answer(last, s) /\ last' \in {0, last}
    /\ place' \in {"prompt", "post mortem"} /\ s \in Statuses /\ status' = s
    /\ place' = "prompt" => s = "break"
    /\ packets' = packets /\ wire' = wire /\ buffer' = buffer /\ handled' = handled

LEMMA AnsweredByScript ==
    ASSUME LoopParts, NEW s, ByScript(s)
    PROVE  LoopParts'
<1> DEFINE n == Len(answers)
<1>1. /\ handled \in Nat /\ last \in 0..handled /\ last' \in 0..handled
      /\ handled' = handled /\ handled <= handled'
  <2>1. packets \in Seq(Commands) /\ handled \in 0..Len(packets) /\ last \in 0..handled
    BY DEF LoopParts, LoopTyped
  <2>2. Len(packets) \in Nat
    BY <2>1, LenProperties
  <2>3. handled' = handled /\ last' \in {0, last}
    BY DEF ByScript
  <2>4. handled \in Nat
    BY <2>1, <2>2
  <2>5. 0 \in 0..handled /\ handled <= handled
    BY <2>4
  <2> QED
    BY <2>1, <2>3, <2>4, <2>5
<1>2. /\ answers' \in Seq(Reply) /\ n \in Nat /\ Len(answers') = n + 1
      /\ DOMAIN answers = 1..n /\ DOMAIN answers' = 1..(n + 1)
      /\ \A a \in 1..n : answers'[a] = answers[a]
      /\ answers'[n + 1].id = last
      /\ \A a \in DOMAIN answers' : answers'[a].id <= handled'
  <2>1. LoopTyped /\ s \in Statuses \cup {"error"} /\ Answer(last, s)
    BY DEF ByScript, LoopParts
  <2>2. last \in 0..handled' /\ handled' \in Nat
    BY <1>1
  <2> QED
    BY <1>1, <2>1, <2>2, AnswerIs
<1> HIDE DEF n
<1>3. LoopTyped'
  BY <1>1, <1>2 DEF LoopTyped, LoopParts, ByScript
<1>4. place' # "closed" => WholeFrom(Stream', handled', Len(packets'))
  BY DEF LoopParts, ByScript, Stream
<1>5. /\ \A k : IdOf(k)' = IdOf(k)
      /\ Regular' = Regular
  BY DEF IdOf, Regular, ByScript
<1>6. EachHasAnswer'
  <2>1. ASSUME NEW k \in 1..handled
        PROVE  IdOf(k) = 0 \/ \E a \in DOMAIN answers' : answers'[a].id = k
    <3>1. IdOf(k) = 0 \/ (\E a \in DOMAIN answers : answers[a].id = k) \/ last = k
      BY DEF EachHasAnswer, LoopParts, ByScript
    <3>2. n + 1 \in DOMAIN answers' /\ \A a \in 1..n : a \in DOMAIN answers'
      BY <1>2
    <3> QED
      BY <1>2, <3>1, <3>2
  <2> QED
    BY <1>1, <1>5, <2>1 DEF EachHasAnswer
<1>7. AnswersInOrder'
  <2> SUFFICES ASSUME Regular' PROVE place' # "script" /\ InOrder(handled)'
    BY DEF AnswersInOrder
  <2>1. /\ handled >= 1 /\ last = handled /\ IdOf(handled) = handled /\ n = handled - 1
        /\ \A k \in 1..(handled - 1) : answers[k].id = IdOf(k)
    BY <1>5 DEF LoopParts, AnswersInOrder, ByScript, InOrder, n
  <2>2. Len(answers') = handled
    BY <1>1, <1>2, <2>1
  <2>3. ASSUME NEW k \in 1..handled PROVE answers'[k].id = IdOf(k)
    <3>1. CASE k = handled
      <4>1. k = n + 1
        BY <1>1, <2>1, <3>1
      <4> QED
        BY <1>2, <2>1, <3>1, <4>1
    <3>2. CASE k # handled
      <4>1. k \in 1..(handled - 1) /\ k \in 1..n
        BY <1>1, <2>1, <3>2
      <4> QED
        BY <1>2, <2>1, <4>1
    <3> QED
      BY <3>1, <3>2
  <2>4. place' # "script"
    BY DEF ByScript
  <2> QED
    BY <1>1, <1>5, <2>2, <2>3, <2>4 DEF InOrder
<1> QED
  BY <1>3, <1>4, <1>6, <1>7 DEF LoopParts

\* As long as nothing is taken and nothing answered, what there is stays answered.
LEMMA AnswersStay ==
    ASSUME LoopParts, handled' = handled, last' = last, answers' = answers,
           place' = place \/ place' = "closed",
           \A k \in 1..handled : packets'[k] = packets[k]
    PROVE  EachHasAnswer' /\ AnswersInOrder'
<1>1. handled' = handled /\ last' = last /\ answers' = answers
  OBVIOUS
<1>2. \A k \in 1..handled : IdOf(k)' = IdOf(k)
  BY DEF IdOf
<1>3. EachHasAnswer'
  BY <1>1, <1>2 DEF LoopParts, EachHasAnswer
<1>4. AnswersInOrder'
  <2> SUFFICES ASSUME Regular', place' # "closed"
               PROVE  /\ AtPrompt' => InOrder(handled)'
                      /\ place' = "script" =>
                            handled' >= 1 /\ last' = handled' /\ IdOf(handled)' = handled' /\ InOrder(handled - 1)'
    BY DEF AnswersInOrder, AtPrompt
  <2>1. Regular /\ place' = place
    BY <1>1 DEF Regular
  <2>2. AtPrompt' => InOrder(handled)'
    BY <1>1, <1>2, <2>1 DEF LoopParts, AnswersInOrder, AtPrompt, InOrder
  <2>3. ASSUME place' = "script"
        PROVE  handled' >= 1 /\ last' = handled' /\ IdOf(handled)' = handled' /\ InOrder(handled - 1)'
    <3>1. handled >= 1 /\ last = handled /\ IdOf(handled) = handled /\ InOrder(handled - 1)
      BY <2>1, <2>3 DEF LoopParts, AnswersInOrder
    <3>2. handled \in Nat
      <4>1. packets \in Seq(Commands) /\ handled \in 0..Len(packets)
        BY DEF LoopParts, LoopTyped
      <4>2. Len(packets) \in Nat
        BY <4>1, LenProperties
      <4> QED
        BY <4>1, <4>2
    <3>3. handled \in 1..handled /\ \A k \in 1..(handled - 1) : k \in 1..handled
      BY <3>1, <3>2
    <3>4. IdOf(handled)' = handled'
      BY <1>1, <1>2, <3>1, <3>3
    <3>5. InOrder(handled - 1)'
      BY <1>1, <1>2, <3>1, <3>3 DEF InOrder
    <3> QED
      BY <1>1, <3>1, <3>4, <3>5
  <2> QED
    BY <2>2, <2>3
<1> QED
  BY <1>3, <1>4

LEMMA SendPacketKeeps == ASSUME LoopParts, NEW kind \in Commands, SendPacket(kind) PROVE LoopParts'
<1>1. /\ packets' = Append(packets, kind) /\ wire' = wire \o Pieces(Len(packets) + 1)
      /\ buffer' = buffer /\ handled' = handled /\ place' = place /\ status' = status
      /\ last' = last /\ answers' = answers
  BY DEF SendPacket
<1>2. /\ packets \in Seq(Commands) /\ handled \in 0..Len(packets)
      /\ wire \in Seq(AllPieces) /\ buffer \in Seq(AllPieces)
  BY DEF LoopParts, LoopTyped
<1> DEFINE n == Len(packets)
<1>3. /\ packets' \in Seq(Commands) /\ n \in Nat /\ Len(packets') = n + 1
      /\ \A k \in 1..n : packets'[k] = packets[k]
  BY <1>1, <1>2, PushIs
<1>4. handled \in 0..n /\ handled \in 0..(n + 1) /\ \A k \in 1..handled : k \in 1..n
  <2>1. handled \in 0..n
    BY <1>2
  <2> HIDE DEF n
  <2> QED
    BY <1>3, <2>1
<1>5. EachHasAnswer' /\ AnswersInOrder'
  BY <1>1, <1>3, <1>4, AnswersStay
<1>6. wire' \in Seq(AllPieces) /\ (place' # "closed" => WholeFrom(Stream', handled', Len(packets')))
  <2>1. CASE place = "closed"
    <3>1. Pieces(n + 1) \in Seq(AllPieces)
      BY <1>3 DEF Pieces, AllPieces
    <3>2. wire \o Pieces(n + 1) \in Seq(AllPieces)
      BY <1>2, <3>1, ConcatIs
    <3> QED
      BY <1>1, <2>1, <3>2
  <2>2. CASE place # "closed"
    <3>1. WholeFrom(buffer \o wire, handled, n)
      BY <2>2 DEF LoopParts, Stream
    <3>2. /\ wire \o Pieces(n + 1) \in Seq(AllPieces)
          /\ WholeFrom(buffer \o (wire \o Pieces(n + 1)), handled, n + 1)
      BY <1>2, <1>3, <1>4, <3>1, PacketExtends
    <3> QED
      BY <1>1, <1>3, <3>2 DEF Stream
  <2> QED
    BY <2>1, <2>2
<1>7. LoopTyped'
  BY <1>1, <1>3, <1>4, <1>6 DEF LoopParts, LoopTyped
<1> QED
  BY <1>5, <1>6, <1>7 DEF LoopParts

LEMMA ReceiveKeeps ==
    ASSUME LoopParts, NEW n \in 1..MaxReceived, Receive(n)
    PROVE  LoopParts'
<1>1. /\ n <= Len(wire) /\ buffer' = buffer \o SubSeq(wire, 1, n)
      /\ wire' = SubSeq(wire, n + 1, Len(wire))
      /\ packets' = packets /\ handled' = handled /\ place' = place /\ status' = status
      /\ last' = last /\ answers' = answers
  BY DEF Receive
<1>2. wire \in Seq(AllPieces) /\ buffer \in Seq(AllPieces)
  BY DEF LoopParts, LoopTyped
<1>3. n \in Nat /\ n >= 1
  OBVIOUS
<1>4. buffer' \in Seq(AllPieces) /\ wire' \in Seq(AllPieces) /\ buffer' \o wire' = buffer \o wire
  BY <1>1, <1>2, <1>3, ReceivingKeeps
<1>5. EachHasAnswer' /\ AnswersInOrder'
  BY <1>1, AnswersStay
<1>6. LoopTyped'
  BY <1>1, <1>4 DEF LoopParts, LoopTyped
<1> QED
  BY <1>1, <1>4, <1>5, <1>6 DEF LoopParts, Stream

LEMMA LoseKeeps == LoopParts /\ Lose => LoopParts'
<1> SUFFICES ASSUME LoopParts, Lose PROVE LoopParts'
  OBVIOUS
<1>1. /\ buffer' = << >> /\ place' = "closed" /\ packets' = packets /\ wire' = wire
      /\ handled' = handled /\ status' = status /\ last' = last /\ answers' = answers
  BY DEF Lose
<1>2. EachHasAnswer' /\ AnswersInOrder'
  BY <1>1, AnswersStay
<1>3. << >> \in Seq(AllPieces)
  OBVIOUS
<1>4. LoopTyped'
  BY <1>1, <1>3 DEF LoopParts, LoopTyped
<1> QED
  BY <1>1, <1>2, <1>4 DEF LoopParts

\* A step of the loop.
LEMMA LoopStep == LoopParts /\ [LoopNext]_loopVars => LoopParts'
<1> SUFFICES ASSUME LoopParts, [LoopNext]_loopVars PROVE LoopParts'
  OBVIOUS
<1>1. CASE \E kind \in Commands : SendPacket(kind)
  BY <1>1, SendPacketKeeps
<1>2. CASE \E n \in 1..MaxReceived : Receive(n)
  BY <1>2, ReceiveKeeps
<1>3. CASE Lose
  BY <1>3, LoseKeeps
<1>4. CASE Refuse
  BY <1>4, RefuseAnswers
<1>5. CASE Unimplemented
  BY <1>5, UnimplementedAnswers
<1>6. CASE Execute
  BY <1>6, ExecuteAnswers
<1>7. CASE Continue
  BY <1>7, ScriptGoesOn
<1>8. CASE Stop \/ Detach
  BY <1>8, EndingsAnswer
<1>9. CASE Break
  <2>1. ByScript("break")
    BY <1>9 DEF Break, ByScript, Statuses
  <2> QED
    BY <2>1, AnsweredByScript
<1>10. CASE ScriptEnds
  <2>1. ByScript("stopping")
    BY <1>10 DEF ScriptEnds, ByScript, Statuses
  <2> QED
    BY <2>1, AnsweredByScript
<1>11. CASE UNCHANGED loopVars
  <2>1. /\ packets' = packets /\ wire' = wire /\ buffer' = buffer /\ handled' = handled
        /\ place' = place /\ status' = status /\ last' = last /\ answers' = answers
    BY <1>11 DEF loopVars
  <2>2. EachHasAnswer' /\ AnswersInOrder'
    BY <2>1, AnswersStay
  <2> QED
    BY <2>1, <2>2 DEF LoopParts, LoopTyped, Stream
<1> QED
  BY <1>1, <1>2, <1>3, <1>4, <1>5, <1>6, <1>7, <1>8, <1>9, <1>10, <1>11 DEF LoopNext

LEMMA PiecesAreWhole ==
    ASSUME NEW s \in Seq(AllPieces), NEW n \in Nat, NEW h \in 0..n, WholeFrom(s, h, n)
    PROVE  /\ Len(s) = 2 * (n - h)
           /\ \A k \in 1..(n - h) : SubSeq(s, 2 * k - 1, 2 * k) = Pieces(h + k)
<1>1. Len(s) = 2 * (n - h)
  BY DEF WholeFrom
<1>2. ASSUME NEW k \in 1..(n - h) PROVE SubSeq(s, 2 * k - 1, 2 * k) = Pieces(h + k)
  <2> DEFINE i == 2 * k - 1
             t == SubSeq(s, i, i + 1)
             p == Pieces(h + k)
  <2>1. i \in 1..Len(s) /\ i + 1 \in 1..Len(s) /\ i + 1 = 2 * k /\ i \in Int /\ i + 1 \in Int
    BY <1>1
  <2>2. s[i] = <<h + k, "text">> /\ s[i + 1] = <<h + k, "nul">>
    BY <2>1 DEF WholeFrom
  <2>3. h + k \in Nat
    OBVIOUS
  <2>4. p \in Seq(AllPieces) /\ Len(p) = 2 /\ p[1] = <<h + k, "text">> /\ p[2] = <<h + k, "nul">>
    BY <2>3 DEF Pieces, AllPieces
  <2> HIDE DEF i, p
  <2>5. \A j \in i..(i + 1) : s[j] \in AllPieces
    <3>1. \A j \in i..(i + 1) : j \in 1..Len(s)
      BY <2>1
    <3> QED
      BY <3>1, ElementOfSeq
  <2>6. /\ t \in Seq(AllPieces)
        /\ Len(t) = IF i <= i + 1 THEN (i + 1) - i + 1 ELSE 0
        /\ \A j \in 1..((i + 1) - i + 1) : t[j] = s[i + j - 1]
    BY <2>1, <2>5, SubSeqProperties
  <2> HIDE DEF t
  <2>7. Len(t) = 2 /\ t[1] = s[i] /\ t[2] = s[i + 1]
    <3>1. (i + 1) - i + 1 = 2 /\ i <= i + 1 /\ 1 \in 1..2 /\ 2 \in 1..2 /\ i + 1 - 1 = i /\ i + 2 - 1 = i + 1
      BY <2>1
    <3>2. \A j \in 1..2 : t[j] = s[i + j - 1]
      BY <2>6, <3>1
    <3> QED
      BY <2>6, <3>1, <3>2
  <2>8. \A j \in 1..2 : t[j] = p[j]
    <3>1. t[1] = p[1] /\ t[2] = p[2]
      BY <2>2, <2>4, <2>7
    <3>2. \A j \in 1..2 : j = 1 \/ j = 2
      OBVIOUS
    <3> QED
      BY <3>1, <3>2
  <2>9. t = p
    BY <2>4, <2>6, <2>7, <2>8, SeqEqual
  <2> QED
    BY <2>1, <2>9 DEF t, p
<1> QED
  BY <1>1, <1>2

LEMMA PartsGiveStream == LoopParts => StreamIsWhole
<1> SUFFICES ASSUME LoopParts, place # "closed"
             PROVE  /\ Len(buffer \o wire) = 2 * (Len(packets) - handled)
                    /\ \A k \in 1..(Len(packets) - handled) :
                          SubSeq(buffer \o wire, 2 * k - 1, 2 * k) = Pieces(handled + k)
  BY DEF StreamIsWhole
<1>1. /\ packets \in Seq(Commands) /\ handled \in 0..Len(packets)
      /\ wire \in Seq(AllPieces) /\ buffer \in Seq(AllPieces)
  BY DEF LoopParts, LoopTyped
<1>2. Len(packets) \in Nat /\ buffer \o wire \in Seq(AllPieces)
  BY <1>1, LenProperties, ConcatIs
<1>3. WholeFrom(buffer \o wire, handled, Len(packets))
  BY DEF LoopParts, Stream
<1> QED
  BY <1>1, <1>2, <1>3, PiecesAreWhole

LEMMA PartsGiveAnswers == LoopParts => AnswersMatchCommands
<1> DEFINE done  == SubSeq(packets, 1, handled)
           Shown == [k \in 1..handled |-> IF done[k] = "no id" THEN 0 ELSE k]
           ids   == [k \in DOMAIN answers |-> answers[k].id]
<1> SUFFICES ASSUME LoopParts, AtPrompt
             PROVE  /\ ToSet(Shown) \subseteq ToSet(ids) \cup {0}
                    /\ {"unknown", "stop"} \cap ToSet(done) = {} => ids = Shown
  BY DEF AnswersMatchCommands
<1>1. /\ packets \in Seq(Commands) /\ handled \in 0..Len(packets) /\ answers \in Seq(Reply)
      /\ place # "closed" /\ place # "script"
  BY DEF LoopParts, LoopTyped, AtPrompt
<1>2. Len(packets) \in Nat /\ handled \in Nat /\ DOMAIN answers = 1..Len(answers) /\ Len(answers) \in Nat
  <2>1. Len(packets) \in Nat
    BY <1>1, LenProperties
  <2>2. handled \in Nat
    BY <1>1, <2>1
  <2>3. DOMAIN answers = 1..Len(answers) /\ Len(answers) \in Nat
    BY <1>1, LenProperties
  <2> QED
    BY <2>1, <2>2, <2>3
<1>3. DOMAIN done = 1..handled /\ \A k \in 1..handled : done[k] = packets[k]
  <2>1. \A k \in 1..handled : k \in 1..Len(packets)
    BY <1>1, <1>2
  <2>2. \A k \in 1..handled : packets[k] \in Commands
    BY <1>1, <2>1, ElementOfSeq
  <2>3. 1 \in Int /\ handled \in Int
    BY <1>2
  <2>4. /\ done \in Seq(Commands)
        /\ Len(done) = IF 1 <= handled THEN handled - 1 + 1 ELSE 0
        /\ \A k \in 1..(handled - 1 + 1) : done[k] = packets[1 + k - 1]
    BY <2>2, <2>3, SubSeqProperties
  <2> HIDE DEF done
  <2>5. Len(done) = handled
    BY <1>2, <2>4
  <2>6. \A k \in 1..handled : k \in 1..(handled - 1 + 1) /\ 1 + k - 1 = k
    BY <1>2
  <2>7. DOMAIN done = 1..Len(done)
    BY <2>4, LenProperties
  <2> QED
    BY <2>4, <2>5, <2>6, <2>7
<1> HIDE DEF done
<1>4. DOMAIN Shown = 1..handled /\ \A k \in 1..handled : Shown[k] = IdOf(k)
  BY <1>3 DEF IdOf
<1>5. DOMAIN ids = DOMAIN answers /\ \A a \in DOMAIN answers : ids[a] = answers[a].id
  OBVIOUS
<1> HIDE DEF Shown, ids
<1>6. ToSet(Shown) \subseteq ToSet(ids) \cup {0}
  <2>1. ASSUME NEW k \in 1..handled PROVE Shown[k] \in ToSet(ids) \cup {0}
    <3>1. IdOf(k) \in {0, k}
      BY DEF IdOf
    <3>2. IdOf(k) = 0 \/ \E a \in DOMAIN answers : answers[a].id = k
      BY <1>1 DEF LoopParts, EachHasAnswer
    <3> QED
      BY <1>4, <1>5, <3>1, <3>2 DEF ToSet
  <2> QED
    BY <1>4, <2>1 DEF ToSet
<1>7. ASSUME {"unknown", "stop"} \cap ToSet(done) = {} PROVE ids = Shown
  <2>1. Regular
    BY <1>3, <1>7 DEF Regular, ToSet
  <2>2. Len(answers) = handled /\ \A k \in 1..handled : answers[k].id = IdOf(k)
    BY <2>1 DEF LoopParts, AnswersInOrder, InOrder
  <2>3. DOMAIN ids = DOMAIN Shown /\ \A k \in DOMAIN ids : ids[k] = Shown[k]
    BY <1>2, <1>4, <1>5, <2>2
  <2> QED
    BY <2>3 DEF ids, Shown
<1> QED
  BY <1>6, <1>7

\* The type invariant of CommandLoop: no answer names a command that was not handled,
\* and the loop waits only while the script stands still.
THEOREM LoopTypeCorrect == LoopSpec => []LoopTypeOK
<1>1. LoopParts => LoopTypeOK
  <2> SUFFICES ASSUME LoopParts PROVE \A k \in DOMAIN answers : answers[k].id \in 0..handled
    BY DEF LoopParts, LoopTyped, LoopTypeOK, Statuses
  <2>1. packets \in Seq(Commands) /\ handled \in 0..Len(packets) /\ answers \in Seq(Reply)
    BY DEF LoopParts, LoopTyped
  <2>2. Len(packets) \in Nat
    BY <2>1, LenProperties
  <2>3. handled \in Nat
    BY <2>1, <2>2
  <2>4. ASSUME NEW k \in DOMAIN answers PROVE answers[k].id \in 0..handled
    <3>1. answers[k] \in Reply
      BY <2>1, ElementOfSeq, LenProperties
    <3>2. answers[k].id \in Nat
      BY <3>1 DEF Reply
    <3>3. answers[k].id <= handled
      BY DEF LoopParts, LoopTyped
    <3> QED
      BY <2>3, <3>2, <3>3
  <2> QED
    BY <2>4
<1> QED
  BY <1>1, LoopInitHolds, LoopStep, PTL DEF LoopSpec

\* Whatever the client sends and in whatever pieces it arrives, nothing of it is lost,
\* read twice or read out of turn by xdebug_fd_read_line_delim().
THEOREM StreamStaysWhole == LoopSpec => []StreamIsWhole
BY PartsGiveStream, LoopInitHolds, LoopStep, PTL DEF LoopSpec

\* When xdebug_dbgp_cmdloop() waits for a command, those before it have been answered,
\* in their order as long as none was unknown and none a stop.
THEOREM CommandsAreAnswered == LoopSpec => []AnswersMatchCommands
BY PartsGiveAnswers, LoopInitHolds, LoopStep, PTL DEF LoopSpec

-----------------------------------------------------------------------------
(* The start decision.                                                     *)

Eligible(r) == conf.mode # "no" /\ ~Ignored(r)

\* What RINIT leaves for the second decision.
Decided(r) ==
    /\ asked <=> /\ Eligible(r)
                 /\ \/ startResult = "yes" \/ conf.mode = "yes"
                    \/ conf.mode = "trigger" /\ Trigger(r) # NotFound
    /\ startResult \in IF Eligible(r) THEN {"yes", "no"} ELSE {"unchecked"}
    /\ (Eligible(r) /\ conf.mode = "trigger" /\ startResult = "no" /\ Trigger(r) # NotFound)
         => ideKey = Trigger(r)
    /\ askedKey = ideKey

DecidedOnce ==
    /\ conf \in StartSettings /\ asked \in BOOLEAN
    /\ stage = "started" => \A r \in {request} : Decided(r)
    /\ stage = "running" => (begun <=> asked) /\ begun \in BOOLEAN /\ (begun => begunKey = askedKey)

\* What a request says it says until the settings change.
LEMMA SaysTheSame ==
    ASSUME conf' = conf, NEW r
    PROVE  /\ Eligible(r)' = Eligible(r) /\ Trigger(r)' = Trigger(r)
           /\ (Ignored(r)' <=> Ignored(r)) /\ TriggerOf(r)' = TriggerOf(r)
<1>1. \A name : InGlobals(r, name)' = InGlobals(r, name)
  BY DEF InGlobals
<1> DEFINE I == {i \in 1..Len(Ignores) : InGlobals(r, Ignores[i]) # NotFound}
           T == {i \in 1..Len(Triggers) : InGlobals(r, Triggers[i]) # NotFound}
           k == IF I # {} THEN Min(I) ELSE 0
           t == IF T # {} THEN Min(T) ELSE 0
           ignore == IF k = 0 THEN << >> ELSE <<Ignores[k], InGlobals(r, Ignores[k])>>
           found  == IF t = 0 THEN << >> ELSE <<Triggers[t], InGlobals(r, Triggers[t])>>
<1>2. I' = I /\ T' = T
  BY <1>1
<1> HIDE DEF I, T
<1>3. k' = k /\ t' = t
  BY <1>2
<1> HIDE DEF k, t
<1>4. ignore' = ignore /\ found' = found
  BY <1>1, <1>3
<1>5. Ignored(r) <=> ignore # << >> /\ ignore[2] \notin {"no", "0"}
  BY DEF Ignored, FirstNamed, SelectInSeq, ignore, k, I
<1>6. TriggerOf(r) = found
  BY DEF TriggerOf, FirstNamed, SelectInSeq, found, t, T
<1>7. Ignored(r)' <=> ignore' # << >> /\ ignore'[2] \notin {"no", "0"}
  BY DEF Ignored, FirstNamed, SelectInSeq, ignore, k, I
<1>8. TriggerOf(r)' = found'
  BY DEF TriggerOf, FirstNamed, SelectInSeq, found, t, T
<1> HIDE DEF ignore, found
<1>9. Ignored(r)' <=> Ignored(r)
  BY <1>4, <1>5, <1>7
<1>10. TriggerOf(r)' = TriggerOf(r)
  BY <1>4, <1>6, <1>8
<1>11. Trigger(r)' = Trigger(r)
  BY <1>10 DEF Trigger, HasSecret
<1>12. Eligible(r)' = Eligible(r)
  BY <1>9 DEF Eligible
<1> QED
  BY <1>9, <1>10, <1>11, <1>12

LEMMA DecidedInit == StartInit => DecidedOnce
BY DEF StartInit, DecidedOnce

LEMMA DecidedStep == DecidedOnce /\ [StartNext]_startVars => DecidedOnce'
<1> SUFFICES ASSUME DecidedOnce, [StartNext]_startVars PROVE DecidedOnce'
  OBVIOUS
<1>0. /\ conf \in StartSettings /\ conf.mode \in {"yes", "no", "trigger"}
      /\ asked \in BOOLEAN
  <2>1. conf \in StartSettings
    BY DEF DecidedOnce
  <2>2. asked \in BOOLEAN
    BY DEF DecidedOnce
  <2>3. conf.mode \in {"yes", "no", "trigger"}
    BY <2>1, ModesAssumption DEF ModesAssumption
  <2> QED
    BY <2>1, <2>2, <2>3
<1>1. ASSUME NEW r, Rinit(r) PROVE DecidedOnce'
  <2> DEFINE start    == HandleStart(r, ConfiguredKey, FALSE, "unchecked")
             active   == start.active
             eligible == conf.mode # "no" /\ ~Ignored(r)
             trigger  == IF eligible /\ conf.mode = "trigger" /\ ~active
                         THEN Trigger(r) ELSE NotFound
  <2>1. /\ asked' = (eligible /\ (active \/ conf.mode = "yes" \/ trigger # NotFound))
        /\ startResult' = IF eligible THEN Cached(active) ELSE "unchecked"
        /\ eligible /\ trigger # NotFound => ideKey' = trigger
        /\ askedKey' = ideKey' /\ request' = r /\ stage' = "started" /\ conf' = conf
    BY <1>1 DEF Rinit
  <2> DEFINE e == Eligible(r)
             t == Trigger(r)
  <2>2. (eligible <=> e) /\ trigger = IF e /\ conf.mode = "trigger" /\ ~active THEN t ELSE NotFound
    BY DEF Eligible
  <2>3. e' = e /\ t' = t
    BY <2>1, SaysTheSame
  <2> HIDE DEF eligible, active, trigger, e, t
  <2>4. startResult' \in IF e THEN {"yes", "no"} ELSE {"unchecked"}
    BY <2>1, <2>2 DEF Cached
  <2>5. e => (active <=> startResult' = "yes") /\ (~active <=> startResult' = "no")
    BY <2>1, <2>2 DEF Cached
  <2>6. asked' <=> e /\ (startResult' = "yes" \/ conf.mode = "yes" \/ (conf.mode = "trigger" /\ t # NotFound))
    BY <2>1, <2>2, <2>5
  <2>7. e /\ conf.mode = "trigger" /\ startResult' = "no" /\ t # NotFound => ideKey' = t
    BY <2>1, <2>2, <2>5
  <2>8. asked' \in BOOLEAN
    BY <2>1
  <2>9. Decided(r)'
    BY <2>1, <2>3, <2>4, <2>6, <2>7 DEF Decided, e, t
  <2> QED
    BY <1>0, <2>1, <2>8, <2>9 DEF DecidedOnce
<1>2. CASE AtStartup
  <2> DEFINE start   == HandleStart(request, ideKey, headersSent, startResult)
             active  == start.active
             e       == Eligible(request)
             t       == Trigger(request)
             checks  == conf.mode = "trigger" /\ ~Ignored(request)
             trigger == IF checks /\ ~active THEN t ELSE NotFound
  <2>1. /\ stage = "started" /\ stage' = "running" /\ conf' = conf /\ asked' = asked
        /\ askedKey' = askedKey /\ begunKey' = ideKey'
        /\ begun' = (~Ignored(request)
                       /\ (conf.mode = "yes" \/ (checks /\ active) \/ trigger # NotFound))
        /\ ideKey' = CASE trigger # NotFound -> trigger
                       [] trigger = NotFound -> IF checks THEN start.key ELSE ideKey
    BY <1>2 DEF AtStartup
  <2>2. Decided(request)
    BY <2>1 DEF DecidedOnce
  <2>3. checks <=> e /\ conf.mode = "trigger"
    BY DEF Eligible
  <2>4. /\ asked <=> e /\ (startResult = "yes" \/ conf.mode = "yes" \/ (conf.mode = "trigger" /\ t # NotFound))
        /\ startResult \in IF e THEN {"yes", "no"} ELSE {"unchecked"}
        /\ askedKey = ideKey
    BY <2>2 DEF Decided
  <2>5. e /\ conf.mode = "trigger" /\ startResult = "no" /\ t # NotFound => ideKey = t
    BY <2>2 DEF Decided
  <2>6. e => start.key = ideKey /\ (active <=> startResult = "yes")
    BY <2>4 DEF HandleStart
  <2>7. (~Ignored(request) /\ conf.mode = "yes") <=> e /\ conf.mode = "yes"
    BY DEF Eligible
  <2> HIDE DEF start, active, e, t, checks
  <2>8. begun' <=> asked
    <3>1. begun' <=> \/ e /\ conf.mode = "yes"
                     \/ ~Ignored(request) /\ checks /\ active
                     \/ ~Ignored(request) /\ trigger # NotFound
      BY <2>1, <2>7
    <3>2. checks => ~Ignored(request)
      BY DEF checks
    <3>3. (checks /\ active <=> e /\ conf.mode = "trigger" /\ startResult = "yes")
      BY <2>3, <2>6
    <3>4. trigger # NotFound <=> checks /\ ~active /\ t # NotFound
      OBVIOUS
    <3>5. e => conf.mode = "yes" \/ conf.mode = "trigger"
      BY <1>0 DEF e, Eligible
    <3> HIDE DEF trigger
    <3>6. CASE e
      BY <2>3, <2>4, <2>6, <3>1, <3>2, <3>3, <3>4, <3>5, <3>6
    <3>7. CASE ~e
      BY <2>3, <2>4, <3>1, <3>2, <3>4, <3>7
    <3> QED
      BY <3>6, <3>7
  <2>9. begun' => begunKey' = askedKey'
    <3>1. CASE trigger # NotFound
      <4>1. ideKey' = trigger /\ trigger = t /\ checks /\ ~active
        BY <2>1, <3>1
      <4>2. ideKey = t
        BY <2>3, <2>4, <2>5, <2>6, <3>1, <4>1
      <4> QED
        BY <2>1, <2>4, <4>1, <4>2
    <3>2. CASE trigger = NotFound
      <4>1. ideKey' = IF checks THEN start.key ELSE ideKey
        BY <2>1, <3>2
      <4>2. ideKey' = ideKey
        BY <2>3, <2>6, <4>1
      <4> QED
        BY <2>1, <2>4, <4>2
    <3> QED
      BY <3>1, <3>2
  <2>10. begun' \in BOOLEAN
    BY <2>1
  <2> QED
    BY <1>0, <2>1, <2>8, <2>9, <2>10 DEF DecidedOnce
<1>3. ASSUME NEW r, StopNoExec(r) PROVE DecidedOnce'
  BY <1>0, <1>3 DEF StopNoExec, DecidedOnce
<1>4. CASE RequestOver
  BY <1>0, <1>4 DEF RequestOver, Finish, DecidedOnce
<1>5. CASE UNCHANGED startVars
  <2>1. /\ conf' = conf /\ request' = request /\ stage' = stage /\ ideKey' = ideKey
        /\ startResult' = startResult /\ asked' = asked /\ askedKey' = askedKey
        /\ begun' = begun /\ begunKey' = begunKey
    BY <1>5 DEF startVars
  <2>2. \A r : Eligible(r)' = Eligible(r) /\ Trigger(r)' = Trigger(r)
    BY <2>1, SaysTheSame
  <2>3. \A r : Decided(r)' = Decided(r)
    BY <2>1, <2>2 DEF Decided
  <2> QED
    BY <2>1, <2>3 DEF DecidedOnce
<1> QED
  BY <1>1, <1>2, <1>3, <1>4, <1>5 DEF StartNext, Serve

\* The second decision, with the first user code, is the one that RINIT made, under the
\* same key, for every setting and request, even when the headers were sent in between.
THEOREM BothDecisionsAgree == StartSpec => []DecisionsAgree
<1>1. DecidedOnce => DecisionsAgree
  BY DEF DecidedOnce, DecisionsAgree
<1> QED
  BY <1>1, DecidedInit, DecidedStep, PTL DEF StartSpec

\* NotFound is not the value of anything that a lookup can see.
Sane(r) == NotFound \notin PlaceValues(r.GET) \cup PlaceValues(r.POST) \cup PlaceValues(r.COOKIE)
                             \cup PlaceValues(conf.env)

\* A lookup finds the names that are in one of the places, with the value there.
Found(places, name) == \E i \in DOMAIN places : name \in DOMAIN places[i]
FoundAs(places, name, value) ==
    \E i \in DOMAIN places : name \in DOMAIN places[i] /\ value = places[i][name]

LEMMA HitIs ==
    ASSUME NEW places, Len(places) \in Nat, DOMAIN places = 1..Len(places), NEW name,
           \A i \in DOMAIN places : NotFound \notin PlaceValues(places[i])
    PROVE  /\ (FirstHit(places, name) # NotFound) <=> Found(places, name)
           /\ FirstHit(places, name) # NotFound => FoundAs(places, name, FirstHit(places, name))
<1> DEFINE I == {i \in 1..Len(places) : name \in DOMAIN places[i]}
<1>1. CASE I = {}
  <2>1. FirstHit(places, name) = NotFound
    BY <1>1 DEF FirstHit, SelectInSeq
  <2> QED
    BY <1>1, <2>1 DEF Found
<1>2. CASE I # {}
  <2>1. Min(I) \in I
    BY <1>2, MinIs
  <2> DEFINE k == Min(I)
  <2>2. k \in 1..Len(places) /\ k # 0 /\ name \in DOMAIN places[k]
    BY <2>1
  <2>3. FirstHit(places, name) = places[k][name]
    BY <1>2, <2>2 DEF FirstHit, SelectInSeq
  <2> HIDE DEF k
  <2>4. places[k][name] # NotFound
    BY <2>2 DEF PlaceValues
  <2> QED
    BY <2>2, <2>3, <2>4 DEF Found, FoundAs
<1> QED
  BY <1>1, <1>2

LEMMA InGlobalsIs ==
    ASSUME NEW r, Sane(r), NEW name
    PROVE  (InGlobals(r, name) # NotFound) <=>
               name \in DOMAIN r.GET \cup DOMAIN r.POST \cup DOMAIN r.COOKIE \cup DOMAIN conf.env
<1> DEFINE places == <<r.GET, r.POST, r.COOKIE, conf.env>>
<1>1. /\ Len(places) = 4 /\ DOMAIN places = 1..4 /\ 1..4 = {1, 2, 3, 4} /\ places[1] = r.GET
      /\ places[2] = r.POST /\ places[3] = r.COOKIE /\ places[4] = conf.env
  OBVIOUS
<1>2. InGlobals(r, name) = FirstHit(places, name)
  BY DEF InGlobals
<1> HIDE DEF places
<1>3. \A i \in DOMAIN places : NotFound \notin PlaceValues(places[i])
  BY <1>1 DEF Sane
<1>4. (FirstHit(places, name) # NotFound) <=> Found(places, name)
  BY <1>1, <1>3, HitIs
<1> QED
  BY <1>1, <1>2, <1>4 DEF Found

LEMMA InTrackVarsIs ==
    ASSUME NEW r, Sane(r), NEW name
    PROVE  /\ (InTrackVars(r, name) # NotFound) <=>
                (name \in DOMAIN r.GET \cup DOMAIN r.POST
                            \cup (IF conf.envTracked THEN DOMAIN conf.env ELSE {}))
           /\ InTrackVars(r, name) # NotFound =>
                \E p \in {r.GET, r.POST, conf.env} :
                    name \in DOMAIN p /\ InTrackVars(r, name) = p[name]
<1> DEFINE env    == IF conf.envTracked THEN conf.env ELSE Nothing
           places == <<env, r.GET, r.POST>>
           value  == FirstHit(places, name)
<1>1. /\ Len(places) = 3 /\ DOMAIN places = 1..3 /\ 1..3 = {1, 2, 3} /\ places[1] = env
      /\ places[2] = r.GET /\ places[3] = r.POST
  OBVIOUS
<1>2. InTrackVars(r, name) = value
  BY DEF InTrackVars
<1>3. DOMAIN Nothing = {}
  BY DEF Nothing
<1>4. PlaceValues(Nothing) = {}
  BY <1>3 DEF PlaceValues
<1>5. /\ NotFound \notin PlaceValues(env)
      /\ DOMAIN env = (IF conf.envTracked THEN DOMAIN conf.env ELSE {})
      /\ name \in DOMAIN env => env = conf.env
  BY <1>3, <1>4 DEF Sane
<1> HIDE DEF places, env
<1>6. \A i \in DOMAIN places : NotFound \notin PlaceValues(places[i])
  BY <1>1, <1>5 DEF Sane
<1>7. /\ (value # NotFound) <=> Found(places, name)
      /\ value # NotFound => FoundAs(places, name, value)
  BY <1>1, <1>6, HitIs
<1> HIDE DEF value
<1>8. Found(places, name) <=> name \in DOMAIN env \cup DOMAIN r.GET \cup DOMAIN r.POST
  BY <1>1 DEF Found
<1>9. FoundAs(places, name, value) =>
        \E p \in {r.GET, r.POST, conf.env} : name \in DOMAIN p /\ value = p[name]
  BY <1>1, <1>5 DEF FoundAs
<1> QED
  BY <1>2, <1>5, <1>7, <1>8, <1>9

LEMMA InEnvIs ==
    ASSUME NEW r, NotFound \notin PlaceValues(conf.env), NEW name
    PROVE  /\ (InEnv(r, name) # NotFound) <=> name \in DOMAIN conf.env
           /\ InEnv(r, name) # NotFound => InEnv(r, name) = conf.env[name]
<1> DEFINE places == <<conf.env>>
           value  == FirstHit(places, name)
<1>1. Len(places) = 1 /\ DOMAIN places = 1..1 /\ 1..1 = {1} /\ places[1] = conf.env
  OBVIOUS
<1>2. InEnv(r, name) = value
  BY DEF InEnv
<1> HIDE DEF places
<1>3. \A i \in DOMAIN places : NotFound \notin PlaceValues(places[i])
  BY <1>1
<1>4. /\ (value # NotFound) <=> Found(places, name)
      /\ value # NotFound => FoundAs(places, name, value)
  BY <1>1, <1>3, HitIs
<1> HIDE DEF value
<1> QED
  BY <1>1, <1>2, <1>4 DEF Found, FoundAs

\* FirstNamed(), where h gives what each name has.
FirstOf(h, names) ==
    LET k == SelectInSeq(names, LAMBDA name : h[name] # NotFound)
    IN IF k = 0 THEN << >> ELSE <<names[k], h[names[k]]>>

LEMMA FirstOfIs ==
    ASSUME NEW names, Len(names) \in Nat, DOMAIN names = 1..Len(names), NEW h
    PROVE  /\ (FirstOf(h, names) # << >>) <=> (\E i \in DOMAIN names : h[names[i]] # NotFound)
           /\ FirstOf(h, names) # << >> =>
                \E i \in DOMAIN names : /\ h[names[i]] # NotFound
                                        /\ FirstOf(h, names) = <<names[i], h[names[i]]>>
<1> DEFINE I == {i \in 1..Len(names) : h[names[i]] # NotFound}
<1>1. CASE I = {}
  <2>1. FirstOf(h, names) = << >>
    BY <1>1 DEF FirstOf, SelectInSeq
  <2> QED
    BY <1>1, <2>1
<1>2. CASE I # {}
  <2>1. Min(I) \in I
    BY <1>2, MinIs
  <2> DEFINE k == Min(I)
  <2>2. k \in 1..Len(names) /\ k # 0 /\ h[names[k]] # NotFound
    BY <2>1
  <2>3. FirstOf(h, names) = <<names[k], h[names[k]]>>
    BY <1>2, <2>2 DEF FirstOf, SelectInSeq
  <2> HIDE DEF k
  <2>4. <<names[k], h[names[k]]>> # << >>
    OBVIOUS
  <2> QED
    BY <2>2, <2>3, <2>4
<1> QED
  BY <1>1, <1>2

\* What the names that start a session, or ask for one, have.
StartsOf(r) == [name \in ToSet(Starts) |-> InTrackVars(r, name)]
TriggersOf(r) == [name \in ToSet(Triggers) |-> InGlobals(r, name)]
InEnvOf(r, names) == [name \in ToSet(names) |-> InEnv(r, name)]

LEMMA NamesAre ==
    /\ DOMAIN Starts = 1..Len(Starts) /\ Len(Starts) = 2
    /\ DOMAIN Configs = 1..Len(Configs) /\ Len(Configs) = 2
    /\ DOMAIN Triggers = 1..Len(Triggers) /\ Len(Triggers) = 4
    /\ DOMAIN (Starts \o Configs) = 1..Len(Starts \o Configs) /\ Len(Starts \o Configs) = 4
    /\ ToSet(Starts \o Configs) = ToSet(Starts) \cup ToSet(Configs)
    /\ Cookies \subseteq ToSet(Triggers)
<1>1. /\ DOMAIN Starts = 1..Len(Starts) /\ Len(Starts) = 2
      /\ DOMAIN Configs = 1..Len(Configs) /\ Len(Configs) = 2
      /\ DOMAIN Triggers = 1..Len(Triggers) /\ Len(Triggers) = 4
  BY DEF Starts, Configs, Triggers
<1> DEFINE S == {Starts[1], Starts[2], Configs[1], Configs[2]}
<1>2. Starts \in Seq(S) /\ Configs \in Seq(S)
  <2>1. ASSUME NEW T, NEW a \in T, NEW b \in T PROVE <<a, b>> \in Seq(T)
    OBVIOUS
  <2>2. Starts = <<Starts[1], Starts[2]>> /\ Configs = <<Configs[1], Configs[2]>>
    BY DEF Starts, Configs
  <2> HIDE DEF S
  <2>3. Starts[1] \in S /\ Starts[2] \in S /\ Configs[1] \in S /\ Configs[2] \in S
    BY DEF S
  <2> QED
    BY <2>1, <2>2, <2>3
<1>3. /\ Starts \o Configs \in Seq(S)
      /\ Len(Starts \o Configs) = Len(Starts) + Len(Configs)
      /\ \A i \in 1..Len(Starts) + Len(Configs) :
           (Starts \o Configs)[i] = IF i <= Len(Starts) THEN Starts[i] ELSE Configs[i - Len(Starts)]
  BY <1>2, ConcatProperties
<1> DEFINE both == Starts \o Configs
<1>4. DOMAIN both = 1..Len(both) /\ Len(both) = 4
  BY <1>1, <1>3
<1>5. /\ both[1] = Starts[1] /\ both[2] = Starts[2] /\ both[3] = Configs[1] /\ both[4] = Configs[2]
  BY <1>1, <1>3
<1> HIDE DEF both
<1>6. /\ ToSet(both) = {both[1], both[2], both[3], both[4]}
      /\ ToSet(Starts) = {Starts[1], Starts[2]} /\ ToSet(Configs) = {Configs[1], Configs[2]}
  <2>1. 1..4 = {1, 2, 3, 4} /\ 1..2 = {1, 2}
    OBVIOUS
  <2> QED
    BY <1>1, <1>4, <2>1 DEF ToSet
<1>7. ToSet(both) = ToSet(Starts) \cup ToSet(Configs)
  BY <1>5, <1>6
<1>8. Cookies \subseteq ToSet(Triggers)
  <2>1. Triggers[3] = "XDEBUG_SESSION" /\ Triggers[4] = "PHP_DEBUGGER_SESSION"
    BY DEF Triggers
  <2> QED
    BY <1>1, <2>1 DEF Cookies, ToSet
<1> QED
  BY <1>1, <1>4, <1>7, <1>8 DEF both

\* The form that the names of the environment share.
LEMMA NamedInEnv ==
    ASSUME NEW r, NEW names, Len(names) \in Nat, DOMAIN names = 1..Len(names)
    PROVE  FirstNamed(InEnv, r, names) = FirstOf(InEnvOf(r, names), names)
<1> DEFINE h == InEnvOf(r, names)
           I == {i \in 1..Len(names) : InEnv(r, names[i]) # NotFound}
           J == {i \in 1..Len(names) : h[names[i]] # NotFound}
           k == IF I # {} THEN Min(I) ELSE 0
<1>1. \A i \in 1..Len(names) : h[names[i]] = InEnv(r, names[i])
  BY DEF InEnvOf, ToSet
<1>2. I = J
  BY <1>1
<1>3. k = 0 \/ k \in 1..Len(names)
  <2>1. I \in SUBSET Nat
    BY NamesAre
  <2>2. I # {} => Min(I) \in I
    BY <2>1, MinIs
  <2> QED
    BY <2>2
<1>4. FirstNamed(InEnv, r, names) = IF k = 0 THEN << >> ELSE <<names[k], InEnv(r, names[k])>>
  BY DEF FirstNamed, SelectInSeq
<1>5. FirstOf(h, names) = IF k = 0 THEN << >> ELSE <<names[k], h[names[k]]>>
  BY <1>2 DEF FirstOf, SelectInSeq
<1> HIDE DEF k, h
<1>6. FirstNamed(InEnv, r, names) = FirstOf(h, names)
  BY <1>1, <1>3, <1>4, <1>5
<1> QED
  BY <1>6 DEF h

LEMMA StartsNamed ==
    ASSUME NEW r
    PROVE  FirstNamed(InTrackVars, r, Starts) = FirstOf(StartsOf(r), Starts)
<1> DEFINE h == StartsOf(r)
           I == {i \in 1..Len(Starts) : InTrackVars(r, Starts[i]) # NotFound}
           J == {i \in 1..Len(Starts) : h[Starts[i]] # NotFound}
           k == IF I # {} THEN Min(I) ELSE 0
<1>1. \A i \in 1..Len(Starts) : h[Starts[i]] = InTrackVars(r, Starts[i])
  BY NamesAre DEF StartsOf, ToSet
<1>2. I = J
  BY <1>1
<1>3. k = 0 \/ k \in 1..Len(Starts)
  <2>1. I \in SUBSET Nat
    BY NamesAre
  <2>2. I # {} => Min(I) \in I
    BY <2>1, MinIs
  <2> QED
    BY <2>2
<1>4. FirstNamed(InTrackVars, r, Starts)
        = IF k = 0 THEN << >> ELSE <<Starts[k], InTrackVars(r, Starts[k])>>
  BY DEF FirstNamed, SelectInSeq
<1>5. FirstOf(h, Starts) = IF k = 0 THEN << >> ELSE <<Starts[k], h[Starts[k]]>>
  BY <1>2 DEF FirstOf, SelectInSeq
<1> HIDE DEF k, h
<1>6. FirstNamed(InTrackVars, r, Starts) = FirstOf(h, Starts)
  BY <1>1, <1>3, <1>4, <1>5
<1> QED
  BY <1>6 DEF h

LEMMA TriggersNamed == ASSUME NEW r PROVE TriggerOf(r) = FirstOf(TriggersOf(r), Triggers)
<1> DEFINE h == TriggersOf(r)
           I == {i \in 1..Len(Triggers) : InGlobals(r, Triggers[i]) # NotFound}
           J == {i \in 1..Len(Triggers) : h[Triggers[i]] # NotFound}
           k == IF I # {} THEN Min(I) ELSE 0
<1>1. \A i \in 1..Len(Triggers) : h[Triggers[i]] = InGlobals(r, Triggers[i])
  BY NamesAre DEF TriggersOf, ToSet
<1>2. I = J
  BY <1>1
<1>3. k = 0 \/ k \in 1..Len(Triggers)
  <2>1. I \in SUBSET Nat
    BY NamesAre
  <2>2. I # {} => Min(I) \in I
    BY <2>1, MinIs
  <2> QED
    BY <2>2
<1>4. TriggerOf(r) = IF k = 0 THEN << >> ELSE <<Triggers[k], InGlobals(r, Triggers[k])>>
  BY DEF TriggerOf, FirstNamed, SelectInSeq
<1>5. FirstOf(h, Triggers) = IF k = 0 THEN << >> ELSE <<Triggers[k], h[Triggers[k]]>>
  BY <1>2 DEF FirstOf, SelectInSeq
<1> HIDE DEF k, h
<1>6. TriggerOf(r) = FirstOf(h, Triggers)
  BY <1>1, <1>3, <1>4, <1>5
<1> QED
  BY <1>6 DEF h

-----------------------------------------------------------------------------

EnvHas(names) == names \cap DOMAIN conf.env # {}
EnvStarts == EnvHas(ToSet(Starts) \cup ToSet(Configs))

LEMMA NamedWhere ==
    ASSUME NEW r, Sane(r)
    PROVE  /\ FirstNamed(InTrackVars, r, Starts) = << >> => ~Has(r, ToSet(Starts))
           /\ FirstNamed(InTrackVars, r, Starts) # << >> =>
                Has(r, ToSet(Starts)) \/ EnvHas(ToSet(Starts))
           /\ (FirstNamed(InEnv, r, Starts) # << >>) <=> EnvHas(ToSet(Starts))
           /\ (FirstNamed(InEnv, r, Configs) # << >>) <=> EnvHas(ToSet(Configs))
           /\ (FirstNamed(InEnv, r, Starts \o Configs) # << >>) <=> EnvStarts
<1>1. NotFound \notin PlaceValues(conf.env)
  BY DEF Sane
<1>2. ASSUME NEW names, Len(names) \in Nat, DOMAIN names = 1..Len(names)
      PROVE  (FirstNamed(InEnv, r, names) # << >>) <=> EnvHas(ToSet(names))
  <2> DEFINE h == InEnvOf(r, names)
  <2>1. FirstNamed(InEnv, r, names) = FirstOf(h, names)
    BY <1>2, NamedInEnv
  <2>2. \A i \in DOMAIN names : (h[names[i]] # NotFound) <=> names[i] \in DOMAIN conf.env
    BY <1>1, InEnvIs DEF InEnvOf, ToSet
  <2> HIDE DEF h
  <2>3. (FirstOf(h, names) # << >>) <=> (\E i \in DOMAIN names : h[names[i]] # NotFound)
    BY <1>2, FirstOfIs
  <2> QED
    BY <2>1, <2>2, <2>3 DEF EnvHas, ToSet
<1>3. /\ (FirstNamed(InEnv, r, Starts) # << >>) <=> EnvHas(ToSet(Starts))
      /\ (FirstNamed(InEnv, r, Configs) # << >>) <=> EnvHas(ToSet(Configs))
  BY <1>2, NamesAre
<1>4. (FirstNamed(InEnv, r, Starts \o Configs) # << >>) <=> EnvStarts
  <2> DEFINE both == Starts \o Configs
  <2>1. Len(both) \in Nat /\ DOMAIN both = 1..Len(both) /\ ToSet(both) = ToSet(Starts) \cup ToSet(Configs)
    BY NamesAre
  <2> HIDE DEF both
  <2>2. (FirstNamed(InEnv, r, both) # << >>) <=> EnvStarts
    BY <1>2, <2>1 DEF EnvStarts
  <2> QED
    BY <2>2 DEF both
<1>5. /\ FirstNamed(InTrackVars, r, Starts) = << >> => ~Has(r, ToSet(Starts))
      /\ FirstNamed(InTrackVars, r, Starts) # << >> =>
            Has(r, ToSet(Starts)) \/ EnvHas(ToSet(Starts))
  <2> DEFINE h == StartsOf(r)
  <2>1. FirstNamed(InTrackVars, r, Starts) = FirstOf(h, Starts)
    BY StartsNamed
  <2>2. \A i \in DOMAIN Starts : h[Starts[i]] = InTrackVars(r, Starts[i])
    BY DEF StartsOf, ToSet
  <2> HIDE DEF h
  <2>3. (FirstOf(h, Starts) # << >>) <=> (\E i \in DOMAIN Starts : h[Starts[i]] # NotFound)
    BY NamesAre, FirstOfIs
  <2>4. \A i \in DOMAIN Starts :
          (InTrackVars(r, Starts[i]) # NotFound) <=>
             Starts[i] \in DOMAIN r.GET \cup DOMAIN r.POST
                             \cup (IF conf.envTracked THEN DOMAIN conf.env ELSE {})
    BY InTrackVarsIs
  <2> QED
    BY <2>1, <2>2, <2>3, <2>4 DEF Has, EnvHas, ToSet
<1> QED
  BY <1>3, <1>4, <1>5

\* What is found has a value, and an empty one makes the start an empty one.
LEMMA FoundHasValue ==
    ASSUME NEW r, Sane(r)
    PROVE  /\ FirstNamed(InTrackVars, r, Starts) # << >> =>
                LET value == FirstNamed(InTrackVars, r, Starts)[2]
                IN value # NotFound /\ (value = "" => StartsEmpty(r))
           /\ FirstNamed(InEnv, r, Starts) # << >> =>
                LET value == FirstNamed(InEnv, r, Starts)[2]
                IN value # NotFound /\ (value = "" => StartsEmpty(r))
           /\ TriggerOf(r) # << >> => TriggerOf(r)[2] # NotFound
<1>1. FirstNamed(InTrackVars, r, Starts) # << >> =>
         LET value == FirstNamed(InTrackVars, r, Starts)[2]
         IN value # NotFound /\ (value = "" => StartsEmpty(r))
  <2> DEFINE h == StartsOf(r)
             found == FirstOf(h, Starts)
  <2>1. FirstNamed(InTrackVars, r, Starts) = found
    BY StartsNamed
  <2>2. \A i \in DOMAIN Starts : h[Starts[i]] = InTrackVars(r, Starts[i])
    BY DEF StartsOf, ToSet
  <2> HIDE DEF h
  <2>3. SUFFICES ASSUME found # << >>
                 PROVE  found[2] # NotFound /\ (found[2] = "" => StartsEmpty(r))
    BY <2>1
  <2>4. PICK i \in DOMAIN Starts : h[Starts[i]] # NotFound /\ found = <<Starts[i], h[Starts[i]]>>
    BY <2>3, NamesAre, FirstOfIs
  <2> HIDE DEF found
  <2>5. found[2] = InTrackVars(r, Starts[i]) /\ found[2] # NotFound
    BY <2>2, <2>4
  <2>6. \E p \in {r.GET, r.POST, conf.env} : Starts[i] \in DOMAIN p /\ found[2] = p[Starts[i]]
    BY <2>5, InTrackVarsIs
  <2>7. Starts[i] \in ToSet(Starts)
    BY DEF ToSet
  <2> QED
    BY <2>5, <2>6, <2>7 DEF StartsEmpty
<1>2. FirstNamed(InEnv, r, Starts) # << >> =>
         LET value == FirstNamed(InEnv, r, Starts)[2]
         IN value # NotFound /\ (value = "" => StartsEmpty(r))
  <2> DEFINE h == InEnvOf(r, Starts)
             found == FirstOf(h, Starts)
  <2>1. FirstNamed(InEnv, r, Starts) = found
    BY NamesAre, NamedInEnv
  <2>2. \A i \in DOMAIN Starts : h[Starts[i]] = InEnv(r, Starts[i])
    BY DEF InEnvOf, ToSet
  <2> HIDE DEF h
  <2>3. SUFFICES ASSUME found # << >>
                 PROVE  found[2] # NotFound /\ (found[2] = "" => StartsEmpty(r))
    BY <2>1
  <2>4. PICK i \in DOMAIN Starts : h[Starts[i]] # NotFound /\ found = <<Starts[i], h[Starts[i]]>>
    BY <2>3, NamesAre, FirstOfIs
  <2> HIDE DEF found
  <2>5. found[2] = InEnv(r, Starts[i]) /\ found[2] # NotFound
    BY <2>2, <2>4
  <2>6. Starts[i] \in DOMAIN conf.env /\ found[2] = conf.env[Starts[i]]
    BY <2>5, InEnvIs DEF Sane
  <2>7. Starts[i] \in ToSet(Starts)
    BY DEF ToSet
  <2> QED
    BY <2>5, <2>6, <2>7 DEF StartsEmpty
<1>3. TriggerOf(r) # << >> => TriggerOf(r)[2] # NotFound
  <2> DEFINE h == TriggersOf(r)
             found == FirstOf(h, Triggers)
  <2>1. TriggerOf(r) = found
    BY TriggersNamed
  <2> HIDE DEF h
  <2>2. SUFFICES ASSUME found # << >> PROVE found[2] # NotFound
    BY <2>1
  <2>3. PICK i \in DOMAIN Triggers :
            h[Triggers[i]] # NotFound /\ found = <<Triggers[i], h[Triggers[i]]>>
    BY <2>2, NamesAre, FirstOfIs
  <2> HIDE DEF found
  <2> QED
    BY <2>3
<1> QED
  BY <1>1, <1>2, <1>3

\* The session cookies are triggers.
LEMMA CookiesTrigger ==
    ASSUME NEW r, Sane(r), DOMAIN r.COOKIE \subseteq Cookies, DOMAIN r.COOKIE # {}
    PROVE  TriggerOf(r) # << >>
<1> DEFINE h == TriggersOf(r)
<1>1. PICK name \in DOMAIN r.COOKIE : name \in ToSet(Triggers)
  BY NamesAre
<1>2. PICK i \in DOMAIN Triggers : Triggers[i] = name
  BY <1>1 DEF ToSet
<1>3. h[name] = InGlobals(r, name)
  BY <1>1 DEF TriggersOf
<1>4. InGlobals(r, name) # NotFound
  BY InGlobalsIs
<1> HIDE DEF h
<1>5. FirstOf(h, Triggers) # << >>
  BY <1>2, <1>3, <1>4, NamesAre, FirstOfIs
<1> QED
  BY <1>5, TriggersNamed DEF h

LEMMA WithCookieIs ==
    ASSUME NEW cookies, NotFound \notin PlaceValues(cookies), NEW name, NEW value, value # NotFound
    PROVE  /\ DOMAIN WithCookie(cookies, name, value) \subseteq DOMAIN cookies \cup {name}
           /\ NotFound \notin PlaceValues(WithCookie(cookies, name, value))
           /\ value # "" => DOMAIN WithCookie(cookies, name, value) # {}
<1>1. CASE value = ""
  <2> DEFINE D == DOMAIN cookies \ {name}
             after == [n \in D |-> cookies[n]]
  <2>1. WithCookie(cookies, name, value) = after
    BY <1>1 DEF WithCookie, Restrict
  <2>2. DOMAIN after = D /\ \A n \in D : after[n] = cookies[n]
    OBVIOUS
  <2> HIDE DEF after
  <2>3. NotFound \notin PlaceValues(after)
    BY <2>2 DEF PlaceValues
  <2> QED
    BY <1>1, <2>1, <2>2, <2>3
<1>2. CASE value # ""
  <2> DEFINE D == DOMAIN cookies \cup {name}
             after == [n \in D |-> IF n = name THEN value ELSE cookies[n]]
  <2>1. WithCookie(cookies, name, value) = after
    BY <1>2 DEF WithCookie
  <2>2. DOMAIN after = D /\ \A n \in D : after[n] = IF n = name THEN value ELSE cookies[n]
    OBVIOUS
  <2> HIDE DEF after
  <2>3. NotFound \notin PlaceValues(after)
    BY <2>2 DEF PlaceValues
  <2> QED
    BY <2>1, <2>2, <2>3
<1> QED
  BY <1>1, <1>2

LEMMA CookieNameIs == \A name : CookieName(name) \in Cookies
BY DEF CookieName, Cookies

\* A start sets a cookie, unless it is an empty one or the headers are sent, and no
\* request starts a session by accident.
LEMMA SessionStarts ==
    ASSUME NEW r, Sane(r), NEW key, key # NotFound, NotFound \notin PlaceValues(jar)
    PROVE  LET start == StartsSession(r, key, FALSE)
           IN /\ start.active \in BOOLEAN
              /\ DOMAIN start.cookies \subseteq DOMAIN jar \cup Cookies
              /\ NotFound \notin PlaceValues(start.cookies)
              /\ ~start.active => start.cookies = jar
              /\ (~start.active /\ ~HasSecret) => ~Has(r, ToSet(Starts))
              /\ start.active => /\ Carries(r)
                                 /\ StartsEmpty(r) \/ DOMAIN start.cookies # {}
                                 /\ Has(r, ToSet(Starts)) \/ EnvStarts
<1> DEFINE start    == StartsSession(r, key, FALSE)
           variable == FirstNamed(InTrackVars, r, Starts)
           inEnv    == FirstNamed(InEnv, r, Starts)
           config   == FirstNamed(InEnv, r, Configs)
           both     == FirstNamed(InEnv, r, Starts \o Configs)
           Set(n, v) == WithCookie(jar, CookieName(n), v)
<1> DEFINE has    == Has(r, ToSet(Starts))
           eStart == EnvHas(ToSet(Starts))
           eConf  == EnvHas(ToSet(Configs))
<1>1. ASSUME ~HasSecret, variable # << >>
      PROVE  start.active = TRUE /\ start.cookies = Set(variable[1], variable[2])
  BY <1>1 DEF StartsSession
<1>12. ASSUME ~HasSecret, variable = << >>, inEnv # << >>
       PROVE  start.active = TRUE /\ start.cookies = Set(inEnv[1], inEnv[2])
  BY <1>12 DEF StartsSession
<1>13. ASSUME ~HasSecret, variable = << >>, inEnv = << >>, config # << >>, key # ""
       PROVE  start.active = TRUE /\ start.cookies = Set(config[1], key)
  BY <1>13 DEF StartsSession
<1>14. ASSUME HasSecret \/ (variable = << >> /\ inEnv = << >> /\ (config = << >> \/ key = ""))
       PROVE  start.active = FALSE /\ start.cookies = jar
  BY <1>14 DEF StartsSession
<1>2. /\ variable = << >> => ~has
      /\ variable # << >> => has \/ eStart
      /\ (inEnv # << >>) <=> eStart
      /\ (config # << >>) <=> eConf
      /\ (both # << >>) <=> EnvStarts
  BY NamedWhere
<1>3. eStart \/ eConf <=> EnvStarts
  BY DEF EnvHas, EnvStarts
<1>4. Carries(r) <=> \/ TriggerOf(r) # << >> /\ TriggerOf(r)[1] \notin DOMAIN r.COOKIE
                     \/ variable # << >> \/ both # << >>
  BY DEF Carries
<1>5. /\ variable # << >> => variable[2] # NotFound /\ (variable[2] = "" => StartsEmpty(r))
      /\ inEnv # << >> => inEnv[2] # NotFound /\ (inEnv[2] = "" => StartsEmpty(r))
  BY FoundHasValue
<1>6. \A n, v : v # NotFound =>
         /\ DOMAIN Set(n, v) \subseteq DOMAIN jar \cup Cookies
         /\ NotFound \notin PlaceValues(Set(n, v))
         /\ v # "" => DOMAIN Set(n, v) # {}
  <2> TAKE n, v
  <2> HAVE v # NotFound
  <2> DEFINE name == CookieName(n)
  <2>1. name \in Cookies
    BY CookieNameIs
  <2> HIDE DEF name
  <2>2. /\ DOMAIN WithCookie(jar, name, v) \subseteq DOMAIN jar \cup {name}
        /\ NotFound \notin PlaceValues(WithCookie(jar, name, v))
        /\ v # "" => DOMAIN WithCookie(jar, name, v) # {}
    BY WithCookieIs
  <2> QED
    BY <2>1, <2>2 DEF name
<1> HIDE DEF start, variable, inEnv, config, both, Set, has, eStart, eConf
<1>7. CASE HasSecret \/ (variable = << >> /\ inEnv = << >> /\ (config = << >> \/ key = ""))
  <2>1. start.active = FALSE /\ start.cookies = jar
    BY <1>7, <1>14
  <2>2. ~HasSecret => ~has
    BY <1>2, <1>7
  <2> QED
    BY <2>1, <2>2 DEF start, has
<1>8. ASSUME NEW n, NEW v, v # NotFound, v = "" => StartsEmpty(r), ~HasSecret,
             variable # << >> \/ inEnv # << >> \/ config # << >>,
             start.active = TRUE, start.cookies = Set(n, v)
      PROVE  /\ start.active \in BOOLEAN
             /\ DOMAIN start.cookies \subseteq DOMAIN jar \cup Cookies
             /\ NotFound \notin PlaceValues(start.cookies)
             /\ start.active /\ Carries(r)
             /\ StartsEmpty(r) \/ DOMAIN start.cookies # {}
             /\ has \/ EnvStarts
  BY <1>2, <1>3, <1>4, <1>6, <1>8
<1>9. CASE ~HasSecret /\ variable # << >>
  <2>1. start.active = TRUE /\ start.cookies = Set(variable[1], variable[2])
    BY <1>1, <1>9
  <2> QED
    BY <1>5, <1>8, <1>9, <2>1 DEF start, has
<1>10. CASE ~HasSecret /\ variable = << >> /\ inEnv # << >>
  <2>1. start.active = TRUE /\ start.cookies = Set(inEnv[1], inEnv[2])
    BY <1>12, <1>10
  <2> QED
    BY <1>5, <1>8, <1>10, <2>1 DEF start, has
<1>11. CASE ~HasSecret /\ variable = << >> /\ inEnv = << >> /\ config # << >> /\ key # ""
  <2>1. start.active = TRUE /\ start.cookies = Set(config[1], key)
    BY <1>13, <1>11
  <2> DEFINE n == config[1]
  <2>2. start.cookies = Set(n, key) /\ key # NotFound /\ (key = "" => StartsEmpty(r))
    BY <1>11, <2>1
  <2>3. \/ variable # << >> \/ inEnv # << >> \/ config # << >>
    BY <1>11
  <2> HIDE DEF n
  <2>4. /\ DOMAIN start.cookies \subseteq DOMAIN jar \cup Cookies
        /\ NotFound \notin PlaceValues(start.cookies)
        /\ Carries(r) /\ (StartsEmpty(r) \/ DOMAIN start.cookies # {})
        /\ has \/ EnvStarts
    BY <1>2, <1>3, <1>4, <1>6, <1>11, <2>1, <2>2, <2>3
  <2> QED
    BY <2>1, <2>4 DEF start, has
<1> QED
  BY <1>7, <1>9, <1>10, <1>11

LEMMA CarriesTheSame ==
    ASSUME conf' = conf, NEW r
    PROVE  /\ Carries(r)' <=> Carries(r)
           /\ StartsEmpty(r)' <=> StartsEmpty(r)
           /\ \A names : Has(r, names)' <=> Has(r, names)
           /\ Sane(r)' <=> Sane(r)
           /\ EnvStarts' <=> EnvStarts
<1>1. \A name : InTrackVars(r, name)' = InTrackVars(r, name) /\ InEnv(r, name)' = InEnv(r, name)
  BY DEF InTrackVars, InEnv
<1> DEFINE both == Starts \o Configs
           I == {i \in 1..Len(Starts) : InTrackVars(r, Starts[i]) # NotFound}
           J == {i \in 1..Len(both) : InEnv(r, both[i]) # NotFound}
           i == IF I # {} THEN Min(I) ELSE 0
           j == IF J # {} THEN Min(J) ELSE 0
           v == IF i = 0 THEN << >> ELSE <<Starts[i], InTrackVars(r, Starts[i])>>
           w == IF j = 0 THEN << >> ELSE <<both[j], InEnv(r, both[j])>>
<1>2. I' = I /\ J' = J
  BY <1>1
<1> HIDE DEF I, J
<1>3. i' = i /\ j' = j
  BY <1>2
<1> HIDE DEF i, j
<1>4. v' = v /\ w' = w
  BY <1>1, <1>3
<1>5. TriggerOf(r)' = TriggerOf(r)
  BY SaysTheSame
<1>6. /\ FirstNamed(InTrackVars, r, Starts) = v
      /\ FirstNamed(InEnv, r, both) = w
      /\ FirstNamed(InTrackVars, r, Starts)' = v'
      /\ FirstNamed(InEnv, r, both)' = w'
  BY DEF FirstNamed, SelectInSeq, v, w, i, j, I, J
<1>7. /\ Carries(r) <=> \/ TriggerOf(r) # << >> /\ TriggerOf(r)[1] \notin DOMAIN r.COOKIE
                        \/ v # << >> \/ w # << >>
      /\ Carries(r)' <=> \/ TriggerOf(r)' # << >> /\ TriggerOf(r)'[1] \notin DOMAIN r.COOKIE
                         \/ v' # << >> \/ w' # << >>
  BY <1>6 DEF Carries
<1> HIDE DEF v, w
<1>8. Carries(r)' <=> Carries(r)
  BY <1>4, <1>5, <1>7
<1>9. StartsEmpty(r)' <=> StartsEmpty(r)
  BY DEF StartsEmpty
<1>10. \A names : Has(r, names)' <=> Has(r, names)
  BY DEF Has
<1>11. Sane(r)' <=> Sane(r)
  BY DEF Sane
<1>12. EnvStarts' <=> EnvStarts
  BY DEF EnvStarts, EnvHas
<1> QED
  BY <1>8, <1>9, <1>10, <1>11, <1>12

-----------------------------------------------------------------------------
\* The browser's session and its cookie.

Waits == conf.mode = "trigger" /\ ~HasSecret

\* A session has a cookie, and a cookie a session, or the environment starts one.
Stands(kept) ==
    /\ kept = "yes" => DOMAIN jar # {}
    /\ DOMAIN jar # {} => kept # "no" \/ EnvStarts

\* What is left of the session after the request, unless it is stopped.
Kept(r) ==
    IF asked /\ StartsEmpty(r) THEN "unclear"
    ELSE IF asked /\ ~conf.cli /\ ~HasSecret /\ Has(r, ToSet(Starts)) THEN "yes" ELSE sticky

Sticks(r) ==
    ~Ignored(r) => /\ sticky = "yes" => asked
                   /\ asked => sticky # "no" \/ Carries(r)

JarHolds ==
    /\ DOMAIN jar \subseteq Cookies /\ NotFound \notin PlaceValues(jar)
    /\ conf.cli => DOMAIN jar = {}

Stopped(r) == stage = "running" /\ ~Ignored(r) /\ Has(r, StopNames)

CookieStands ==
    /\ JarHolds
    /\ stage \in {"idle", "started", "running"}
    /\ stage # "idle" => headersSent = conf.cli
    /\ Waits /\ stage = "idle" => Stands(sticky)
    /\ Waits /\ stage # "idle" => \A r \in {request} :
         /\ Sticks(r)
         /\ Stopped(r) => DOMAIN jar = {}
         /\ ~Stopped(r) => Stands(Kept(r))

LEMMA CookieInit == StartInit => CookieStands
<1>1. DOMAIN Nothing = {}
  BY DEF Nothing
<1>2. PlaceValues(Nothing) = {}
  BY <1>1 DEF PlaceValues
<1> SUFFICES ASSUME StartInit PROVE CookieStands
  OBVIOUS
<1>3. jar = Nothing /\ stage = "idle" /\ sticky = "no"
  BY DEF StartInit
<1> QED
  BY <1>1, <1>2, <1>3 DEF CookieStands, JarHolds, Stands

\* RINIT, with the request q and the browser's cookies.
LEMMA RinitSticks ==
    ASSUME DecidedOnce, CookieStands, NEW q \in Requests, NEW r,
           r = [GET |-> q.GET, POST |-> q.POST, COOKIE |-> IF conf.cli THEN Nothing ELSE jar],
           Rinit(r)
    PROVE  CookieStands'
<1> DEFINE key     == ConfiguredKey
           start   == StartsSession(r, key, FALSE)
           has     == Has(r, ToSet(Starts))
           empty   == StartsEmpty(r)
           carries == Carries(r)
           found   == TriggerOf(r) # << >>
           env     == EnvStarts
           ignored == Ignored(r)
           eligible == conf.mode # "no" /\ ~ignored
           looked == eligible /\ conf.mode = "trigger" /\ ~start.active
           trigger  == IF looked THEN Trigger(r) ELSE NotFound
<1>1. /\ asked' = (eligible /\ (start.active \/ conf.mode = "yes" \/ trigger # NotFound))
      /\ jar' = IF eligible /\ ~conf.cli THEN start.cookies ELSE jar
      /\ request' = r /\ stage' = "started" /\ headersSent' = conf.cli
      /\ conf' = conf /\ sticky' = sticky /\ stage = "idle"
  BY DEF Rinit, HandleStart
<1>2. conf \in StartSettings
  BY DEF DecidedOnce
<1>3. /\ DOMAIN jar \subseteq Cookies /\ NotFound \notin PlaceValues(jar)
      /\ conf.cli => DOMAIN jar = {}
  BY DEF CookieStands, JarHolds
<1>4. /\ r.GET = q.GET /\ r.POST = q.POST /\ r.COOKIE = IF conf.cli THEN Nothing ELSE jar
  OBVIOUS
<1>5. DOMAIN Nothing = {} /\ PlaceValues(Nothing) = {}
  <2>1. DOMAIN Nothing = {}
    BY DEF Nothing
  <2> QED
    BY <2>1 DEF PlaceValues
<1>6. Sane(r)
  <2>1. NotFound \notin PlaceValues(r.COOKIE)
    BY <1>3, <1>4, <1>5
  <2>2. NotFound \notin PlaceValues(r.GET) \cup PlaceValues(r.POST)
    BY <1>4, ValuesAssumption DEF ValuesAssumption
  <2>3. NotFound \notin PlaceValues(conf.env)
    BY <1>2, ValuesAssumption DEF ValuesAssumption
  <2> QED
    BY <2>1, <2>2, <2>3 DEF Sane
<1>7. key # NotFound
  <2>1. "" # NotFound
    BY DEF NotFound
  <2>2. conf.ideKey # NotFound /\ NotFound \notin PlaceValues(conf.env)
    BY <1>2, ValuesAssumption DEF ValuesAssumption
  <2>3. "DBGP_IDEKEY" \in DOMAIN conf.env => conf.env["DBGP_IDEKEY"] # NotFound
    BY <2>2 DEF PlaceValues
  <2> QED
    BY <2>1, <2>2, <2>3 DEF ConfiguredKey
<1> HIDE DEF key
<1>8. /\ start.active \in BOOLEAN
      /\ DOMAIN start.cookies \subseteq DOMAIN jar \cup Cookies
      /\ NotFound \notin PlaceValues(start.cookies)
      /\ ~start.active => start.cookies = jar
      /\ (~start.active /\ ~HasSecret) => ~has
      /\ start.active => /\ carries
                         /\ empty \/ DOMAIN start.cookies # {}
                         /\ has \/ env
  BY <1>3, <1>6, <1>7, SessionStarts
<1>9. JarHolds'
  BY <1>1, <1>3, <1>8 DEF JarHolds
<1>10. Waits' <=> Waits
  BY <1>1 DEF Waits, HasSecret
<1>11. CASE ~Waits
  BY <1>1, <1>9, <1>10, <1>11 DEF CookieStands
<1>12. CASE Waits
  <2>1. conf.mode = "trigger" /\ ~HasSecret
    BY <1>12 DEF Waits
  <2>2. Stands(sticky)
    BY <1>1, <1>12 DEF CookieStands
  <2> DEFINE old == DOMAIN jar # {}
             new == DOMAIN jar' # {}
             yes == sticky = "yes"
             no  == sticky = "no"
  <2>3. (yes => old) /\ (old => ~no \/ env)
    BY <2>2 DEF Stands
  <2>4. found => TriggerOf(r)[2] # NotFound
    BY <1>6, FoundHasValue
  <2>5. Trigger(r) # NotFound <=> found
    BY <2>1, <2>4 DEF Trigger
  <2>6. old /\ ~conf.cli => found
    BY <1>3, <1>4, <1>6, CookiesTrigger
  <2>7. found => carries \/ (old /\ ~conf.cli)
    BY <1>4, <1>5 DEF Carries
  <2>8. env => carries
    BY <1>6, NamedWhere DEF Carries
  <2>9. /\ Ignored(r)' <=> ignored
        /\ Carries(r)' <=> carries
        /\ StartsEmpty(r)' <=> empty
        /\ Has(r, ToSet(Starts))' <=> has
        /\ EnvStarts' <=> env
        /\ HasSecret' <=> HasSecret
    BY <1>1, SaysTheSame, CarriesTheSame DEF HasSecret
  <2> HIDE DEF has, empty, carries, found, env, ignored
  <2>10. asked' <=> ~ignored /\ (start.active \/ found)
    BY <1>1, <1>8, <2>1, <2>5
  <2>11. new <=> IF ~ignored /\ ~conf.cli THEN DOMAIN start.cookies # {} ELSE old
    BY <1>1, <2>1
  <2> DEFINE active == start.active
             set == DOMAIN start.cookies # {}
  <2>12. /\ active => carries /\ (empty \/ set) /\ (has \/ env)
         /\ ~active => (set <=> old) /\ ~has
         /\ conf.cli => ~old
    BY <1>3, <1>8, <2>1
  <2>13. /\ asked' <=> ~ignored /\ (active \/ found)
         /\ new <=> IF ~ignored /\ ~conf.cli THEN set ELSE old
    BY <2>10, <2>11
  <2> HIDE DEF start, old, new, active, set
  <2>14. Sticks(r)'
    <3>1. ~ignored => (yes => asked') /\ (asked' => ~no \/ carries)
      BY <2>3, <2>6, <2>7, <2>8, <2>12, <2>13
    <3> QED
      BY <1>1, <2>9, <3>1 DEF Sticks
  <2>15. Stands(Kept(r))'
    <3> DEFINE kept == Kept(r)
    <3>1. kept' = IF asked' /\ empty THEN "unclear"
                  ELSE IF asked' /\ ~conf.cli /\ has THEN "yes" ELSE sticky
      BY <1>1, <2>1, <2>9 DEF Kept
    <3> HIDE DEF kept
    <3>2. (kept' = "yes") => new
      <4>1. CASE asked' /\ empty
        BY <3>1, <4>1
      <4>2. CASE ~(asked' /\ empty) /\ asked' /\ ~conf.cli /\ has
        BY <2>12, <2>13, <4>2
      <4>3. CASE ~(asked' /\ empty) /\ ~(asked' /\ ~conf.cli /\ has)
        <5>1. kept' = sticky
          BY <3>1, <4>3
        <5>2. yes => new
          BY <2>3, <2>12, <2>13, <4>3
        <5> QED
          BY <5>1, <5>2
      <4> QED
        BY <4>1, <4>2, <4>3
    <3>3. new => (kept' # "no" \/ env)
      <4>1. CASE asked' /\ empty
        BY <3>1, <4>1
      <4>2. CASE ~(asked' /\ empty) /\ asked' /\ ~conf.cli /\ has
        BY <3>1, <4>2
      <4>3. CASE ~(asked' /\ empty) /\ ~(asked' /\ ~conf.cli /\ has)
        <5>1. kept' = sticky
          BY <3>1, <4>3
        <5>2. new => ~no \/ env
          BY <2>3, <2>12, <2>13, <4>3
        <5> QED
          BY <5>1, <5>2
      <4> QED
        BY <4>1, <4>2, <4>3
    <3>4. Stands(Kept(r))' <=> /\ (kept' = "yes") => new
                               /\ new => (kept' # "no" \/ env)
      BY <2>9 DEF Stands, kept, new
    <3> QED
      BY <3>2, <3>3, <3>4
  <2>16. ~Stopped(r)'
    BY <1>1 DEF Stopped
  <2> QED
    BY <1>1, <1>9, <2>14, <2>15, <2>16 DEF CookieStands
<1> QED
  BY <1>11, <1>12

\* session_stop, and a request to stop that runs no code.
LEMMA WithoutSessionIs ==
    ASSUME DOMAIN jar \subseteq Cookies
    PROVE  DOMAIN WithoutSession(jar) = {} /\ PlaceValues(WithoutSession(jar)) = {}
<1>1. DOMAIN WithoutSession(jar) = {}
  BY DEF WithoutSession, Restrict
<1> QED
  BY <1>1 DEF PlaceValues

\* What is said of the request stays, while it and the settings do.
LEMMA RequestStays ==
    ASSUME conf' = conf, request' = request, asked' = asked, sticky' = sticky, NEW r \in {request}
    PROVE  /\ Sticks(r)' <=> Sticks(r)
           /\ Kept(r)' = Kept(r)
           /\ Ignored(r)' <=> Ignored(r)
           /\ Has(r, StopNames)' <=> Has(r, StopNames)
           /\ EnvStarts' <=> EnvStarts
           /\ Waits' <=> Waits
<1> DEFINE empty == StartsEmpty(r)
           has   == Has(r, ToSet(Starts))
           no    == ~conf.cli /\ ~HasSecret
<1>1. /\ Ignored(r)' <=> Ignored(r)
      /\ Carries(r)' <=> Carries(r)
      /\ empty' <=> empty
      /\ has' <=> has
      /\ no' <=> no
      /\ EnvStarts' <=> EnvStarts
      /\ HasSecret' <=> HasSecret
  BY SaysTheSame, CarriesTheSame DEF HasSecret
<1>2. Sticks(r)' <=> Sticks(r)
  BY <1>1 DEF Sticks
<1>3. Kept(r) = IF asked /\ empty THEN "unclear" ELSE IF asked /\ no /\ has THEN "yes" ELSE sticky
  BY DEF Kept
<1>4. Kept(r)' = IF asked' /\ empty' THEN "unclear"
                 ELSE IF asked' /\ no' /\ has' THEN "yes" ELSE sticky'
  BY DEF Kept
<1> HIDE DEF empty, has, no
<1>5. Kept(r)' = Kept(r)
  BY <1>1, <1>3, <1>4
<1>6. Waits' <=> Waits
  BY <1>1 DEF Waits
<1>7. Has(r, StopNames)' <=> Has(r, StopNames)
  BY DEF Has
<1> QED
  BY <1>1, <1>2, <1>5, <1>6, <1>7

LEMMA StartupSticks ==
    ASSUME DecidedOnce, CookieStands, AtStartup
    PROVE  CookieStands'
<1> DEFINE start   == HandleStart(request, ideKey, headersSent, startResult)
           ignored == Ignored(request)
           stops   == ~ignored /\ Has(request, StopNames)
           checks  == conf.mode = "trigger" /\ ~ignored
           cookies == IF checks /\ ~conf.cli THEN start.cookies ELSE jar
<1>1. /\ jar' = IF stops /\ ~headersSent THEN WithoutSession(cookies) ELSE cookies
      /\ stage = "started" /\ stage' = "running" /\ headersSent' = headersSent
      /\ conf' = conf /\ request' = request /\ asked' = asked /\ sticky' = sticky
  BY DEF AtStartup
<1>2. cookies = jar
  <2>1. Decided(request)
    BY <1>1 DEF DecidedOnce
  <2>2. checks => startResult # "unchecked"
    BY <2>1 DEF Decided, Eligible
  <2>3. startResult # "unchecked" => start.cookies = jar
    BY DEF HandleStart
  <2> HIDE DEF start, checks
  <2> QED
    BY <2>2, <2>3
<1>3. /\ DOMAIN jar \subseteq Cookies /\ NotFound \notin PlaceValues(jar)
      /\ conf.cli => DOMAIN jar = {}
      /\ headersSent = conf.cli
  BY <1>1 DEF CookieStands, JarHolds
<1>4. DOMAIN WithoutSession(jar) = {} /\ PlaceValues(WithoutSession(jar)) = {}
  BY <1>3, WithoutSessionIs
<1> HIDE DEF cookies, ignored
<1>5. /\ JarHolds'
      /\ stops => DOMAIN jar' = {}
      /\ ~stops => jar' = jar
  <2>1. CASE stops /\ ~headersSent
    <3>1. jar' = WithoutSession(jar)
      BY <1>1, <1>2, <2>1
    <3> QED
      BY <1>4, <2>1, <3>1 DEF JarHolds
  <2>2. CASE ~(stops /\ ~headersSent)
    <3>1. jar' = jar
      BY <1>1, <1>2, <2>2
    <3> QED
      BY <1>1, <1>3, <2>2, <3>1 DEF JarHolds
  <2> QED
    BY <2>1, <2>2
<1>6. ASSUME Waits', NEW r \in {request}
      PROVE  /\ Sticks(r)' /\ (Stopped(r)' => DOMAIN jar' = {})
             /\ ~Stopped(r)' => Stands(Kept(r))'
  <2>1. /\ Sticks(r)' <=> Sticks(r)
        /\ Kept(r)' = Kept(r)
        /\ Ignored(r)' <=> Ignored(r)
        /\ Has(r, StopNames)' <=> Has(r, StopNames)
        /\ EnvStarts' <=> EnvStarts
        /\ Waits' <=> Waits
    BY <1>1, RequestStays
  <2>2. Sticks(r) /\ (~Stopped(r) => Stands(Kept(r)))
    BY <1>1, <1>6, <2>1 DEF CookieStands
  <2>3. ~Stopped(r)
    BY <1>1 DEF Stopped
  <2>4. Stopped(r)' <=> stops
    BY <1>1, <2>1 DEF Stopped, ignored
  <2>5. ~stops => Stands(Kept(r))'
    <3>1. Stands(Kept(r))
      BY <2>2, <2>3
    <3> HIDE DEF stops
    <3> QED
      BY <1>5, <2>1, <3>1 DEF Stands
  <2> QED
    BY <1>5, <2>1, <2>2, <2>4, <2>5
<1> QED
  BY <1>1, <1>3, <1>5, <1>6 DEF CookieStands

LEMMA StopSticks == ASSUME CookieStands, NEW r, StopNoExec(r) PROVE CookieStands'
<1>1. /\ jar' = WithoutSession(jar) /\ sticky' = "no" /\ stage = "idle" /\ stage' = "idle"
      /\ conf' = conf
  BY DEF StopNoExec
<1>2. DOMAIN jar' = {} /\ PlaceValues(jar') = {}
  BY <1>1, WithoutSessionIs DEF CookieStands, JarHolds
<1> QED
  BY <1>1, <1>2 DEF CookieStands, JarHolds, Stands

LEMMA OverSticks == ASSUME CookieStands, RequestOver PROVE CookieStands'
<1> DEFINE decided == stage = "running" /\ ~Ignored(request)
           stops   == decided /\ Has(request, StopNames)
           starts  == asked /\ ~conf.cli /\ ~HasSecret /\ Has(request, ToSet(Starts))
<1>1. /\ stage # "idle" /\ stage' = "idle" /\ jar' = jar /\ conf' = conf
      /\ sticky' = IF stops THEN "no"
                   ELSE IF asked /\ StartsEmpty(request) THEN "unclear"
                   ELSE IF starts THEN "yes" ELSE sticky
  BY DEF RequestOver, Finish
<1>2. /\ stops <=> Stopped(request)
      /\ ~stops => sticky' = Kept(request)
      /\ stops => sticky' = "no"
  BY <1>1 DEF Stopped, Kept
<1>3. /\ Waits' <=> Waits
      /\ EnvStarts' <=> EnvStarts
  BY <1>1 DEF Waits, HasSecret, EnvStarts, EnvHas
<1>4. JarHolds'
  BY <1>1 DEF CookieStands, JarHolds
<1>5. Waits => /\ Stopped(request) => DOMAIN jar = {}
               /\ ~Stopped(request) => Stands(Kept(request))
  BY <1>1 DEF CookieStands
<1> HIDE DEF stops
<1>6. Waits => Stands(sticky)'
  <2>1. CASE stops
    BY <1>1, <1>2, <1>5, <2>1 DEF Stands
  <2>2. CASE ~stops
    BY <1>1, <1>2, <1>3, <1>5, <2>2 DEF Stands
  <2> QED
    BY <2>1, <2>2
<1> QED
  BY <1>1, <1>3, <1>4, <1>6 DEF CookieStands

LEMMA CookieStep == DecidedOnce /\ CookieStands /\ [StartNext]_startVars => CookieStands'
<1> SUFFICES ASSUME DecidedOnce, CookieStands, [StartNext]_startVars PROVE CookieStands'
  OBVIOUS
<1>1. CASE \E q \in Requests : Serve(q)
  <2>1. PICK q \in Requests : Serve(q)
    BY <1>1
  <2> DEFINE r == [GET |-> q.GET, POST |-> q.POST, COOKIE |-> IF conf.cli THEN Nothing ELSE jar]
  <2>2. Rinit(r) \/ StopNoExec(r)
    BY <2>1 DEF Serve
  <2>3. r = [GET |-> q.GET, POST |-> q.POST, COOKIE |-> IF conf.cli THEN Nothing ELSE jar]
    OBVIOUS
  <2> HIDE DEF r
  <2> QED
    BY <2>2, <2>3, RinitSticks, StopSticks
<1>2. CASE AtStartup
  BY <1>2, StartupSticks
<1>3. CASE RequestOver
  BY <1>3, OverSticks
<1>4. CASE UNCHANGED startVars
  <2>1. /\ conf' = conf /\ jar' = jar /\ request' = request /\ stage' = stage
        /\ headersSent' = headersSent /\ asked' = asked /\ sticky' = sticky
    BY <1>4 DEF startVars
  <2>2. \A r \in {request} :
          /\ Sticks(r)' <=> Sticks(r)
          /\ Kept(r)' = Kept(r)
          /\ Ignored(r)' <=> Ignored(r)
          /\ Has(r, StopNames)' <=> Has(r, StopNames)
    BY <2>1, RequestStays
  <2>3. (EnvStarts' <=> EnvStarts) /\ (Waits' <=> Waits)
    BY <2>1 DEF EnvStarts, EnvHas, Waits, HasSecret
  <2>4. \A r \in {request} : (Stopped(r)' <=> Stopped(r)) /\ (Stands(Kept(r))' <=> Stands(Kept(r)))
    BY <2>1, <2>2, <2>3 DEF Stopped, Stands
  <2>5. JarHolds'
    BY <2>1 DEF CookieStands, JarHolds
  <2>6. Stands(sticky)' <=> Stands(sticky)
    BY <2>1, <2>3 DEF Stands
  <2> QED
    BY <2>1, <2>2, <2>3, <2>4, <2>5, <2>6 DEF CookieStands
<1> QED
  BY <1>1, <1>2, <1>3, <1>4 DEF StartNext

\* With triggers and no secret, a browser's session lasts from a start to a stop, for every
\* order of requests, under either spelling of the names.
THEOREM SessionLasts == StartSpec => []SessionSticks
<1>1. CookieStands => SessionSticks
  BY DEF CookieStands, SessionSticks, Waits, Sticks
<1>2. StartInit => DecidedOnce /\ CookieStands
  BY DecidedInit, CookieInit
<1>3. (DecidedOnce /\ CookieStands) /\ [StartNext]_startVars => (DecidedOnce /\ CookieStands)'
  BY DecidedStep, CookieStep
<1> QED
  BY <1>1, <1>2, <1>3, PTL DEF StartSpec

-----------------------------------------------------------------------------
(* Connecting: the sockets of a client that is tried, found and given up,    *)
(* for all settings, any number of addresses and calls.                    *)

\* While addresses are tried there is one to be tried.
AddressIsLeft == phase \in {"address", "connect"} => left >= 1

\* The calls are counted, and nothing was opened before the first one.
CallsAreCounted == calls \in Nat /\ (calls = 0 => phase = "idle" /\ socket # "open")

\* An open socket is that of a session, or was made early and waits for one; so that
\* no attempt begins while a socket is open, nor in a session.
SocketHasOwner ==
    /\ socket = "open" => phase = "connected" \/ (phase = "idle" /\ (session \/ early))
    /\ caller = "early" => early
    /\ session => socket = "open" /\ phase = "idle"
    /\ phase \in {"idle", "connected"} => ~headerCut

ConnectTypes ==
    /\ phase \in {"idle", "lookup", "address", "connect", "connected"}
    /\ left \in 0..MaxAddresses /\ descriptors \in Nat /\ socket \in Errors \cup {"open"}

\* What is counted, and whose the socket is.
Counts    == ConnectTypes /\ AddressIsLeft /\ CallsAreCounted /\ NoDescriptorLost
ConnectInv == Counts /\ SocketHasOwner

LEMMA ConnectInit == ConnectingInit => ConnectInv
<1> SUFFICES ASSUME ConnectingInit PROVE ConnectInv
    OBVIOUS
<1>1. /\ phase = "idle" /\ left = 0 /\ descriptors = 0 /\ socket = "error" /\ calls = 0
      /\ caller = "session"
  BY DEF ConnectingInit
<1>2. ~headerCut /\ ~session
  BY DEF ConnectingInit
<1>3. Counts
  BY <1>1, AddressesAssumption
     DEF Counts, ConnectTypes, AddressIsLeft, CallsAreCounted, NoDescriptorLost, Errors
<1>4. SocketHasOwner
  BY <1>1, <1>2 DEF SocketHasOwner
<1> QED
  BY <1>3, <1>4 DEF ConnectInv

\* An attempt begins with a name to look up and the socket as it was.
LEMMA TryingStarts ==
    ASSUME StartTrying
    PROVE  phase' = "lookup" /\ left' = 0
BY DEF StartTrying, Try

\* An attempt ends with a result, or with the configured host to be tried.
LEMMA ResultIsKept ==
    ASSUME NEW result \in Errors \cup {"open"}, Result(result)
    PROVE  \/ phase' = "lookup" /\ socket' = socket /\ result # "open"
           \/ phase' = "connected" /\ socket' = result /\ ~headerCut'
<1>1. CASE fallback /\ result \in Errors
  BY <1>1 DEF Result, Try, Errors
<1>2. CASE ~(fallback /\ result \in Errors)
  BY <1>2 DEF Result
<1> QED
  BY <1>1, <1>2

\* An address that failed leaves one less: the next one is tried, or the configured
\* host, or nothing more.
FailedAddress ==
    /\ left' \in 0..MaxAddresses
    /\ \/ phase' = "address" /\ left' >= 1 /\ socket' = socket
       \/ phase' = "lookup" /\ socket' = socket
       \/ phase' = "connected" /\ socket' \in Errors /\ ~headerCut'

LEMMA AddressFails ==
    ASSUME left \in 1..MaxAddresses, NEW error \in Errors, NextAddress(error)
    PROVE  FailedAddress
<1>1. left' = left - 1
  BY DEF NextAddress
<1>2. CASE left = 1
  <2>1. Result(error)
    BY <1>2 DEF NextAddress
  <2>2. error \in Errors \cup {"open"} /\ left' \in 0..MaxAddresses
    BY <1>1, <1>2, AddressesAssumption
  <2>3. \/ phase' = "lookup" /\ socket' = socket
        \/ phase' = "connected" /\ socket' \in Errors /\ ~headerCut'
    BY <2>1, <2>2, ResultIsKept
  <2> QED
    BY <2>2, <2>3 DEF FailedAddress
<1>3. CASE left # 1
  <2>1. phase' = "address" /\ socket' = socket
    BY <1>3 DEF NextAddress
  <2> QED
    BY <2>1, <1>1, <1>3, AddressesAssumption DEF FailedAddress
<1> QED
  BY <1>2, <1>3

\* Within xdebug_create_socket() no socket is in use, and the callers' state stays.
LEMMA WholeIsKept ==
    ASSUME SocketHasOwner, phase \in {"lookup", "address", "connect"}, KeepsWhole
    PROVE  /\ socket # "open" /\ calls' = calls
           /\ ~session' /\ (caller' = "early" => early')
BY DEF SocketHasOwner, KeepsWhole

\* The descriptors that are open: the one that connects and the one in use.
LEMMA Descriptors ==
    ASSUME Counts
    PROVE  /\ phase # "connect" /\ socket # "open" => descriptors = 0
           /\ phase # "connect" /\ socket = "open" => descriptors = 1
           /\ phase = "connect" /\ socket # "open" => descriptors = 1
BY DEF Counts, NoDescriptorLost

LEMMA CountsFollow ==
    ASSUME phase' \in {"idle", "lookup", "address", "connect", "connected"},
           left' \in 0..MaxAddresses, phase' \in {"address", "connect"} => left' >= 1,
           calls' \in Nat \ {0}, socket' \in Errors \cup {"open"},
           phase' # "connect" /\ socket' # "open" => descriptors' = 0,
           phase' # "connect" /\ socket' = "open" => descriptors' = 1,
           phase' = "connect" => socket' # "open" /\ descriptors' = 1
    PROVE  Counts'
<1>1. ConnectTypes'
  BY DEF ConnectTypes
<1>2. AddressIsLeft' /\ CallsAreCounted'
  BY DEF AddressIsLeft, CallsAreCounted
<1>3. NoDescriptorLost'
  BY DEF NoDescriptorLost
<1> QED
  BY <1>1, <1>2, <1>3 DEF Counts

LEMMA CountsAtRest ==
    ASSUME phase' \in {"idle", "lookup", "address", "connected"},
           left' \in 0..MaxAddresses, phase' = "address" => left' >= 1,
           calls' \in Nat \ {0}, socket' \in Errors \cup {"open"},
           descriptors' = IF socket' = "open" THEN 1 ELSE 0
    PROVE  Counts'
BY CountsFollow

LEMMA FailedCounts ==
    ASSUME Counts, FailedAddress, socket # "open", calls' = calls,
           phase \in {"address", "connect"},
           descriptors' = descriptors - (IF phase = "connect" THEN 1 ELSE 0)
    PROVE  Counts'
<1>1. /\ left' \in 0..MaxAddresses
      /\ \/ phase' = "address" /\ left' >= 1 /\ socket' = socket
         \/ phase' = "lookup" /\ socket' = socket
         \/ phase' = "connected" /\ socket' \in Errors
  BY DEF FailedAddress
<1>2. descriptors' = 0
  BY DEF Counts, NoDescriptorLost
<1>3. phase' # "connect" /\ socket' # "open"
  BY <1>1 DEF Errors
<1>4. phase' \in {"idle", "lookup", "address", "connect", "connected"}
  BY <1>1
<1>5. socket' \in Errors \cup {"open"}
  BY <1>1 DEF Counts, ConnectTypes
<1>6. ConnectTypes'
  BY <1>1, <1>2, <1>4, <1>5 DEF ConnectTypes
<1>7. AddressIsLeft'
  BY <1>1 DEF AddressIsLeft
<1>8. CallsAreCounted'
  BY DEF Counts, CallsAreCounted
<1>9. NoDescriptorLost'
  BY <1>2, <1>3 DEF NoDescriptorLost
<1> QED
  BY <1>6, <1>7, <1>8, <1>9 DEF Counts

LEMMA FailedHasNoOwner ==
    ASSUME SocketHasOwner, FailedAddress, KeepsWhole, phase \in {"address", "connect"}
    PROVE  SocketHasOwner'
<1>1. \/ phase' \in {"address", "lookup"} /\ socket' = socket
      \/ phase' = "connected" /\ socket' \in Errors /\ ~headerCut'
  BY DEF FailedAddress
<1>2. socket # "open" /\ ~session' /\ (caller' = "early" => early')
  BY WholeIsKept
<1> QED
  BY <1>1, <1>2 DEF SocketHasOwner, Errors

LEMMA AddressIsThere ==
    ASSUME Counts, phase \in {"address", "connect"}
    PROVE  left \in 1..MaxAddresses
<1>1. left >= 1
  BY DEF Counts, AddressIsLeft
<1>2. left \in 0..MaxAddresses
  BY DEF Counts, ConnectTypes
<1> QED
  BY <1>1, <1>2

LEMMA ConnectStep == ConnectInv /\ [ConnectingNext]_connectingVars => ConnectInv'
<1> SUFFICES ASSUME Counts, SocketHasOwner, [ConnectingNext]_connectingVars
             PROVE  Counts' /\ SocketHasOwner'
    BY DEF ConnectInv
<1>1. CASE EarlyConnect
  <2>1. /\ phase = "idle" /\ calls = 0 /\ calls' = calls + 1
        /\ descriptors' = descriptors /\ socket' = socket
    BY <1>1 DEF EarlyConnect, Calls
  <2>2. early' /\ (session' <=> session)
    BY <1>1 DEF EarlyConnect
  <2>3. \/ phase' = "idle" /\ left' = left /\ (headerCut' <=> headerCut)
        \/ phase' = "lookup" /\ left' = 0
    BY <1>1, <2>1, TryingStarts DEF EarlyConnect
  <2>4. \/ phase' = "idle" /\ left' = left
        \/ phase' = "lookup" /\ left' = 0
    BY <2>3
  <2>5. socket # "open"
    BY <2>1 DEF Counts, CallsAreCounted
  <2>6. Counts'
    <3>1. left' \in 0..MaxAddresses
      BY <2>1, <2>4, <2>5, AddressesAssumption DEF Counts, ConnectTypes
    <3>2. calls' \in Nat \ {0}
      BY <2>1, <2>4 DEF Counts, CallsAreCounted
    <3>3. socket' \in Errors \cup {"open"}
      BY <2>1, <2>4, <2>5 DEF Counts, ConnectTypes, Errors
    <3>4. descriptors' = IF socket' = "open" THEN 1 ELSE 0
      BY <2>1, <2>4, <2>5, Descriptors
    <3> QED
      BY <2>4, <3>1, <3>2, <3>3, <3>4, CountsAtRest
  <2>7. SocketHasOwner'
    BY <2>1, <2>2, <2>3, <2>5 DEF SocketHasOwner
  <2> QED
    BY <2>6, <2>7
<1>2. CASE EarlyConnected
  <2>1. /\ phase = "connected" /\ caller = "early" /\ phase' = "idle" /\ caller' = caller
        /\ left' = left /\ descriptors' = descriptors /\ socket' = socket /\ calls' = calls
    BY <1>2 DEF EarlyConnected
  <2>2. (early' <=> early) /\ (session' <=> session) /\ (headerCut' <=> headerCut)
    BY <1>2 DEF EarlyConnected
  <2>3. Counts'
    <3>1. left' \in 0..MaxAddresses
      BY <2>1, AddressesAssumption DEF Counts, ConnectTypes
    <3>2. calls' \in Nat \ {0}
      BY <2>1 DEF Counts, CallsAreCounted
    <3>3. socket' \in Errors \cup {"open"}
      BY <2>1 DEF Counts, ConnectTypes, Errors
    <3>4. descriptors' = IF socket' = "open" THEN 1 ELSE 0
      BY <2>1, Descriptors
    <3> QED
      BY <2>1, <3>1, <3>2, <3>3, <3>4, CountsAtRest
  <2>4. SocketHasOwner'
    BY <2>1, <2>2 DEF SocketHasOwner
  <2> QED
    BY <2>3, <2>4
<1>3. CASE BeginSession
  <2>1. /\ phase = "idle" /\ calls' = calls + 1 /\ caller' = "session"
        /\ descriptors' = descriptors /\ socket' = socket
    BY <1>3 DEF BeginSession, Calls
  <2>2. ~session /\ ~session' /\ (early' <=> early)
    BY <1>3 DEF BeginSession
  <2>3. \/ early /\ phase' = "connected" /\ left' = left /\ (headerCut' <=> headerCut)
        \/ ~early /\ phase' = "lookup" /\ left' = 0
    BY <1>3, TryingStarts DEF BeginSession
  <2>4. \/ phase' = "connected" /\ left' = left
        \/ phase' = "lookup" /\ left' = 0
    BY <2>3
  <2>5. Counts'
    <3>1. left' \in 0..MaxAddresses
      BY <2>1, <2>4, AddressesAssumption DEF Counts, ConnectTypes
    <3>2. calls' \in Nat \ {0}
      BY <2>1, <2>4 DEF Counts, CallsAreCounted
    <3>3. socket' \in Errors \cup {"open"}
      BY <2>1, <2>4 DEF Counts, ConnectTypes, Errors
    <3>4. descriptors' = IF socket' = "open" THEN 1 ELSE 0
      BY <2>1, <2>4, Descriptors
    <3> QED
      BY <2>4, <3>1, <3>2, <3>3, <3>4, CountsAtRest
  <2>6. SocketHasOwner'
    BY <2>1, <2>2, <2>3 DEF SocketHasOwner
  <2> QED
    BY <2>5, <2>6
<1>4. CASE SessionBegun
  <2>1. /\ phase = "connected" /\ phase' = "idle" /\ caller' = caller /\ caller = "session"
        /\ left' = left /\ calls' = calls
    BY <1>4 DEF SessionBegun
  <2>2. (early' <=> early) /\ (headerCut' <=> headerCut)
    BY <1>4 DEF SessionBegun
  <2>3. \/ socket = "open" /\ session' /\ descriptors' = descriptors /\ socket' = socket
        \/ /\ socket = "open" /\ descriptors' = descriptors - 1 /\ socket' = "error"
           /\ (session' <=> session)
        \/ /\ socket # "open" /\ (session' <=> session)
           /\ descriptors' = descriptors /\ socket' = socket
    BY <1>4 DEF SessionBegun, CloseSocket
  <2>4. \/ socket' = socket /\ descriptors' = descriptors
        \/ socket = "open" /\ descriptors' = descriptors - 1 /\ socket' = "error"
    BY <2>3
  <2>5. Counts'
    <3>1. left' \in 0..MaxAddresses
      BY <2>1, <2>4, AddressesAssumption DEF Counts, ConnectTypes
    <3>2. calls' \in Nat \ {0}
      BY <2>1, <2>4 DEF Counts, CallsAreCounted
    <3>3. socket' \in Errors \cup {"open"}
      BY <2>1, <2>4 DEF Counts, ConnectTypes, Errors
    <3>4. descriptors' = IF socket' = "open" THEN 1 ELSE 0
      BY <2>1, <2>4, Descriptors
    <3> QED
      BY <2>1, <3>1, <3>2, <3>3, <3>4, CountsAtRest
  <2>6. SocketHasOwner'
    BY <2>1, <2>2, <2>3 DEF SocketHasOwner
  <2> QED
    BY <2>5, <2>6
<1>5. CASE LoseSession
  <2>1. /\ phase = "idle" /\ phase' = phase /\ caller' = caller
        /\ descriptors' = descriptors - 1 /\ socket' = "error" /\ left' = left
        /\ calls' = calls
    BY <1>5 DEF LoseSession, CloseSocket
  <2>2. session /\ ~session' /\ (early' <=> early) /\ (headerCut' <=> headerCut)
    BY <1>5 DEF LoseSession
  <2>3. socket = "open"
    BY <2>2 DEF SocketHasOwner
  <2>4. Counts'
    <3>1. left' \in 0..MaxAddresses
      BY <2>1, <2>3, AddressesAssumption DEF Counts, ConnectTypes
    <3>2. calls' \in Nat \ {0}
      BY <2>1, <2>3 DEF Counts, CallsAreCounted
    <3>3. socket' \in Errors \cup {"open"}
      BY <2>1, <2>3 DEF Counts, ConnectTypes, Errors
    <3>4. descriptors' = IF socket' = "open" THEN 1 ELSE 0
      BY <2>1, <2>3, Descriptors
    <3> QED
      BY <2>1, <3>1, <3>2, <3>3, <3>4, CountsAtRest
  <2>5. SocketHasOwner'
    BY <2>1, <2>2 DEF SocketHasOwner
  <2> QED
    BY <2>4, <2>5
<1>6. CASE Unix
  <2>1. phase = "lookup" /\ left' = left /\ KeepsWhole
    BY <1>6 DEF Unix
  <2>2. \/ /\ \E error \in {"error", "no access"} : Result(error)
           /\ descriptors' = descriptors
        \/ Result("open") /\ descriptors' = descriptors + 1
    BY <1>6 DEF Unix
  <2>3. \/ phase' = "lookup" /\ socket' = socket /\ descriptors' = descriptors
        \/ /\ phase' = "connected" /\ ~headerCut'
           /\ \/ socket' \in Errors /\ descriptors' = descriptors
              \/ socket' = "open" /\ descriptors' = descriptors + 1
    BY <2>2, ResultIsKept DEF Errors
  <2>4. socket # "open" /\ calls' = calls
    BY <2>1, WholeIsKept
  <2>5. \/ phase' = "lookup" /\ socket' = socket /\ descriptors' = descriptors
        \/ phase' = "connected" /\ socket' \in Errors /\ descriptors' = descriptors
        \/ phase' = "connected" /\ socket' = "open" /\ descriptors' = descriptors + 1
    BY <2>3
  <2>6. Counts'
    <3>1. left' \in 0..MaxAddresses
      BY <2>1, <2>4, <2>5, AddressesAssumption DEF Counts, ConnectTypes
    <3>2. calls' \in Nat \ {0}
      BY <2>1, <2>4 DEF Counts, CallsAreCounted
    <3>3. socket' \in Errors \cup {"open"}
      BY <2>1, <2>4, <2>5 DEF Counts, ConnectTypes, Errors
    <3>4. descriptors' = IF socket' = "open" THEN 1 ELSE 0
      <4>1. descriptors = 0
        BY <2>1, <2>4, Descriptors
      <4>2. CASE phase' = "lookup" /\ socket' = socket /\ descriptors' = descriptors
        BY <2>4, <4>1, <4>2
      <4>3. CASE socket' \in Errors /\ descriptors' = descriptors
        BY <4>1, <4>3 DEF Errors
      <4>4. CASE socket' = "open" /\ descriptors' = descriptors + 1
        BY <4>1, <4>4
      <4> QED
        BY <2>5, <4>2, <4>3, <4>4
    <3> QED
      BY <2>5, <3>1, <3>2, <3>3, <3>4, CountsAtRest
  <2>7. SocketHasOwner'
    BY <2>1, <2>3, <2>4, WholeIsKept DEF SocketHasOwner
  <2> QED
    BY <2>6, <2>7
<1>7. CASE Lookup
  <2>1. phase = "lookup" /\ descriptors' = descriptors /\ KeepsWhole
    BY <1>7 DEF Lookup
  <2>2. \/ Result("error") /\ left' = left
        \/ phase' = "address" /\ left' \in 1..MaxAddresses /\ socket' = socket
    BY <1>7 DEF Lookup
  <2>3. \/ phase' = "lookup" /\ socket' = socket
        \/ phase' = "connected" /\ socket' = "error" /\ ~headerCut'
        \/ phase' = "address" /\ socket' = socket
    BY <2>2, ResultIsKept DEF Errors
  <2>4. socket # "open" /\ calls' = calls
    BY <2>1, WholeIsKept
  <2>5. \/ phase' = "lookup" /\ socket' = socket /\ left' = left
        \/ phase' = "connected" /\ socket' = "error" /\ left' = left
        \/ phase' = "address" /\ left' \in 1..MaxAddresses /\ socket' = socket
    BY <2>2, ResultIsKept DEF Errors
  <2>6. Counts'
    <3>1. left' \in 0..MaxAddresses
      BY <2>1, <2>4, <2>5, AddressesAssumption DEF Counts, ConnectTypes
    <3>2. calls' \in Nat \ {0}
      BY <2>1, <2>4 DEF Counts, CallsAreCounted
    <3>3. socket' \in Errors \cup {"open"}
      BY <2>1, <2>4, <2>5 DEF Counts, ConnectTypes, Errors
    <3>4. descriptors' = IF socket' = "open" THEN 1 ELSE 0
      BY <2>1, <2>4, <2>5, Descriptors
    <3> QED
      BY <2>5, <3>1, <3>2, <3>3, <3>4, CountsAtRest
  <2>7. SocketHasOwner'
    BY <2>1, <2>3, <2>4, WholeIsKept DEF SocketHasOwner
  <2> QED
    BY <2>6, <2>7
<1>8. CASE Socket
  <2>1. phase = "address" /\ KeepsWhole
    BY <1>8 DEF Socket
  <2>2. left \in 1..MaxAddresses
    BY <2>1, AddressIsThere
  <2>3. \/ /\ phase' = "connect" /\ descriptors' = descriptors + 1
           /\ socket' = socket /\ left' = left
        \/ NextAddress("error") /\ descriptors' = descriptors
    BY <1>8 DEF Socket
  <2>4. socket # "open" /\ calls' = calls
    BY <2>1, WholeIsKept
  <2>5. CASE NextAddress("error") /\ descriptors' = descriptors
    <3>1. FailedAddress
      BY <2>2, <2>5, AddressFails DEF Errors
    <3>2. Counts'
      <4>1. descriptors' = descriptors - (IF phase = "connect" THEN 1 ELSE 0)
        BY <2>1, <2>5 DEF Counts, ConnectTypes
      <4> QED
        BY <2>1, <2>4, <3>1, <4>1, FailedCounts
    <3>3. SocketHasOwner'
      BY <2>1, <3>1, FailedHasNoOwner
    <3> QED
      BY <3>2, <3>3
  <2>6. CASE /\ phase' = "connect" /\ descriptors' = descriptors + 1
             /\ socket' = socket /\ left' = left
    <3>1. Counts'
      <4>1. left' \in 0..MaxAddresses
        BY <2>2, <2>6, AddressesAssumption
      <4>2. calls' \in Nat \ {0}
        BY <2>1, <2>4 DEF Counts, CallsAreCounted
      <4>3. socket' \in Errors \cup {"open"}
        BY <2>6 DEF Counts, ConnectTypes
      <4>4. socket' # "open" /\ descriptors' = 1
        BY <2>1, <2>4, <2>6, Descriptors
      <4> QED
        BY <2>2, <2>6, <4>1, <4>2, <4>3, <4>4, CountsFollow
    <3>2. SocketHasOwner'
      BY <2>1, <2>4, <2>6, WholeIsKept DEF SocketHasOwner
    <3> QED
      BY <3>1, <3>2
  <2> QED
    BY <2>3, <2>5, <2>6
<1>9. CASE ConnectFails
  <2>1. phase = "connect" /\ descriptors' = descriptors - 1 /\ KeepsWhole
    BY <1>9 DEF ConnectFails
  <2>2. PICK error \in Errors : NextAddress(error)
    BY <1>9 DEF ConnectFails
  <2>3. left \in 1..MaxAddresses
    BY <2>1, AddressIsThere
  <2>4. socket # "open" /\ calls' = calls
    BY <2>1, WholeIsKept
  <2>5. FailedAddress
    BY <2>2, <2>3, AddressFails
  <2>6. Counts'
    BY <2>1, <2>4, <2>5, FailedCounts
  <2>7. SocketHasOwner'
    BY <2>1, <2>5, FailedHasNoOwner
  <2> QED
    BY <2>6, <2>7
<1>10. CASE Connect
  <2>1. phase = "connect" /\ left' = left /\ descriptors' = descriptors /\ KeepsWhole
    BY <1>10 DEF Connect
  <2>2. phase' = "connected" /\ socket' = "open" /\ ~headerCut'
    BY <1>10, ResultIsKept DEF Connect
  <2>3. phase' = "connected" /\ socket' = "open"
    BY <2>2
  <2>4. socket # "open" /\ calls' = calls
    BY <2>1, WholeIsKept
  <2>5. Counts'
    <3>1. left' \in 0..MaxAddresses
      BY <2>1 DEF Counts, ConnectTypes
    <3>2. calls' \in Nat \ {0}
      BY <2>1, <2>4 DEF Counts, CallsAreCounted
    <3>3. socket' \in Errors \cup {"open"}
      BY <2>3
    <3>4. socket' = "open" /\ descriptors' = 1
      BY <2>1, <2>3, <2>4, Descriptors
    <3> QED
      BY <2>3, <3>1, <3>2, <3>3, <3>4, CountsFollow
  <2>6. SocketHasOwner'
    BY <2>1, <2>2, WholeIsKept DEF SocketHasOwner
  <2> QED
    BY <2>5, <2>6
<1>11. CASE UNCHANGED connectingVars
  <2>1. /\ phase' = phase /\ left' = left /\ descriptors' = descriptors /\ socket' = socket
        /\ calls' = calls /\ caller' = caller
    BY <1>11 DEF connectingVars
  <2>2. (early' <=> early) /\ (session' <=> session) /\ (headerCut' <=> headerCut)
    BY <1>11 DEF connectingVars
  <2>3. Counts'
    BY <2>1 DEF Counts, ConnectTypes, AddressIsLeft, CallsAreCounted, NoDescriptorLost
  <2>4. SocketHasOwner'
    BY <2>1, <2>2 DEF SocketHasOwner
  <2> QED
    BY <2>3, <2>4
<1> QED
  BY <1>1, <1>2, <1>3, <1>4, <1>5, <1>6, <1>7, <1>8, <1>9, <1>10, <1>11 DEF ConnectingNext

\* ConnectingTypeOK: phases and counters have their types, a session has its socket, and
\* xdebug_init_normal_debugger() always puts the comma of a discovery header back.
THEOREM ConnectingTypeCorrect == ConnectingSpec => []ConnectingTypeOK
<1>1. ConnectInv => ConnectingTypeOK
  BY DEF ConnectInv, Counts, ConnectTypes, SocketHasOwner, ConnectingTypeOK
<1> QED
  BY ConnectInit, ConnectStep, <1>1, PTL DEF ConnectingSpec

\* NoDescriptorLost: xdebug_create_socket() and its callers close every socket they
\* open but the one in use, for any list of addresses and any sequence of calls.
THEOREM NoDescriptorIsLost == ConnectingSpec => []NoDescriptorLost
<1>1. ConnectInv => NoDescriptorLost
  BY DEF ConnectInv, Counts
<1> QED
  BY ConnectInit, ConnectStep, <1>1, PTL DEF ConnectingSpec

-----------------------------------------------------------------------------
(* Which host was tried, and which is reported.                            *)

Tries == phase \in {"lookup", "address", "connect"}

\* connected_hostname is the peer, unless that is a Unix socket.
Reported == peer # "unix" => hostname = peer

\* What is tried is the host of the settings, or one of a header with that one to fall back to.
TriesHost ==
    Tries => /\ host \in tried
             /\ fallback => setting.host = Configured /\ host # NoHost
             /\ ~fallback => host = Configured

\* An attempt that never led to a peer has tried the host of the settings.
TriedInTheEnd ==
    /\ phase = "connected" /\ peer = NoHost /\ ~(early /\ Cloud) => Configured \in tried
    /\ phase = "idle" /\ early /\ peer = NoHost /\ ~Cloud => Configured \in tried

HostInv == setting \in Settings /\ Reported /\ TriesHost /\ TriedInTheEnd

LEMMA SettingStays ==
    ASSUME setting' = setting
    PROVE  Configured' = Configured /\ (Cloud' <=> Cloud)
BY DEF Configured, Cloud, ResolvedHost, Gateway, Nameserver, SelectInSeq

\* A host that a header names.
LEMMA HeaderIs ==
    ASSUME setting \in Settings, Header # << >>
    PROVE  Header[1] # NoHost
<1>1. setting.headers \in Seq(Seq(STRING \ {NoHost}))
  BY HeadersAssumption
<1> DEFINE I == {i \in 1..Len(setting.headers) : setting.headers[i] # << >>}
           k == IF I # {} THEN Min(I) ELSE 0
<1>2. Header = IF k = 0 \/ Uri \in ToSet(setting.headers[k]) THEN << >> ELSE setting.headers[k]
  BY DEF Header, SelectInSeq
<1>3. k # 0 /\ Header = setting.headers[k]
  BY <1>2
<1>4. k \in I
  <2>1. I \in SUBSET Nat
    BY <1>1, LenProperties
  <2> HIDE DEF I
  <2> QED
    BY <1>3, <2>1, MinIs
<1> HIDE DEF k
<1>5. Header \in Seq(STRING \ {NoHost})
  BY <1>1, <1>3, <1>4, ElementOfSeq
<1>6. Len(Header) \in Nat /\ Len(Header) # 0
  BY <1>5, EmptySeq, LenProperties
<1>7. Header[1] \in STRING \ {NoHost}
  BY <1>5, <1>6, ElementOfSeq
<1> QED
  BY <1>7

LEMMA StartTries ==
    ASSUME setting \in Settings, StartTrying, setting' = setting
    PROVE  Tries' /\ TriesHost' /\ TriedInTheEnd'
<1>1. phase' = "lookup" /\ host' \in tried' /\ (fallback' <=> Discovered)
      /\ host' = IF Discovered THEN Header[1] ELSE Configured
  BY DEF StartTrying, Try
<1>2. Configured' = Configured
  BY SettingStays
<1>3. Discovered => Configured = setting.host /\ Header[1] # NoHost
  BY HeaderIs DEF Discovered, Configured
<1>4. Tries' /\ TriesHost'
  BY <1>1, <1>2, <1>3 DEF Tries, TriesHost
<1> QED
  BY <1>1, <1>4 DEF TriedInTheEnd

\* An attempt ends, and the host of the settings was tried; or it goes on with that.
LEMMA ResultTried ==
    ASSUME HostInv, Tries, NEW result \in Errors \cup {"open"}, Result(result), KeepsWhole,
           result # "open" => peer' = peer,
           result = "open" => peer' = host
    PROVE  TriesHost' /\ TriedInTheEnd'
<1>1. Configured' = Configured /\ setting' = setting
  BY SettingStays DEF KeepsWhole
<1>2. /\ host \in tried
      /\ fallback => setting.host = Configured /\ host # NoHost
      /\ ~fallback => host = Configured
  BY DEF HostInv, TriesHost
<1>3. CASE fallback /\ result \in Errors
  <2>1. phase' = "lookup" /\ host' = setting.host /\ tried' = tried \cup {setting.host}
        /\ ~fallback'
    BY <1>3 DEF Result, Try
  <2>2. setting.host = Configured
    BY <1>2, <1>3 DEF HostInv, TriesHost
  <2> QED
    BY <1>1, <2>1, <2>2 DEF TriesHost, TriedInTheEnd, Tries
<1>4. CASE ~(fallback /\ result \in Errors)
  <2>1. phase' = "connected" /\ tried' = tried
    BY <1>4 DEF Result
  <2>2. peer' = NoHost => host = Configured
    <3>1. CASE result = "open"
      BY <1>2, <3>1
    <3>2. CASE result # "open"
      BY <1>2, <1>4, <3>2
    <3> QED
      BY <3>1, <3>2
  <2> QED
    BY <1>1, <1>2, <2>1, <2>2 DEF TriesHost, TriedInTheEnd, Tries
<1> QED
  BY <1>3, <1>4

LEMMA HostInit == ConnectingInit => HostInv
BY DEF ConnectingInit, HostInv, Reported, TriesHost, TriedInTheEnd, Tries

LEMMA HostStep == HostInv /\ [ConnectingNext]_connectingVars => HostInv'
<1> SUFFICES ASSUME HostInv, [ConnectingNext]_connectingVars PROVE HostInv'
    OBVIOUS
<1>s. setting \in Settings /\ Reported /\ TriesHost /\ TriedInTheEnd
  BY DEF HostInv
<1>1. CASE EarlyConnect
  <2>1. /\ setting' = setting /\ peer' = peer /\ hostname' = hostname /\ phase = "idle" /\ early'
    BY <1>1 DEF EarlyConnect, Calls
  <2>2. Reported'
    BY <1>s, <2>1 DEF Reported
  <2>3. CASE Cloud
    <3>1. phase' = phase /\ Cloud'
      BY <1>1, <2>1, <2>3, SettingStays DEF EarlyConnect
    <3>2. TriesHost' /\ TriedInTheEnd'
      BY <2>1, <3>1 DEF TriesHost, TriedInTheEnd, Tries
    <3> QED
      BY <1>s, <2>1, <2>2, <3>2 DEF HostInv
  <2>4. CASE ~Cloud
    <3>1. StartTrying
      BY <1>1, <2>4 DEF EarlyConnect
    <3> QED
      BY <1>s, <2>1, <2>2, <3>1, StartTries DEF HostInv
  <2> QED
    BY <2>3, <2>4
<1>2. CASE EarlyConnected
  <2>1. /\ setting' = setting /\ peer' = peer /\ hostname' = hostname /\ tried' = tried
        /\ phase = "connected" /\ phase' = "idle" /\ (early' <=> early)
    BY <1>2 DEF EarlyConnected
  <2>2. Configured' = Configured /\ (Cloud' <=> Cloud)
    BY <2>1, SettingStays
  <2> QED
    BY <1>s, <2>1, <2>2 DEF HostInv, Reported, TriesHost, TriedInTheEnd, Tries
<1>3. CASE BeginSession
  <2>1. /\ setting' = setting /\ peer' = peer /\ hostname' = hostname /\ phase = "idle"
        /\ (early' <=> early)
    BY <1>3 DEF BeginSession, Calls
  <2>2. Reported'
    BY <1>s, <2>1 DEF Reported
  <2>3. CASE early
    <3>1. phase' = "connected" /\ tried' = tried
      BY <1>3, <2>3 DEF BeginSession
    <3>2. Configured' = Configured /\ (Cloud' <=> Cloud)
      BY <2>1, SettingStays
    <3>3. TriesHost' /\ TriedInTheEnd'
      BY <1>s, <2>1, <2>3, <3>1, <3>2 DEF TriesHost, TriedInTheEnd, Tries
    <3> QED
      BY <1>s, <2>1, <2>2, <3>3 DEF HostInv
  <2>4. CASE ~early
    <3>1. StartTrying
      BY <1>3, <2>4 DEF BeginSession
    <3> QED
      BY <1>s, <2>1, <2>2, <3>1, StartTries DEF HostInv
  <2> QED
    BY <2>3, <2>4
<1>4. CASE SessionBegun \/ LoseSession
  <2>1. /\ setting' = setting /\ peer' = peer /\ hostname' = hostname /\ tried' = tried
        /\ phase \in {"connected", "idle"} /\ phase' = "idle" /\ (early' <=> early)
    BY <1>4 DEF SessionBegun, LoseSession
  <2>2. Configured' = Configured /\ (Cloud' <=> Cloud)
    BY <2>1, SettingStays
  <2> QED
    BY <1>s, <2>1, <2>2 DEF HostInv, Reported, TriesHost, TriedInTheEnd, Tries
<1>5. ASSUME NEW error \in Errors, Tries, Result(error), KeepsWhole, peer' = peer,
             hostname' = hostname
      PROVE  HostInv'
  <2>1. TriesHost' /\ TriedInTheEnd'
    BY <1>5, ResultTried DEF Errors
  <2> QED
    BY <1>s, <1>5, <2>1 DEF HostInv, Reported, KeepsWhole
\* The attempt goes on with the same host.
<1>6. ASSUME Tries, phase' \in {"address", "connect"}, KeepsWhole,
             UNCHANGED <<peer, hostname, host, tried, fallback>>
      PROVE  HostInv'
  <2>1. Configured' = Configured
    BY <1>6, SettingStays DEF KeepsWhole
  <2> QED
    BY <1>s, <1>6, <2>1 DEF HostInv, Reported, TriesHost, TriedInTheEnd, Tries, KeepsWhole
<1>7. CASE Unix
  <2>1. Tries /\ KeepsWhole /\ hostname' = hostname /\ host = "unix"
    BY <1>7 DEF Unix, Tries
  <2>2. CASE \E error \in {"error", "no access"} : Result(error) /\ peer' = peer
    BY <1>5, <2>1, <2>2 DEF Errors
  <2>3. CASE Result("open") /\ peer' = host
    <3>1. TriesHost' /\ TriedInTheEnd'
      BY <2>1, <2>3, ResultTried DEF Errors
    <3> QED
      BY <1>s, <2>1, <2>3, <3>1 DEF HostInv, Reported, KeepsWhole
  <2> QED
    BY <1>7, <2>2, <2>3 DEF Unix
<1>8. CASE Lookup
  <2>1. Tries /\ KeepsWhole /\ peer' = peer /\ hostname' = hostname
    BY <1>8 DEF Lookup, Tries
  <2>2. \/ Result("error")
        \/ phase' = "address" /\ UNCHANGED <<host, tried, fallback>>
    BY <1>8 DEF Lookup
  <2> QED
    BY <1>5, <1>6, <2>1, <2>2 DEF Errors
<1>9. CASE Socket \/ ConnectFails
  <2>1. Tries /\ KeepsWhole /\ peer' = peer /\ hostname' = hostname
    BY <1>9 DEF Socket, ConnectFails, Tries
  <2>2. \/ phase' = "connect" /\ UNCHANGED <<host, tried, fallback>>
        \/ \E error \in Errors : NextAddress(error)
    BY <1>9 DEF Socket, ConnectFails, Errors
  <2>3. \/ phase' \in {"address", "connect"} /\ UNCHANGED <<host, tried, fallback>>
        \/ \E error \in Errors : Result(error)
    BY <2>2 DEF NextAddress
  <2> QED
    BY <1>5, <1>6, <2>1, <2>3
<1>10. CASE Connect
  <2>1. Tries /\ KeepsWhole /\ Result("open") /\ peer' = host /\ hostname' = host
    BY <1>10 DEF Connect, Tries
  <2>2. TriesHost' /\ TriedInTheEnd'
    BY <2>1, ResultTried DEF Errors
  <2> QED
    BY <1>s, <2>1, <2>2 DEF HostInv, Reported, KeepsWhole
<1>11. CASE UNCHANGED connectingVars
  <2>1. /\ setting' = setting /\ peer' = peer /\ hostname' = hostname /\ tried' = tried
        /\ phase' = phase /\ (early' <=> early) /\ host' = host /\ (fallback' <=> fallback)
    BY <1>11 DEF connectingVars
  <2>2. Configured' = Configured /\ (Cloud' <=> Cloud)
    BY <2>1, SettingStays
  <2> QED
    BY <1>s, <2>1, <2>2 DEF HostInv, Reported, TriesHost, TriedInTheEnd, Tries
<1> QED
  BY <1>1, <1>2, <1>3, <1>4, <1>7, <1>8, <1>9, <1>10, <1>11 DEF ConnectingNext

\* ClientIsTheOneReported: for all settings, header lists and routes, connected_hostname is
\* the host that answered, and an attempt that reached nobody has ended with the host of
\* the settings, whatever header, address or time-out came before it.
THEOREM ReportedClientIsConnected == ConnectingSpec => []ClientIsTheOneReported
<1>1. HostInv => ClientIsTheOneReported
  BY DEF HostInv, Reported, TriedInTheEnd, ClientIsTheOneReported
<1> QED
  BY HostInit, HostStep, <1>1, PTL DEF ConnectingSpec
=============================================================================
