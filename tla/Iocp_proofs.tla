------------------------------ MODULE Iocp_proofs ------------------------------
(***************************************************************************)
(* The completion hook loses nothing and gives nothing twice, its cursor   *)
(* is what the game has, and it implements CompletionPort: for any number  *)
(* of threads, slots, completions and closes.                              *)
(***************************************************************************)
EXTENDS Iocp, FiniteSetTheorems, SequenceTheorems, TLAPS

USE IocpAssumption, SeqSpaceAssumption

-----------------------------------------------------------------------------
(* The inductive invariant *)

\* What a thread has dequeued and not yet classified is in its hands.
Filled(t) == thread[t].c # NoCompletion
SortingIsFilled == \A t \in Threads : Filled(t) <=> thread[t].pc = "sort"

\* Only what carries a sequence is held back, and only the disabled hook forwards.
HeldIsData == \A h \in held : h.c.kind = "data"
StockIsDisabled == \A t \in Threads : thread[t].pc = "stock" => disabled

\* The port is first-in first-out: it has the youngest completions, in order.
Taken == arrived - Len(port)
PortIsTail == Taken >= 0 /\ \A i \in 1 .. Len(port) : port[i].n = Taken + i

\* Every completion taken from the port is in one place ...
EachIsSomewhere ==
  \A n \in 1 .. Taken : n \in handed \/ n \in InHold \/ n \in InHands

\* ... and in one only.
HandsApart ==
  \A t \in Threads : Filled(t) =>
    /\ thread[t].c.n \in (1 .. Taken) \ handed
    /\ \A s \in Threads : thread[s].c.n = thread[t].c.n => s = t
HeldApart ==
  \A h \in held :
    /\ h.c.n \in (1 .. Taken) \ handed
    /\ \A g \in held : g.c.n = h.c.n => g = h
    /\ \A t \in Threads : thread[t].c.n # h.c.n
HandedIsTaken == handed \subseteq 1 .. Taken

Places == PortIsTail /\ EachIsSomewhere /\ HandsApart /\ HeldApart /\ HandedIsTaken

Control ==
  TypeOK /\ IsFiniteSet(held) /\ SortingIsFilled /\ HeldIsData /\ StockIsDisabled

IInv == Control /\ Places /\ CursorIsFrontier

-----------------------------------------------------------------------------
(* Facts about the operators *)

ThreadState ==
  [pc : {"outside", "look", "wait", "expired", "sort", "stock"},
   timeout : Timeouts \cup {0, Infinite}, spent : 0 .. MaxSpent,
   c : Completions \cup {NoCompletion}]
CursorState == [init : BOOLEAN, last : Seqs]

LEMMA HoldType == Hold \in Nat
BY DEF Hold, Min2

LEMMA MaxSpentType == MaxSpent \in Nat
BY DEF MaxSpent

LEMMA BudgetBound ==
  ASSUME NEW to \in Nat
  PROVE  Budget(to) * WatchdogX + 1 \in 0 .. MaxSpent
<1>1. Budget(to) \in Nat /\ Budget(to) <= WinMax
  BY DEF Budget, Min2
<1>2. (WinMax - Budget(to)) * WatchdogX >= 0
  <2>1. WinMax - Budget(to) \in Nat
    BY <1>1
  <2> QED
    BY <2>1
<1>3. Budget(to) * WatchdogX \in Nat
  BY <1>1
<1> QED
  BY <1>1, <1>2, <1>3 DEF MaxSpent

LEMMA AdvancedType ==
  ASSUME NEW cur \in CursorState, NEW q \in Seqs
  PROVE  Advanced(cur, q) \in CursorState
BY DEF Advanced, CursorState

LEMMA NoCompletionIsNone == \A c \in Completions : c.n \in Nat \ {0} /\ c # NoCompletion
BY DEF Completions, NoCompletion

LEMMA OutsideType == Outside \in ThreadState
BY MaxSpentType DEF Outside, ThreadState

LEMMA NoCursorType == NoCursor \in CursorState
BY DEF NoCursor, CursorState, Seqs

\* What the types say of one thread and of one held completion.
LEMMA Typed ==
  ASSUME TypeOK
  PROVE  /\ thread \in [Threads -> ThreadState]
         /\ cursor \in [Froms -> CursorState] /\ front \in [Froms -> CursorState]
         /\ \A h \in held : h \in [c : Completions, age : 0 .. Hold]
BY DEF TypeOK, ThreadState, CursorState

-----------------------------------------------------------------------------
(* What a call that returns a completion, or goes on, does to the types *)

LEMMA ReturnType ==
  ASSUME TypeOK, NEW t \in Threads, NEW c \in Completions, Return(t, c)
  PROVE  /\ thread' \in [Threads -> ThreadState]
         /\ handed' \subseteq 1 .. MaxArrivals
         /\ front' \in [Froms -> CursorState]
<1>1. thread' \in [Threads -> ThreadState]
  BY Typed, OutsideType DEF Return
<1>2. c.n \in 1 .. MaxArrivals /\ c.from \in Froms /\ c.seq \in Seqs
  BY DEF Completions
<1>3. handed' \subseteq 1 .. MaxArrivals
  BY <1>2 DEF Return, TypeOK
<1>4. front' \in [Froms -> CursorState]
  <2>1. Advanced(front[c.from], c.seq) \in CursorState
    BY <1>2, Typed, AdvancedType
  <2>2. [front EXCEPT ![c.from] = Advanced(@, c.seq)] \in [Froms -> CursorState]
    BY <1>2, <2>1, Typed
  <2> QED
    BY <2>2, Typed DEF Return
<1> QED
  BY <1>1, <1>3, <1>4

LEMMA CursorMoves ==
  ASSUME TypeOK, NEW c \in Completions,
         cursor' = [cursor EXCEPT ![c.from] = Advanced(@, c.seq)]
  PROVE  cursor' \in [Froms -> CursorState]
<1>1. c.from \in Froms /\ c.seq \in Seqs
  BY DEF Completions
<1>2. Advanced(cursor[c.from], c.seq) \in CursorState
  BY <1>1, Typed, AdvancedType
<1> QED
  BY <1>1, <1>2, Typed

\* One held completion fewer, or one more while a slot is free.
LEMMA HeldShrinks ==
  ASSUME TypeOK, IsFiniteSet(held), NEW h \in held, held' = held \ {h}
  PROVE  /\ held' \subseteq [c : Completions, age : 0 .. Hold]
         /\ IsFiniteSet(held') /\ Cardinality(held') <= HoldCap
<1>1. Cardinality(held) \in Nat /\ Cardinality(held) <= HoldCap
  BY FS_CardinalityType DEF TypeOK
<1>2. IsFiniteSet(held') /\ Cardinality(held') = Cardinality(held) - 1
  BY FS_RemoveElement
<1>3. held' \subseteq [c : Completions, age : 0 .. Hold]
  BY DEF TypeOK
<1> QED
  BY <1>1, <1>2, <1>3

LEMMA HeldGrows ==
  ASSUME TypeOK, IsFiniteSet(held), Cardinality(held) < HoldCap, NEW c \in Completions,
         held' = held \cup {[c |-> c, age |-> 0]}
  PROVE  /\ held' \subseteq [c : Completions, age : 0 .. Hold]
         /\ IsFiniteSet(held') /\ Cardinality(held') <= HoldCap
<1>1. Cardinality(held) \in Nat
  BY FS_CardinalityType
<1>2. /\ IsFiniteSet(held')
      /\ Cardinality(held') = Cardinality(held) \/ Cardinality(held') = Cardinality(held) + 1
  BY FS_AddElement
<1>3. held' \subseteq [c : Completions, age : 0 .. Hold]
  BY HoldType DEF TypeOK
<1> QED
  BY <1>1, <1>2, <1>3

LEMMA PortShrinks ==
  ASSUME TypeOK, port # << >>, port' = Tail(port)
  PROVE  Head(port) \in Completions /\ port' \in Seq(Completions)
BY HeadTailProperties DEF TypeOK

-----------------------------------------------------------------------------
(* A completion moves from one place to another *)

\* What is in a thread's hands, as a number: 0 when there is nothing.
LEMMA Hands ==
  ASSUME TypeOK, NEW t \in Threads
  PROVE  /\ thread[t] \in ThreadState
         /\ thread[t].c.n \in Nat
         /\ Filled(t) => thread[t].c \in Completions /\ thread[t].c.n # 0
         /\ ~Filled(t) => thread[t].c.n = 0
<1>1. thread[t] \in ThreadState
  BY Typed
<1>2. thread[t].c \in Completions \cup {NoCompletion}
  BY <1>1 DEF ThreadState
<1> QED
  BY <1>1, <1>2, NoCompletionIsNone DEF Filled, NoCompletion

LEMMA PortBounds ==
  ASSUME TypeOK
  PROVE  Len(port) \in Nat /\ arrived \in Nat /\ Taken \in Int
BY LenProperties DEF TypeOK, Taken

\* Nothing moves.
LEMMA PlacesStay ==
  ASSUME TypeOK, Places, UNCHANGED << port, arrived, handed, held >>,
         \A t \in Threads : thread'[t].c = thread[t].c
  PROVE  Places'
<1>1. Taken' = Taken /\ PortIsTail'
  BY DEF Places, PortIsTail, Taken
<1>2. InHold' = InHold /\ InHands' = InHands
  BY DEF InHold, InHands
<1>3. \A t \in Threads : Filled(t)' <=> Filled(t)
  BY DEF Filled
<1>4. EachIsSomewhere' /\ HandedIsTaken'
  BY <1>1, <1>2 DEF Places, EachIsSomewhere, HandedIsTaken
<1>5. HandsApart'
  BY <1>1, <1>3 DEF Places, HandsApart
<1>6. HeldApart'
  BY <1>1 DEF Places, HeldApart
<1> QED
  BY <1>1, <1>4, <1>5, <1>6 DEF Places

\* Completions join the port at its end.
LEMMA PlacesQueue ==
  ASSUME TypeOK, Places, UNCHANGED << thread, held, handed >>, Taken' = Taken, PortIsTail'
  PROVE  Places'
BY DEF Places, EachIsSomewhere, HandsApart, HeldApart, HandedIsTaken, InHold, InHands, Filled

\* The port gives its first completion, the oldest that has not been taken.
LEMMA FirstOfPort ==
  ASSUME TypeOK, Places, port # << >>, port' = Tail(port), UNCHANGED arrived
  PROVE  /\ Head(port) \in Completions
         /\ Head(port).n = Taken + 1
         /\ Taken \in Nat /\ Taken' = Taken + 1
         /\ PortIsTail'
<1>1. port \in Seq(Completions)
  BY DEF TypeOK
<1>2. /\ Head(port) \in Completions
      /\ Len(port') = Len(port) - 1
      /\ \A i \in 1 .. Len(port') : port'[i] = port[i + 1]
  BY <1>1, HeadTailProperties
<1>3. Len(port) \in Nat /\ Len(port) > 0 /\ Head(port) = port[1]
  BY <1>1, LenProperties, EmptySeq
<1>4. Taken \in Nat /\ Taken' = Taken + 1
  BY <1>2, <1>3, PortBounds DEF Taken, Places, PortIsTail
<1>5. port[1].n = Taken + 1
  BY <1>3 DEF Places, PortIsTail
<1>6. \A i \in 1 .. Len(port') : port'[i].n = Taken' + i
  <2> SUFFICES ASSUME NEW i \in 1 .. Len(port') PROVE port'[i].n = Taken' + i
    OBVIOUS
  <2>1. i + 1 \in 1 .. Len(port)
    BY <1>2, <1>3
  <2>2. port[i + 1].n = Taken + (i + 1)
    BY <2>1 DEF Places, PortIsTail
  <2> QED
    BY <1>2, <1>4, <2>2
<1> QED
  BY <1>2, <1>3, <1>4, <1>5, <1>6 DEF PortIsTail

\* A thread takes it.
LEMMA PlacesTake ==
  ASSUME TypeOK, Places, NEW t \in Threads, ~Filled(t), port # << >>, port' = Tail(port),
         UNCHANGED << arrived, held, handed >>,
         thread'[t].c = Head(port), \A s \in Threads \ {t} : thread'[s].c = thread[s].c
  PROVE  Places'
<1> DEFINE n == Head(port).n
<1>1. n = Taken + 1 /\ Taken \in Nat /\ Taken' = Taken + 1 /\ PortIsTail'
  BY FirstOfPort
<1>2. n \notin handed /\ n \notin InHold /\ n # 0
  BY <1>1 DEF Places, HeldApart, HandedIsTaken, InHold
<1>3. \A s \in Threads : thread[s].c.n # n
  BY <1>1, Hands DEF Places, HandsApart
<1>4. EachIsSomewhere'
  <2> SUFFICES ASSUME NEW m \in 1 .. Taken', m \notin handed, m \notin InHold
               PROVE  m \in InHands'
    BY DEF EachIsSomewhere, InHold
  <2>1. CASE m = n
    BY <2>1, <1>2 DEF InHands
  <2>2. CASE m # n
    <3>1. m \in 1 .. Taken
      BY <2>2, <1>1
    <3>2. PICK s \in Threads : thread[s].c.n = m /\ m # 0
      BY <3>1 DEF Places, EachIsSomewhere, InHands
    <3>3. s # t
      BY <3>2, Hands
    <3> QED
      BY <3>2, <3>3 DEF InHands
  <2> QED
    BY <2>1, <2>2
<1>5. HandsApart'
  <2> SUFFICES ASSUME NEW s \in Threads, Filled(s)'
               PROVE  /\ thread'[s].c.n \in (1 .. Taken') \ handed
                      /\ \A r \in Threads : thread'[r].c.n = thread'[s].c.n => r = s
    BY DEF HandsApart
  <2>1. CASE s = t
    BY <2>1, <1>1, <1>2, <1>3
  <2>2. CASE s # t
    <3>1. Filled(s)
      BY <2>2 DEF Filled
    <3>2. /\ thread[s].c.n \in (1 .. Taken) \ handed
          /\ \A r \in Threads : thread[r].c.n = thread[s].c.n => r = s
      BY <3>1 DEF Places, HandsApart
    <3> QED
      BY <2>2, <3>2, <1>1
  <2> QED
    BY <2>1, <2>2
<1>6. HeldApart'
  <2> SUFFICES ASSUME NEW h \in held
               PROVE  /\ h.c.n \in (1 .. Taken') \ handed
                      /\ \A g \in held : g.c.n = h.c.n => g = h
                      /\ \A s \in Threads : thread'[s].c.n # h.c.n
    BY DEF HeldApart
  <2>1. /\ h.c.n \in (1 .. Taken) \ handed
        /\ \A g \in held : g.c.n = h.c.n => g = h
        /\ \A s \in Threads : thread[s].c.n # h.c.n
    BY DEF Places, HeldApart
  <2>2. thread'[t].c.n # h.c.n
    BY <1>2 DEF InHold
  <2> QED
    BY <1>1, <2>1, <2>2
<1>7. HandedIsTaken'
  BY <1>1 DEF Places, HandedIsTaken
<1> QED
  BY <1>1, <1>4, <1>5, <1>6, <1>7 DEF Places

\* The disabled hook passes it on.
LEMMA PlacesForward ==
  ASSUME TypeOK, Places, NEW t \in Threads, ~Filled(t), port # << >>, port' = Tail(port),
         UNCHANGED << arrived, held >>, Return(t, Head(port))
  PROVE  Places'
<1> DEFINE n == Head(port).n
<1>1. n = Taken + 1 /\ Taken \in Nat /\ Taken' = Taken + 1 /\ PortIsTail'
  BY FirstOfPort
<1>2. handed' = handed \cup {n}
  BY DEF Return
<1>3. \A s \in Threads : thread'[s].c = thread[s].c
  BY Typed, Hands DEF Return, Outside, Filled
<1>4. InHold' = InHold /\ InHands' = InHands /\ \A s \in Threads : Filled(s)' <=> Filled(s)
  BY <1>3 DEF InHold, InHands, Filled
<1>5. EachIsSomewhere'
  BY <1>1, <1>2, <1>4 DEF Places, EachIsSomewhere
<1>6. HandsApart'
  BY <1>1, <1>2, <1>3, <1>4 DEF Places, HandsApart
<1>7. HeldApart'
  BY <1>1, <1>2, <1>3 DEF Places, HeldApart
<1>8. HandedIsTaken'
  <2>1. handed \subseteq 1 .. Taken' /\ n \in 1 .. Taken'
    BY <1>1 DEF Places, HandedIsTaken
  <2> QED
    BY <1>2, <2>1 DEF HandedIsTaken
<1> QED
  BY <1>1, <1>5, <1>6, <1>7, <1>8 DEF Places

\* A thread hands over what it took.
LEMMA PlacesHandOver ==
  ASSUME TypeOK, Places, NEW t \in Threads, Filled(t),
         UNCHANGED << port, arrived, held >>, Return(t, thread[t].c)
  PROVE  Places'
<1> DEFINE n == thread[t].c.n
<1>1. Taken' = Taken /\ PortIsTail'
  BY DEF Places, PortIsTail, Taken
<1>2. handed' = handed \cup {n} /\ InHold' = InHold
  BY DEF Return, InHold
<1>3. /\ thread'[t].c = NoCompletion
      /\ \A s \in Threads \ {t} : thread'[s].c = thread[s].c
  BY Typed DEF Return, Outside
<1>4. n \in (1 .. Taken) \ handed /\ \A s \in Threads : thread[s].c.n = n => s = t
  BY DEF Places, HandsApart
<1>5. EachIsSomewhere'
  <2> SUFFICES ASSUME NEW m \in 1 .. Taken, m \notin handed', m \notin InHold
               PROVE  m \in InHands'
    BY <1>1, <1>2 DEF EachIsSomewhere
  <2>1. PICK s \in Threads : thread[s].c.n = m /\ m # 0
    BY <1>2 DEF Places, EachIsSomewhere, InHands
  <2>2. s # t
    BY <2>1, <1>2
  <2> QED
    BY <2>1, <2>2, <1>3 DEF InHands
<1>6. HandsApart'
  <2> SUFFICES ASSUME NEW s \in Threads, Filled(s)'
               PROVE  /\ thread'[s].c.n \in (1 .. Taken) \ handed'
                      /\ \A r \in Threads : thread'[r].c.n = thread'[s].c.n => r = s
    BY <1>1 DEF HandsApart
  <2>1. s # t /\ Filled(s) /\ thread'[s].c = thread[s].c
    BY <1>3 DEF Filled
  <2>2. /\ thread[s].c.n \in (1 .. Taken) \ handed
        /\ \A r \in Threads : thread[r].c.n = thread[s].c.n => r = s
    BY <2>1 DEF Places, HandsApart
  <2>3. thread[s].c.n # n
    BY <2>1, <2>2
  <2>4. thread'[t].c.n # thread[s].c.n
    BY <1>3, <2>2 DEF NoCompletion
  <2> QED
    BY <2>1, <2>2, <2>3, <2>4, <1>2, <1>3
<1>7. HeldApart'
  <2> SUFFICES ASSUME NEW h \in held
               PROVE  /\ h.c.n \in (1 .. Taken) \ handed'
                      /\ \A g \in held : g.c.n = h.c.n => g = h
                      /\ \A s \in Threads : thread'[s].c.n # h.c.n
    BY <1>1 DEF HeldApart
  <2>1. /\ h.c.n \in (1 .. Taken) \ handed
        /\ \A g \in held : g.c.n = h.c.n => g = h
        /\ \A s \in Threads : thread[s].c.n # h.c.n
    BY DEF Places, HeldApart
  <2>2. thread'[t].c.n # h.c.n
    BY <1>3, <2>1 DEF NoCompletion
  <2> QED
    BY <1>2, <1>3, <2>1, <2>2
<1>8. HandedIsTaken'
  BY <1>1, <1>2, <1>4 DEF Places, HandedIsTaken
<1> QED
  BY <1>1, <1>5, <1>6, <1>7, <1>8 DEF Places

\* A thread whose hands are empty hands over what was kept back.
LEMMA PlacesRelease ==
  ASSUME TypeOK, Places, NEW t \in Threads, ~Filled(t), NEW h \in held,
         UNCHANGED << port, arrived >>, held' = held \ {h}, Return(t, h.c)
  PROVE  Places'
<1>1. Taken' = Taken /\ PortIsTail'
  BY DEF Places, PortIsTail, Taken
<1>2. handed' = handed \cup {h.c.n}
  BY DEF Return
<1>3. \A s \in Threads : thread'[s].c = thread[s].c
  BY Typed, Hands DEF Return, Outside, Filled
<1>4. InHands' = InHands /\ \A s \in Threads : Filled(s)' <=> Filled(s)
  BY <1>3 DEF InHands, Filled
<1>5. EachIsSomewhere'
  BY <1>1, <1>2, <1>4 DEF Places, EachIsSomewhere, InHold
<1>6. HandsApart'
  BY <1>1, <1>2, <1>3, <1>4 DEF Places, HandsApart, HeldApart
<1>7. HeldApart'
  BY <1>1, <1>2, <1>3 DEF Places, HeldApart
<1>8. HandedIsTaken'
  BY <1>1, <1>2 DEF Places, HandedIsTaken, HeldApart
<1> QED
  BY <1>1, <1>5, <1>6, <1>7, <1>8 DEF Places

\* A thread keeps back what it took.
LEMMA PlacesKeep ==
  ASSUME TypeOK, Places, NEW t \in Threads, Filled(t),
         UNCHANGED << port, arrived, handed >>,
         held' = held \cup {[c |-> thread[t].c, age |-> 0]},
         thread'[t].c = NoCompletion, \A s \in Threads \ {t} : thread'[s].c = thread[s].c
  PROVE  Places'
<1> DEFINE n == thread[t].c.n
<1> DEFINE k == [c |-> thread[t].c, age |-> 0]
<1>1. Taken' = Taken /\ PortIsTail'
  BY DEF Places, PortIsTail, Taken
<1>2. n \in (1 .. Taken) \ handed /\ \A s \in Threads : thread[s].c.n = n => s = t
  BY DEF Places, HandsApart
<1>3. \A h \in held : h.c.n # n
  BY DEF Places, HeldApart
<1>4. k \in held' /\ k.c.n = n /\ held \subseteq held'
  OBVIOUS
<1>5. EachIsSomewhere'
  <2> SUFFICES ASSUME NEW m \in 1 .. Taken, m \notin handed, m \notin InHold'
               PROVE  m \in InHands'
    BY <1>1 DEF EachIsSomewhere
  <2>1. m # n /\ m \notin InHold
    BY <1>4 DEF InHold
  <2>2. PICK s \in Threads : thread[s].c.n = m /\ m # 0
    BY <2>1 DEF Places, EachIsSomewhere, InHands
  <2> QED
    BY <2>1, <2>2 DEF InHands
<1>6. HandsApart'
  <2> SUFFICES ASSUME NEW s \in Threads, Filled(s)'
               PROVE  /\ thread'[s].c.n \in (1 .. Taken) \ handed
                      /\ \A r \in Threads : thread'[r].c.n = thread'[s].c.n => r = s
    BY <1>1 DEF HandsApart
  <2>1. s # t /\ Filled(s) /\ thread'[s].c = thread[s].c
    BY DEF Filled
  <2>2. /\ thread[s].c.n \in (1 .. Taken) \ handed
        /\ \A r \in Threads : thread[r].c.n = thread[s].c.n => r = s
    BY <2>1 DEF Places, HandsApart
  <2>3. thread'[t].c.n # thread[s].c.n
    BY <2>2 DEF NoCompletion
  <2> QED
    BY <2>1, <2>2, <2>3
<1>7. HeldApart'
  <2> SUFFICES ASSUME NEW h \in held'
               PROVE  /\ h.c.n \in (1 .. Taken) \ handed
                      /\ \A g \in held' : g.c.n = h.c.n => g = h
                      /\ \A s \in Threads : thread'[s].c.n # h.c.n
    BY <1>1 DEF HeldApart
  <2>1. h.c.n \in (1 .. Taken) \ handed
    BY <1>2 DEF Places, HeldApart
  <2>2. \A g \in held' : g.c.n = h.c.n => g = h
    BY <1>3 DEF Places, HeldApart
  <2>3. ASSUME NEW s \in Threads PROVE thread'[s].c.n # h.c.n
    <3>1. CASE s = t
      BY <3>1, <2>1 DEF NoCompletion
    <3>2. CASE s # t
      BY <3>2, <1>2 DEF Places, HeldApart
    <3> QED
      BY <3>1, <3>2
  <2> QED
    BY <2>1, <2>2, <2>3
<1>8. HandedIsTaken'
  BY <1>1 DEF Places, HandedIsTaken
<1> QED
  BY <1>1, <1>5, <1>6, <1>7, <1>8 DEF Places

-----------------------------------------------------------------------------
(* What the parts of an action establish *)

\* A step that neither closes nor queues.
LEMMA TypeKept ==
  ASSUME TypeOK, UNCHANGED << closing, closes, arrived >>,
         port' \in Seq(Completions), thread' \in [Threads -> ThreadState],
         held' \subseteq [c : Completions, age : 0 .. Hold], Cardinality(held') <= HoldCap,
         cursor' \in [Froms -> CursorState], disabled' \in BOOLEAN,
         handed' \subseteq 1 .. MaxArrivals, front' \in [Froms -> CursorState]
  PROVE  TypeOK'
BY DEF TypeOK, ThreadState, CursorState

\* One thread goes on; the hook is disabled for good.
LEMMA ThreadControl ==
  ASSUME Control, NEW t \in Threads, \A s \in Threads \ {t} : thread'[s] = thread[s],
         Filled(t)' <=> thread'[t].pc = "sort",
         thread'[t].pc = "stock" => disabled', disabled => disabled'
  PROVE  SortingIsFilled' /\ StockIsDisabled'
BY DEF Control, SortingIsFilled, StockIsDisabled, Filled

LEMMA ReturnControl ==
  ASSUME Control, NEW t \in Threads, NEW c, Return(t, c), UNCHANGED disabled
  PROVE  SortingIsFilled' /\ StockIsDisabled'
<1>1. thread'[t] = Outside /\ \A s \in Threads \ {t} : thread'[s] = thread[s]
  BY Typed DEF Control, Return
<1> QED
  BY <1>1, ThreadControl DEF Outside, Filled

\* A thread changes where it is and nothing else but its timeout.
LEMMA GoOK ==
  ASSUME IInv, NEW t \in Threads, ~Filled(t), thread' \in [Threads -> ThreadState],
         \A s \in Threads \ {t} : thread'[s] = thread[s],
         thread'[t].c = NoCompletion, thread'[t].pc # "sort",
         thread'[t].pc = "stock" => disabled,
         UNCHANGED << port, held, cursor, disabled, closing, closes, arrived, handed, front >>
  PROVE  IInv'
<1>1. TypeOK'
  BY DEF IInv, Control, TypeOK, ThreadState
<1>2. SortingIsFilled' /\ StockIsDisabled'
  BY ThreadControl DEF IInv, Filled
<1>3. HeldIsData' /\ IsFiniteSet(held')
  BY DEF IInv, Control, HeldIsData
<1>4. \A s \in Threads : thread'[s].c = thread[s].c
  BY DEF Filled
<1>5. Places'
  BY <1>4, PlacesStay DEF IInv, Control
<1>6. CursorIsFrontier'
  BY DEF IInv, CursorIsFrontier
<1> QED
  BY <1>1, <1>2, <1>3, <1>5, <1>6 DEF IInv, Control

\* A completion judged by its sequence goes to the game: the cursor and the frontier
\* move alike.
LEMMA AdvanceTogether ==
  ASSUME IInv, NEW t \in Threads, NEW c \in Completions, c.kind = "data", Return(t, c),
         cursor' = [cursor EXCEPT ![c.from] = Advanced(@, c.seq)], UNCHANGED disabled
  PROVE  CursorIsFrontier'
BY DEF IInv, CursorIsFrontier, Return

\* The thread that is not sorting has nothing in its hands.
LEMMA EmptyHands ==
  ASSUME IInv, NEW t \in Threads, thread[t].pc # "sort"
  PROVE  ~Filled(t) /\ thread[t].c = NoCompletion
BY DEF IInv, Control, SortingIsFilled, Filled

LEMMA FullHands ==
  ASSUME IInv, NEW t \in Threads, thread[t].pc = "sort"
  PROVE  Filled(t) /\ thread[t].c \in Completions
BY Hands DEF IInv, Control, SortingIsFilled

-----------------------------------------------------------------------------
(* Each action preserves the invariant *)

LEMMA InitOK == Init => IInv
<1> SUFFICES ASSUME Init PROVE IInv
  OBVIOUS
<1>1. held = {} /\ IsFiniteSet(held) /\ Cardinality(held) = 0
  BY FS_EmptySet DEF Init
<1>2. /\ thread \in [Threads -> ThreadState]
      /\ cursor \in [Froms -> CursorState] /\ front \in [Froms -> CursorState]
  BY OutsideType, NoCursorType DEF Init
<1>3. port \in Seq(Completions) /\ Len(port) = 0 /\ arrived = 0
  BY EmptySeq DEF Init
<1>4. TypeOK
  <2>1. /\ disabled \in BOOLEAN /\ closing \in BOOLEAN /\ handed \subseteq 1 .. MaxArrivals
        /\ closes = 0 /\ arrived = 0
    BY DEF Init
  <2>3. closes \in 0 .. MaxCloses /\ arrived \in 0 .. MaxArrivals
    BY <2>1
  <2>2. held \subseteq [c : Completions, age : 0 .. Hold] /\ Cardinality(held) <= HoldCap
    BY <1>1
  <2> QED
    BY <1>2, <1>3, <2>1, <2>2, <2>3 DEF TypeOK, ThreadState, CursorState
<1>5. Control
  BY <1>1, <1>4
     DEF Init, Control, SortingIsFilled, HeldIsData, StockIsDisabled, Filled, Outside
<1>6. Taken = 0
  BY <1>3 DEF Taken
<1>7. Places
  BY <1>1, <1>3, <1>6
     DEF Init, Places, PortIsTail, EachIsSomewhere, HandsApart, HeldApart, HandedIsTaken,
         Filled, Outside
<1>8. CursorIsFrontier
  BY DEF Init, CursorIsFrontier
<1> QED
  BY <1>5, <1>7, <1>8 DEF IInv

LEMMA EnterOK ==
  ASSUME IInv, NEW t \in Threads, NEW to \in Timeouts, Enter(t, to) PROVE IInv'
<1>1. ~Filled(t) /\ thread[t].c = NoCompletion /\ thread[t] \in ThreadState
  BY EmptyHands, Hands DEF IInv, Control, Enter
<1> DEFINE r == [thread[t] EXCEPT !.pc = IF disabled THEN "stock" ELSE "look", !.timeout = to]
<1>2. /\ r \in ThreadState /\ r.c = NoCompletion
      /\ r.pc = IF disabled THEN "stock" ELSE "look"
  BY <1>1 DEF ThreadState
<1>3. thread' = [thread EXCEPT ![t] = r] /\ thread \in [Threads -> ThreadState]
  BY Typed DEF Enter, IInv, Control
<1>4. /\ thread' \in [Threads -> ThreadState] /\ thread'[t] = r
      /\ \A s \in Threads \ {t} : thread'[s] = thread[s]
  BY <1>2, <1>3
<1> QED
  BY <1>1, <1>2, <1>4, GoOK DEF Enter

\* A thread that goes from one place of the hook to another.
LEMMA GotoOK ==
  ASSUME IInv, NEW t \in Threads, thread[t].pc # "sort", NEW pc \in {"wait", "expired"},
         Goto(t, pc),
         UNCHANGED << port, held, cursor, disabled, closing, closes, arrived, handed, front >>
  PROVE  IInv'
<1>1. ~Filled(t) /\ thread[t].c = NoCompletion /\ thread[t] \in ThreadState
  BY EmptyHands, Hands DEF IInv, Control
<1> DEFINE r == [thread[t] EXCEPT !.pc = pc]
<1>2. r \in ThreadState /\ r.c = NoCompletion /\ r.pc = pc
  BY <1>1 DEF ThreadState
<1>3. thread' = [thread EXCEPT ![t] = r] /\ thread \in [Threads -> ThreadState]
  BY Typed DEF Goto, IInv, Control
<1>4. /\ thread' \in [Threads -> ThreadState] /\ thread'[t] = r
      /\ \A s \in Threads \ {t} : thread'[s] = thread[s]
  BY <1>2, <1>3
<1> QED
  BY <1>1, <1>2, <1>4, GoOK

\* A call that ends in its timeout.
LEMMA TimeoutOK ==
  ASSUME IInv, NEW t \in Threads, thread[t].pc # "sort",
         thread' = [thread EXCEPT ![t] = Outside],
         UNCHANGED << port, held, cursor, disabled, closing, closes, arrived, handed, front >>
  PROVE  IInv'
<1>1. ~Filled(t)
  BY EmptyHands
<1>2. /\ thread' \in [Threads -> ThreadState] /\ thread'[t] = Outside
      /\ \A s \in Threads \ {t} : thread'[s] = thread[s]
  BY Typed, OutsideType DEF IInv, Control
<1> QED
  BY <1>1, <1>2, GoOK DEF Outside

LEMMA DequeueOK == ASSUME IInv, NEW t \in Threads, Dequeue(t) PROVE IInv'
<1>1. ~Filled(t) /\ thread[t] \in ThreadState
  BY EmptyHands, Hands DEF IInv, Control, Dequeue
<1>2. Head(port) \in Completions /\ port' \in Seq(Completions)
  BY PortShrinks DEF IInv, Control, Dequeue
<1> DEFINE r == [thread[t] EXCEPT !.pc = "sort", !.c = Head(port)]
<1>3. r \in ThreadState /\ r.c = Head(port) /\ r.pc = "sort"
  BY <1>1, <1>2 DEF ThreadState
<1>4. thread' = [thread EXCEPT ![t] = r] /\ thread \in [Threads -> ThreadState]
  BY Typed DEF Dequeue, IInv, Control
<1>5. /\ thread' \in [Threads -> ThreadState] /\ thread'[t] = r
      /\ \A s \in Threads \ {t} : thread'[s] = thread[s]
  BY <1>3, <1>4
<1>6. TypeOK'
  BY <1>2, <1>5, TypeKept, Typed DEF Dequeue, IInv, Control, TypeOK
<1>7. SortingIsFilled' /\ StockIsDisabled'
  BY <1>2, <1>3, <1>5, ThreadControl, NoCompletionIsNone DEF Dequeue, IInv, Filled
<1>8. HeldIsData' /\ IsFiniteSet(held') /\ CursorIsFrontier'
  BY DEF Dequeue, IInv, Control, HeldIsData, CursorIsFrontier
<1>9. Places'
  BY <1>1, <1>3, <1>5, PlacesTake DEF Dequeue, IInv, Control
<1> QED
  BY <1>6, <1>7, <1>8, <1>9 DEF IInv, Control

\* IocpRelease, from either place.
LEMMA ReleaseOK ==
  ASSUME IInv, NEW t \in Threads, thread[t].pc # "sort", NEW h \in held, Release(t, h)
  PROVE  IInv'
<1>1. ~Filled(t)
  BY EmptyHands
<1>2. h.c \in Completions /\ h.c.kind = "data"
  BY Typed DEF IInv, Control, HeldIsData
<1>3. /\ thread' \in [Threads -> ThreadState]
      /\ handed' \subseteq 1 .. MaxArrivals
      /\ front' \in [Froms -> CursorState]
  BY <1>2, ReturnType DEF Release, IInv, Control
<1>4. cursor' \in [Froms -> CursorState]
  BY <1>2, CursorMoves DEF Release, IInv, Control
<1>5. /\ held' \subseteq [c : Completions, age : 0 .. Hold]
      /\ IsFiniteSet(held') /\ Cardinality(held') <= HoldCap
  BY HeldShrinks DEF Release, IInv, Control
<1>6. TypeOK'
  BY <1>3, <1>4, <1>5, TypeKept DEF Release, IInv, Control, TypeOK
<1>7. SortingIsFilled' /\ StockIsDisabled'
  BY ReturnControl DEF Release, IInv
<1>8. HeldIsData'
  BY DEF Release, IInv, Control, HeldIsData
<1>9. Places'
  BY <1>1, PlacesRelease DEF Release, IInv, Control
<1>10. CursorIsFrontier'
  BY <1>2, AdvanceTogether DEF Release
<1> QED
  BY <1>5, <1>6, <1>7, <1>8, <1>9, <1>10 DEF IInv, Control

\* A thread hands over the completion it has judged, and the cursor follows or stays.
LEMMA JudgedOK ==
  ASSUME IInv, NEW t \in Threads, Sorting(t), Return(t, thread[t].c),
         UNCHANGED << held, disabled >>, cursor' \in [Froms -> CursorState], CursorIsFrontier'
  PROVE  IInv'
<1>1. Filled(t) /\ thread[t].c \in Completions
  BY FullHands DEF Sorting
<1>2. /\ thread' \in [Threads -> ThreadState]
      /\ handed' \subseteq 1 .. MaxArrivals
      /\ front' \in [Froms -> CursorState]
  BY <1>1, ReturnType DEF IInv, Control
<1>3. TypeOK'
  BY <1>2, TypeKept DEF Sorting, IInv, Control, TypeOK
<1>4. SortingIsFilled' /\ StockIsDisabled'
  BY ReturnControl DEF IInv
<1>5. HeldIsData' /\ IsFiniteSet(held')
  BY DEF IInv, Control, HeldIsData
<1>6. Places'
  BY <1>1, PlacesHandOver DEF Sorting, IInv, Control
<1> QED
  BY <1>3, <1>4, <1>5, <1>6 DEF IInv, Control

LEMMA SortOtherOK == ASSUME IInv, NEW t \in Threads, SortOther(t) PROVE IInv'
<1>1. cursor' \in [Froms -> CursorState]
  BY Typed DEF SortOther, IInv, Control
<1>2. CursorIsFrontier'
  BY DEF SortOther, Ours, Return, IInv, CursorIsFrontier
<1> QED
  BY <1>1, <1>2, JudgedOK DEF SortOther

LEMMA SortAdvances ==
  ASSUME IInv, NEW t \in Threads, Sorting(t), Ours(thread[t].c), Return(t, thread[t].c),
         cursor' = [cursor EXCEPT ![thread[t].c.from] = Advanced(@, thread[t].c.seq)],
         UNCHANGED << held, disabled >>
  PROVE  IInv'
<1>1. thread[t].c \in Completions
  BY FullHands DEF Sorting
<1>2. cursor' \in [Froms -> CursorState]
  BY <1>1, CursorMoves DEF IInv, Control
<1>3. CursorIsFrontier'
  BY <1>1, AdvanceTogether DEF Ours
<1> QED
  BY <1>2, <1>3, JudgedOK

LEMMA SortInOrderOK == ASSUME IInv, NEW t \in Threads, SortInOrder(t) PROVE IInv'
BY SortAdvances DEF SortInOrder

LEMMA SortForcedOK == ASSUME IInv, NEW t \in Threads, SortForced(t) PROVE IInv'
BY SortAdvances DEF SortForced, AheadOfGap

\* What is not ahead of the cursor leaves the frontier where it is.
LEMMA SortLateOK == ASSUME IInv, NEW t \in Threads, SortLate(t) PROVE IInv'
<1> DEFINE c == thread[t].c
<1>1. c \in Completions /\ c.from \in Froms
  BY FullHands DEF SortLate, Sorting, Completions
<1>2. cursor \in [Froms -> CursorState] /\ cursor' = cursor
  BY Typed DEF SortLate, IInv, Control
<1>3. c.seq \in Seqs /\ cursor[c.from].last \in Seqs
  BY <1>1, <1>2 DEF Completions, CursorState
<1>4. SeqCmp(c.seq, cursor[c.from].last) \in Int
  BY <1>3 DEF SeqCmp, Seqs
<1>5. Advanced(cursor[c.from], c.seq) = cursor[c.from]
  BY <1>4 DEF SortLate, Advanced
<1>6. ~disabled => front' = front
  BY <1>1, <1>2, <1>5 DEF SortLate, Return, IInv, CursorIsFrontier
<1>7. CursorIsFrontier'
  BY <1>6 DEF SortLate, IInv, CursorIsFrontier
<1> QED
  BY <1>2, <1>7, JudgedOK DEF SortLate

\* Kept back while a slot is free, and the thread goes on to look or, when the watchdog
\* trips, to the real call.
LEMMA KeepOK ==
  ASSUME IInv, NEW t \in Threads, Sorting(t), AheadOfGap(thread[t].c),
         Cardinality(held) < HoldCap, KeepBack(t),
         thread' \in [Threads -> ThreadState], thread'[t].c = NoCompletion,
         \A s \in Threads \ {t} : thread'[s] = thread[s],
         thread'[t].pc # "sort", thread'[t].pc = "stock" => disabled',
         disabled' \in BOOLEAN, disabled => disabled'
  PROVE  IInv'
<1>1. Filled(t) /\ thread[t].c \in Completions
  BY FullHands DEF Sorting
<1>2. /\ held' \subseteq [c : Completions, age : 0 .. Hold]
      /\ IsFiniteSet(held') /\ Cardinality(held') <= HoldCap
  BY <1>1, HeldGrows DEF KeepBack, IInv, Control
<1>3. TypeOK'
  BY <1>2, TypeKept, Typed DEF KeepBack, Sorting, IInv, Control, TypeOK
<1>4. SortingIsFilled' /\ StockIsDisabled'
  BY ThreadControl DEF IInv, Filled
<1>5. HeldIsData'
  BY DEF KeepBack, AheadOfGap, Ours, IInv, Control, HeldIsData
<1>6. Places'
  BY <1>1, PlacesKeep DEF KeepBack, Sorting, IInv, Control
<1>7. CursorIsFrontier'
  BY DEF KeepBack, IInv, CursorIsFrontier
<1> QED
  BY <1>2, <1>3, <1>4, <1>5, <1>6, <1>7 DEF IInv, Control

LEMMA SortHoldOK == ASSUME IInv, NEW t \in Threads, SortHold(t) PROVE IInv'
<1>1. thread[t] \in ThreadState /\ thread \in [Threads -> ThreadState]
  BY Typed, Hands DEF IInv, Control
<1> DEFINE r == [thread[t] EXCEPT !.pc = "look", !.c = NoCompletion]
<1>2. r \in ThreadState /\ r.c = NoCompletion /\ r.pc = "look"
  BY <1>1 DEF ThreadState
<1>3. thread' = [thread EXCEPT ![t] = r]
  BY <1>1 DEF SortHold
<1>4. /\ thread' \in [Threads -> ThreadState] /\ thread'[t] = r
      /\ \A s \in Threads \ {t} : thread'[s] = thread[s]
  BY <1>1, <1>2, <1>3
<1>5. disabled' = disabled /\ disabled \in BOOLEAN
  BY DEF SortHold, IInv, Control, TypeOK
<1> QED
  BY <1>2, <1>4, <1>5, KeepOK DEF SortHold

LEMMA SortHoldTripOK == ASSUME IInv, NEW t \in Threads, SortHoldTrip(t) PROVE IInv'
<1>1. thread[t] \in ThreadState /\ thread \in [Threads -> ThreadState]
  BY Typed, Hands DEF IInv, Control
<1> DEFINE r == [thread[t] EXCEPT !.pc = "stock", !.timeout = 0, !.c = NoCompletion]
<1>2. r \in ThreadState /\ r.c = NoCompletion /\ r.pc = "stock"
  BY <1>1 DEF ThreadState
<1>3. thread' = [thread EXCEPT ![t] = r]
  BY <1>1 DEF SortHoldTrip
<1>4. /\ thread' \in [Threads -> ThreadState] /\ thread'[t] = r
      /\ \A s \in Threads \ {t} : thread'[s] = thread[s]
  BY <1>1, <1>2, <1>3
<1> QED
  BY <1>2, <1>4, KeepOK DEF SortHoldTrip

LEMMA StockDequeueOK == ASSUME IInv, NEW t \in Threads, StockDequeue(t) PROVE IInv'
<1>1. ~Filled(t) /\ disabled
  BY EmptyHands DEF StockDequeue, IInv, Control, StockIsDisabled
<1>2. Head(port) \in Completions /\ port' \in Seq(Completions)
  BY PortShrinks DEF IInv, Control, StockDequeue
<1>3. /\ thread' \in [Threads -> ThreadState]
      /\ handed' \subseteq 1 .. MaxArrivals
      /\ front' \in [Froms -> CursorState]
  BY <1>2, ReturnType DEF StockDequeue, IInv, Control
<1>4. TypeOK'
  BY <1>2, <1>3, TypeKept, Typed DEF StockDequeue, IInv, Control, TypeOK
<1>5. SortingIsFilled' /\ StockIsDisabled'
  BY ReturnControl DEF StockDequeue, IInv
<1>6. HeldIsData' /\ IsFiniteSet(held')
  BY DEF StockDequeue, IInv, Control, HeldIsData
<1>7. Places'
  BY <1>1, PlacesForward DEF StockDequeue, IInv, Control
<1>8. CursorIsFrontier'
  BY <1>1 DEF StockDequeue, CursorIsFrontier
<1> QED
  BY <1>4, <1>5, <1>6, <1>7, <1>8 DEF IInv, Control

\* The receives of a socket join the port, all at once when it is closed.
LEMMA QueueOK ==
  ASSUME IInv, NEW more \in Seq(Completions), port' = port \o more,
         arrived' = arrived + Len(more), arrived' <= MaxArrivals,
         \A i \in 1 .. Len(more) : more[i].n = arrived + i,
         closing' \in BOOLEAN, closes' \in 0 .. MaxCloses,
         UNCHANGED << thread, held, cursor, disabled, handed, front >>
  PROVE  IInv'
<1>1. port \in Seq(Completions) /\ Len(port) \in Nat /\ Len(more) \in Nat /\ arrived \in Nat
  BY LenProperties DEF IInv, Control, TypeOK
<1>2. /\ port' \in Seq(Completions)
      /\ Len(port') = Len(port) + Len(more)
      /\ \A i \in 1 .. Len(port) + Len(more) :
           port'[i] = IF i <= Len(port) THEN port[i] ELSE more[i - Len(port)]
  BY <1>1, ConcatProperties
<1>3. arrived' \in 0 .. MaxArrivals
  BY <1>1
<1>4. TypeOK'
  BY <1>2, <1>3 DEF IInv, Control, TypeOK
<1>5. Taken' = Taken
  BY <1>1, <1>2 DEF Taken
<1>6. PortIsTail'
  <2> SUFFICES ASSUME NEW i \in 1 .. Len(port') PROVE port'[i].n = Taken + i
    BY <1>5 DEF IInv, Places, PortIsTail
  <2>1. CASE i <= Len(port)
    BY <2>1, <1>1, <1>2 DEF IInv, Places, PortIsTail
  <2>2. CASE i > Len(port)
    <3>1. i - Len(port) \in 1 .. Len(more) /\ port'[i] = more[i - Len(port)]
      BY <2>2, <1>1, <1>2, SMTT(30)
    <3>2. more[i - Len(port)].n = arrived + (i - Len(port))
      BY <3>1
    <3> QED
      BY <3>1, <3>2, <1>1, <1>2 DEF Taken
  <2> QED
    BY <2>1, <2>2, <1>1, <1>2
<1>7. Places'
  BY <1>5, <1>6, PlacesQueue DEF IInv, Control
<1>8. SortingIsFilled' /\ StockIsDisabled' /\ HeldIsData' /\ IsFiniteSet(held')
  BY DEF IInv, Control, SortingIsFilled, StockIsDisabled, HeldIsData, Filled
<1>9. CursorIsFrontier'
  BY DEF IInv, CursorIsFrontier
<1> QED
  BY <1>4, <1>7, <1>8, <1>9 DEF IInv, Control

LEMMA CompleteOK ==
  ASSUME IInv, NEW k \in Froms, NEW q \in Numbers, Complete(k, q) PROVE IInv'
<1> DEFINE x == [n |-> arrived + 1, kind |-> "data", from |-> k, seq |-> q]
<1>1. arrived \in Nat /\ arrived + 1 <= MaxArrivals
  BY DEF Complete, IInv, Control, TypeOK
<1>2. x \in Completions
  BY <1>1 DEF Completions, Kinds
<1>3. port \in Seq(Completions)
  BY DEF IInv, Control, TypeOK
<1>4. port' = port \o << x >>
  BY <1>2, <1>3, AppendIsConcat DEF Complete
<1>5. << x >> \in Seq(Completions) /\ Len(<< x >>) = 1 /\ << x >>[1] = x
  BY <1>2
<1>6. closing' \in BOOLEAN /\ closes' \in 0 .. MaxCloses
  BY DEF Complete, IInv, Control, TypeOK
<1>7. arrived' = arrived + Len(<< x >>) /\ arrived' <= MaxArrivals
  BY <1>1, <1>5 DEF Complete
<1>8. \A i \in 1 .. Len(<< x >>) : << x >>[i].n = arrived + i
  BY <1>5
<1>9. UNCHANGED << thread, held, cursor, disabled, handed, front >>
  BY DEF Complete
<1> QED
  BY <1>4, <1>5, <1>6, <1>7, <1>8, <1>9, QueueOK

LEMMA CloseRealOK == ASSUME IInv, CloseReal PROVE IInv'
<1>1. PICK posted \in 0 .. MaxAborted, k \in Froms :
        /\ arrived + posted <= MaxArrivals
        /\ arrived' = arrived + posted
        /\ port' = port \o [i \in 1 .. posted |->
             [n |-> arrived + i, kind |-> "failed", from |-> k, seq |-> 0]]
  BY DEF CloseReal
<1> DEFINE more == [i \in 1 .. posted |->
             [n |-> arrived + i, kind |-> "failed", from |-> k, seq |-> 0]]
<1>2. posted \in Nat /\ arrived \in Nat
  BY DEF IInv, Control, TypeOK
<1>3. \A i \in 1 .. posted : more[i] \in Completions
  BY <1>1, <1>2 DEF Completions, Kinds, Seqs
<1>4. more \in [1 .. posted -> Completions]
  BY <1>3
<1>5. more \in Seq(Completions) /\ Len(more) = posted
  BY <1>2, <1>4
<1>6. \A i \in 1 .. Len(more) : more[i].n = arrived + i
  BY <1>5
<1>7. closing' \in BOOLEAN /\ closes' \in 0 .. MaxCloses
  BY DEF CloseReal, IInv, Control, TypeOK
<1>8. UNCHANGED << thread, held, cursor, disabled, handed, front >>
  BY DEF CloseReal
<1>9. port' = port \o more /\ arrived' = arrived + Len(more) /\ arrived' <= MaxArrivals
  BY <1>1, <1>5
<1> HIDE DEF more
<1> QED
  BY <1>5, <1>6, <1>7, <1>8, <1>9, QueueOK

\* Cursor and frontier start over together.
LEMMA CloseResetOK == ASSUME IInv, CloseReset PROVE IInv'
<1>1. cursor' \in [Froms -> CursorState] /\ front' \in [Froms -> CursorState]
  BY NoCursorType DEF CloseReset
<1>2. TypeOK'
  BY <1>1 DEF CloseReset, IInv, Control, TypeOK, CursorState
<1>3. SortingIsFilled' /\ StockIsDisabled' /\ HeldIsData' /\ IsFiniteSet(held')
  BY DEF CloseReset, IInv, Control, SortingIsFilled, StockIsDisabled, HeldIsData, Filled
<1>4. Places'
  BY PlacesStay DEF CloseReset, IInv, Control
<1>5. CursorIsFrontier'
  BY DEF CloseReset, CursorIsFrontier
<1> QED
  BY <1>2, <1>3, <1>4, <1>5 DEF IInv, Control

\* The clock ages what is held and moves nothing.
LEMMA TickOK == ASSUME IInv, Tick PROVE IInv'
<1> DEFINE older(h) == [h EXCEPT !.age = Min2(@ + 1, Hold)]
<1> DEFINE f == [h \in held |-> older(h)]
<1>1. /\ thread \in [Threads -> ThreadState]
      /\ \A h \in held : h \in [c : Completions, age : 0 .. Hold]
  BY Typed DEF IInv, Control
<1>2. /\ held' = {older(h) : h \in held}
      /\ \A h \in held : older(h) \in [c : Completions, age : 0 .. Hold] /\ older(h).c = h.c
  BY <1>1, HoldType DEF Tick, Min2
<1>3. f \in Surjection(held, held')
  BY <1>2 DEF Surjection
<1> HIDE DEF older, f
<1>4. IsFiniteSet(held') /\ Cardinality(held') <= HoldCap
  <2>1. IsFiniteSet(held) /\ Cardinality(held) <= HoldCap
    BY DEF IInv, Control, TypeOK
  <2>2. IsFiniteSet(held') /\ Cardinality(held') <= Cardinality(held)
    BY <2>1, <1>3, FS_Surjection
  <2>3. Cardinality(held) \in Nat /\ Cardinality(held') \in Nat
    BY <2>1, <2>2, FS_CardinalityType
  <2> QED
    BY <2>1, <2>2, <2>3
<1>5. held' \subseteq [c : Completions, age : 0 .. Hold]
  BY <1>2
<1>6. \A t \in Threads : thread'[t] \in ThreadState /\ thread'[t].c = thread[t].c
                           /\ thread'[t].pc = thread[t].pc
  <2> SUFFICES ASSUME NEW t \in Threads
               PROVE  thread'[t] \in ThreadState /\ thread'[t].c = thread[t].c
                        /\ thread'[t].pc = thread[t].pc
    OBVIOUS
  <2>1. /\ thread[t] \in ThreadState
        /\ thread[t].timeout \in Nat /\ thread[t].spent \in Nat
    <3>1. thread[t] \in ThreadState
      BY <1>1
    <3>2. thread[t].timeout \in Timeouts \cup {0, Infinite}
      BY <3>1 DEF ThreadState
    <3>3. thread[t].spent \in 0 .. MaxSpent
      BY <3>1 DEF ThreadState
    <3>4. thread[t].spent \in Nat
      BY <3>3, MaxSpentType
    <3>5. Timeouts \cup {0, Infinite} \subseteq Nat
      OBVIOUS
    <3> QED
      BY <3>1, <3>2, <3>4, <3>5
  <2>2. Budget(thread[t].timeout) * WatchdogX + 1 \in 0 .. MaxSpent
    BY <2>1, BudgetBound
  <2>3. Min2(thread[t].spent + 1, Budget(thread[t].timeout) * WatchdogX + 1) \in 0 .. MaxSpent
    BY <2>1, <2>2, MaxSpentType DEF Min2
  <2>4. thread'[t] = IF thread[t].pc \in Timed
           THEN [thread[t] EXCEPT !.spent =
                   Min2(thread[t].spent + 1, Budget(thread[t].timeout) * WatchdogX + 1)]
           ELSE thread[t]
    BY DEF Tick
  <2> QED
    BY <2>1, <2>3, <2>4 DEF ThreadState
<1>7. thread' \in [Threads -> ThreadState]
  BY <1>6 DEF Tick
<1>8. TypeOK'
  BY <1>4, <1>5, <1>7, TypeKept, Typed DEF Tick, IInv, Control, TypeOK
<1>9. SortingIsFilled' /\ StockIsDisabled'
  BY <1>6 DEF Tick, IInv, Control, SortingIsFilled, StockIsDisabled, Filled
<1>10. HeldIsData'
  BY <1>2 DEF IInv, Control, HeldIsData
<1>11. Places'
  <2>1. InHold' = InHold
    <3>1. \A n : (\E g \in held' : n = g.c.n) <=> (\E h \in held : n = h.c.n)
      BY <1>2
    <3> QED
      BY <3>1 DEF InHold
  <2>2. InHands' = InHands /\ Taken' = Taken /\ \A t \in Threads : Filled(t)' <=> Filled(t)
    BY <1>6 DEF Tick, InHands, Taken, Filled
  <2>3. PortIsTail' /\ EachIsSomewhere' /\ HandedIsTaken'
    BY <2>1, <2>2 DEF Tick, IInv, Places, PortIsTail, EachIsSomewhere, HandedIsTaken
  <2>4. HandsApart'
    BY <1>6, <2>2 DEF Tick, IInv, Places, HandsApart
  <2>5. HeldApart'
    <3> SUFFICES ASSUME NEW h \in held'
                 PROVE  /\ h.c.n \in (1 .. Taken) \ handed
                        /\ \A g \in held' : g.c.n = h.c.n => g = h
                        /\ \A t \in Threads : thread'[t].c.n # h.c.n
      BY <2>2 DEF Tick, HeldApart
    <3>1. PICK i \in held : h = older(i) /\ h.c = i.c
      BY <1>2
    <3>2. /\ i.c.n \in (1 .. Taken) \ handed
          /\ \A g \in held : g.c.n = i.c.n => g = i
          /\ \A t \in Threads : thread[t].c.n # i.c.n
      BY DEF IInv, Places, HeldApart
    <3>3. ASSUME NEW g \in held', g.c.n = h.c.n PROVE g = h
      <4>1. PICK j \in held : g = older(j) /\ g.c = j.c
        BY <1>2
      <4>2. j = i
        BY <3>1, <3>2, <3>3, <4>1
      <4> QED
        BY <3>1, <4>1, <4>2
    <3> QED
      BY <3>1, <3>2, <3>3, <1>6
  <2> QED
    BY <2>3, <2>4, <2>5 DEF Places
<1>12. CursorIsFrontier'
  BY DEF Tick, IInv, CursorIsFrontier
<1> QED
  BY <1>4, <1>8, <1>9, <1>10, <1>11, <1>12 DEF IInv, Control

LEMMA InsideOK == ASSUME IInv, NEW t \in Threads, Inside(t) PROVE IInv'
<1>1. CASE LookReady(t)
  <2>1. PICK h \in Ready : Release(t, h)
    BY <1>1 DEF LookReady
  <2>2. h \in held /\ thread[t].pc # "sort"
    BY <1>1 DEF LookReady, Ready, Successors
  <2> QED
    BY <2>1, <2>2, ReleaseOK
<1>2. CASE ReleaseOldest(t)
  <2>1. PICK h \in Oldest : Release(t, h)
    BY <1>2 DEF ReleaseOldest
  <2>2. h \in held /\ thread[t].pc # "sort"
    BY <1>2 DEF ReleaseOldest, Oldest
  <2> QED
    BY <2>1, <2>2, ReleaseOK
<1>3. CASE LookNone(t)
  BY <1>3, GotoOK DEF LookNone
<1>4. CASE Expire(t)
  BY <1>4, GotoOK DEF Expire
<1>5. CASE Dequeue(t)
  BY <1>5, DequeueOK
<1>6. CASE ReturnTimeout(t)
  BY <1>6, TimeoutOK DEF ReturnTimeout
<1>7. CASE StockTimeout(t)
  BY <1>7, TimeoutOK DEF StockTimeout
<1>8. CASE SortOther(t) \/ SortInOrder(t) \/ SortLate(t) \/ SortForced(t)
  BY <1>8, SortOtherOK, SortInOrderOK, SortLateOK, SortForcedOK
<1>9. CASE SortHold(t) \/ SortHoldTrip(t)
  BY <1>9, SortHoldOK, SortHoldTripOK
<1>10. CASE StockDequeue(t)
  BY <1>10, StockDequeueOK
<1>11. CASE LookEarly(t)
  <2>1. PICK h \in Wrapped(t) : Release(t, h)
    BY <1>11 DEF LookEarly
  <2>2. h \in held /\ thread[t].pc # "sort"
    BY <1>11 DEF LookEarly, Wrapped
  <2> QED
    BY <2>1, <2>2, ReleaseOK
<1> QED
  BY <1>1, <1>2, <1>3, <1>4, <1>5, <1>6, <1>7, <1>8, <1>9, <1>10, <1>11 DEF Inside

LEMMA StepOK == IInv /\ [Next]_vars => IInv'
<1> SUFFICES ASSUME IInv, [Next]_vars PROVE IInv'
  OBVIOUS
<1>1. ASSUME NEW k \in Froms, NEW q \in Numbers, Complete(k, q) PROVE IInv'
  BY <1>1, CompleteOK
<1>2. ASSUME NEW t \in Threads, Inside(t) PROVE IInv'
  BY <1>2, InsideOK
<1>3. ASSUME NEW t \in Threads, NEW to \in Timeouts, Enter(t, to) PROVE IInv'
  BY <1>3, EnterOK
<1>4. CASE CloseReal \/ CloseReset \/ Tick
  BY <1>4, CloseRealOK, CloseResetOK, TickOK
<1>5. CASE UNCHANGED vars
  <2>1. Control'
    BY <1>5 DEF vars, IInv, Control, TypeOK, SortingIsFilled, HeldIsData, StockIsDisabled, Filled
  <2>2. Places'
    BY <1>5, PlacesStay DEF vars, IInv, Control
  <2>3. CursorIsFrontier'
    BY <1>5 DEF vars, IInv, CursorIsFrontier
  <2> QED
    BY <2>1, <2>2, <2>3 DEF IInv
<1> QED
  BY <1>1, <1>2, <1>3, <1>4, <1>5 DEF Next

\* The inductive invariant holds throughout.
THEOREM Invariance == Safety => []IInv
BY InitOK, StepOK, PTL DEF Safety

-----------------------------------------------------------------------------
(* What follows *)

\* Every variable keeps its type, the held table its size.
THEOREM TypeCorrect == Spec => []TypeOK
<1>1. IInv => TypeOK
  BY DEF IInv, Control
<1> QED
  BY <1>1, Invariance, PTL DEF Spec

\* Completions are judged in or out of order by what the game really has, for any number
\* of threads in the hook: every hand-over, from the port, the held table or past it,
\* moves the cursor as far as it moves the game.
THEOREM CursorIsTrue == Spec => []CursorIsFrontier
<1>1. IInv => CursorIsFrontier
  BY DEF IInv
<1> QED
  BY <1>1, Invariance, PTL DEF Spec

-----------------------------------------------------------------------------
(* The places, counted *)

LEMMA HandsCounted ==
  ASSUME IInv
  PROVE  /\ IsFiniteSet(InHands)
         /\ Cardinality(InHands) = Cardinality({t \in Threads : thread[t].c # NoCompletion})
         /\ InHands = {thread[t].c.n : t \in {s \in Threads : Filled(s)}}
<1> DEFINE full == {t \in Threads : Filled(t)}
<1> DEFINE f == [t \in full |-> thread[t].c.n]
<1>1. full \in SUBSET Threads /\ IsFiniteSet(full)
  BY FS_Subset
<1>2. \A t \in Threads : Filled(t) <=> thread[t].c.n # 0
  BY Hands DEF IInv, Control
<1>3. \A n : n \in InHands <=> \E t \in full : n = thread[t].c.n
  BY <1>2 DEF InHands
<1>4. f \in Surjection(full, InHands)
  BY <1>3 DEF Surjection
<1>5. \A s, t \in full : f[s] = f[t] => s = t
  BY DEF IInv, Places, HandsApart
<1>6. f \in Injection(full, InHands)
  BY <1>4, <1>5 DEF Surjection, Injection, IsInjective
<1>7. IsFiniteSet(InHands) /\ Cardinality(InHands) = Cardinality(full)
  BY <1>1, <1>4, <1>6, FS_Surjection
<1>8. full = {t \in Threads : thread[t].c # NoCompletion}
  BY DEF Filled
<1>9. InHands = {thread[t].c.n : t \in full}
  BY <1>3
<1> QED
  BY <1>7, <1>8, <1>9

LEMMA HoldCounted ==
  ASSUME IInv
  PROVE  IsFiniteSet(InHold) /\ Cardinality(InHold) = Cardinality(held)
<1> DEFINE f == [h \in held |-> h.c.n]
<1>1. IsFiniteSet(held)
  BY DEF IInv, Control
<1>2. f \in Surjection(held, InHold)
  BY DEF InHold, Surjection
<1>3. \A g, h \in held : f[g] = f[h] => g = h
  BY DEF IInv, Places, HeldApart
<1>4. f \in Injection(held, InHold)
  BY <1>2, <1>3 DEF Surjection, Injection, IsInjective
<1> QED
  BY <1>1, <1>2, <1>4, FS_Surjection

LEMMA PortCounted ==
  ASSUME IInv
  PROVE  /\ InPort = Taken + 1 .. arrived
         /\ Taken \in 0 .. arrived /\ arrived \in Nat
         /\ Len(port) = arrived - Taken
<1>1. port \in Seq(Completions) /\ Len(port) \in Nat /\ arrived \in Nat
        /\ DOMAIN port = 1 .. Len(port)
  BY LenProperties DEF IInv, Control, TypeOK
<1>2. Taken \in 0 .. arrived /\ Len(port) = arrived - Taken
  BY <1>1 DEF Taken, IInv, Places, PortIsTail
<1>3. \A i \in 1 .. Len(port) : port[i].n = Taken + i
  BY DEF IInv, Places, PortIsTail
<1>4. ASSUME NEW n \in Taken + 1 .. arrived PROVE n \in InPort
  <2>1. n - Taken \in 1 .. Len(port)
    BY <1>1, <1>2
  <2>2. port[n - Taken].n = n
    BY <1>2, <1>3, <2>1
  <2> QED
    BY <1>1, <2>1, <2>2 DEF InPort
<1>5. ASSUME NEW n \in InPort PROVE n \in Taken + 1 .. arrived
  <2>1. PICK i \in 1 .. Len(port) : n = port[i].n
    BY <1>1 DEF InPort
  <2> QED
    BY <1>1, <1>2, <1>3, <2>1
<1> QED
  BY <1>1, <1>2, <1>4, <1>5

LEMMA OnePlace == IInv => EachInOnePlace
<1> SUFFICES ASSUME IInv PROVE EachInOnePlace
  OBVIOUS
<1>1. /\ InPort = Taken + 1 .. arrived
      /\ Taken \in 0 .. arrived /\ arrived \in Nat
      /\ Len(port) = arrived - Taken
  BY PortCounted
<1>2. /\ handed \subseteq 1 .. Taken
      /\ InHold \subseteq (1 .. Taken) \ handed
      /\ InHands \subseteq (1 .. Taken) \ (handed \cup InHold)
  <2>1. handed \subseteq 1 .. Taken
    BY DEF IInv, Places, HandedIsTaken
  <2>2. InHold \subseteq (1 .. Taken) \ handed
    BY DEF IInv, Places, HeldApart, InHold
  <2>3. InHands \subseteq (1 .. Taken) \ handed
    BY HandsCounted DEF IInv, Places, HandsApart
  <2>4. InHands \cap InHold = {}
    BY DEF IInv, Places, HeldApart, InHold, InHands
  <2> QED
    BY <2>1, <2>2, <2>3, <2>4
<1>3. 1 .. Taken = (handed \cup InHold) \cup InHands
  BY <1>2 DEF IInv, Places, EachIsSomewhere
<1>4. InPort \cup InHands \cup InHold \cup handed = 1 .. arrived
  BY <1>1, <1>3
<1>5. /\ IsFiniteSet(1 .. Taken) /\ Cardinality(1 .. Taken) = Taken
  <2>1. Taken \in Int /\ Taken >= 0
    BY <1>1
  <2>2. Cardinality(1 .. Taken) = IF 1 > Taken THEN 0 ELSE Taken - 1 + 1
    BY <2>1, FS_Interval
  <2> QED
    BY <2>1, <2>2, FS_Interval
<1>6. IsFiniteSet(handed)
  BY <1>2, <1>5, FS_Subset
<1>7. /\ IsFiniteSet(handed \cup InHold)
      /\ Cardinality(handed \cup InHold) = Cardinality(handed) + Cardinality(InHold)
  <2>1. handed \cap InHold = {}
    BY <1>2
  <2>2. Cardinality(handed \cap InHold) = 0
    BY <2>1, FS_EmptySet
  <2>3. /\ IsFiniteSet(handed \cup InHold)
        /\ Cardinality(handed \cup InHold)
             = Cardinality(handed) + Cardinality(InHold) - Cardinality(handed \cap InHold)
    BY <1>6, HoldCounted, FS_Union
  <2>4. Cardinality(handed) \in Nat /\ Cardinality(InHold) \in Nat
    BY <1>6, HoldCounted, FS_CardinalityType
  <2> QED
    BY <2>2, <2>3, <2>4
<1>8. Cardinality((handed \cup InHold) \cup InHands)
        = Cardinality(handed) + Cardinality(InHold) + Cardinality(InHands)
  <2>1. (handed \cup InHold) \cap InHands = {}
    BY <1>2
  <2>2. Cardinality((handed \cup InHold) \cup InHands)
          = Cardinality(handed \cup InHold) + Cardinality(InHands) - 0
    BY <2>1, <1>7, HandsCounted, FS_Union, FS_EmptySet
  <2>3. /\ Cardinality(handed \cup InHold) \in Nat /\ Cardinality(InHands) \in Nat
        /\ Cardinality(handed) \in Nat /\ Cardinality(InHold) \in Nat
    BY <1>6, <1>7, HandsCounted, HoldCounted, FS_CardinalityType
  <2> QED
    BY <2>2, <2>3, <1>7
<1>9. Taken = Cardinality(handed) + Cardinality(held)
                + Cardinality({t \in Threads : thread[t].c # NoCompletion})
  BY <1>3, <1>5, <1>8, HandsCounted, HoldCounted
<1>10. /\ Cardinality(handed) \in Nat /\ Cardinality(held) \in Nat
       /\ Cardinality({t \in Threads : thread[t].c # NoCompletion}) \in Nat
  <2>1. /\ Cardinality(InHands) \in Nat
        /\ Cardinality(handed) \in Nat /\ Cardinality(InHold) \in Nat
    BY <1>6, HandsCounted, HoldCounted, FS_CardinalityType
  <2> QED
    BY <2>1, HandsCounted, HoldCounted
<1> DEFINE full == {t \in Threads : thread[t].c # NoCompletion}
<1>11. Len(port) + Cardinality(full) + Cardinality(held) + Cardinality(handed) = arrived
  <2> HIDE DEF full
  <2>1. Taken = Cardinality(handed) + Cardinality(held) + Cardinality(full)
    BY <1>9 DEF full
  <2>2. Cardinality(full) \in Nat
    BY <1>10 DEF full
  <2>3. Cardinality(handed) \in Nat /\ Cardinality(held) \in Nat
    BY <1>10
  <2>4. Taken \in Nat /\ arrived \in Nat /\ Len(port) = arrived - Taken
    BY <1>1
  <2>5. Cardinality(full) + Cardinality(held) + Cardinality(handed) = Taken
    BY <2>1, <2>2, <2>3
  <2>6. Len(port) + Taken = arrived
    BY <2>4
  <2> QED
    BY <2>2, <2>3, <2>4, <2>5, <2>6
<1> QED
  BY <1>4, <1>11 DEF EachInOnePlace

\* No completion is lost on its way through the threads and the held table, and none is
\* handed over twice, whatever the threads do while others hold and release.
THEOREM NothingLost == Spec => []EachInOnePlace
BY OnePlace, Invariance, PTL DEF Spec

-----------------------------------------------------------------------------
(* The hook implements a port that is first-in first-out up to its slack *)

\* What the other threads and the held table can have between them.
LEMMA FewElsewhere ==
  ASSUME IInv, NEW t \in Threads
  PROVE  LET K == InHold \cup (InHands \ {thread[t].c.n})
         IN  IsFiniteSet(K) /\ Cardinality(K) <= HoldCap + Cardinality(Threads) - 1
<1> DEFINE rest == {s \in Threads : Filled(s)} \ {t}
<1> DEFINE theirs == InHands \ {thread[t].c.n}
<1> DEFINE f == [s \in rest |-> thread[s].c.n]
<1>1. \A s \in rest : thread[s].c.n \in theirs
  BY HandsCounted DEF IInv, Places, HandsApart
<1>2. \A n \in theirs : \E s \in rest : thread[s].c.n = n
  BY HandsCounted
<1>3. f \in Surjection(rest, theirs)
  BY <1>1, <1>2 DEF Surjection
<1>4. /\ IsFiniteSet(Threads \ {t}) /\ Cardinality(Threads \ {t}) = Cardinality(Threads) - 1
      /\ Cardinality(Threads) \in Nat
  BY FS_RemoveElement, FS_CardinalityType
<1>5. IsFiniteSet(rest) /\ Cardinality(rest) <= Cardinality(Threads) - 1
  <2>1. rest \in SUBSET (Threads \ {t})
    OBVIOUS
  <2> QED
    BY <2>1, <1>4, FS_Subset
<1>6. IsFiniteSet(theirs) /\ Cardinality(theirs) <= Cardinality(rest)
  BY <1>3, <1>5, FS_Surjection
<1>7. IsFiniteSet(InHold) /\ Cardinality(InHold) <= HoldCap
  BY HoldCounted DEF IInv, Control, TypeOK
<1> HIDE DEF rest, theirs, f
<1>8. /\ IsFiniteSet(InHold \cup theirs)
      /\ Cardinality(InHold \cup theirs)
           = Cardinality(InHold) + Cardinality(theirs) - Cardinality(InHold \cap theirs)
  BY <1>6, <1>7, FS_Union
<1>9. /\ Cardinality(InHold \cap theirs) \in Nat /\ Cardinality(InHold) \in Nat
      /\ Cardinality(theirs) \in Nat /\ Cardinality(rest) \in Nat
  BY <1>5, <1>6, <1>7, FS_Intersection, FS_CardinalityType
<1>10. Cardinality(InHold \cup theirs) <= HoldCap + Cardinality(Threads) - 1
  BY <1>4, <1>5, <1>6, <1>7, <1>8, <1>9
<1> QED
  BY <1>8, <1>10 DEF theirs

\* The instance counts as this module does.
LEMMA SameCardinality == ASSUME NEW S PROVE Port!Cardinality(S) = Cardinality(S)
BY DEF Port!Cardinality, Cardinality

\* A hand-over overtakes only what is elsewhere: the port's own are all younger.
LEMMA HandOver ==
  ASSUME IInv, NEW t \in Threads, NEW n \in 1 .. Taken + 1, n \in (1 .. arrived) \ handed,
         n = thread[t].c.n \/ ~Filled(t),
         handed' = handed \cup {n}, arrived' = arrived
  PROVE  Port!Next
<1> DEFINE earlier == {m \in Port!Waiting : m < n}
<1> DEFINE K == InHold \cup (InHands \ {thread[t].c.n})
<1>1. IsFiniteSet(K) /\ Cardinality(K) <= HoldCap + Cardinality(Threads) - 1
  BY FewElsewhere
<1>2. earlier \subseteq K
  <2> SUFFICES ASSUME NEW m \in 1 .. arrived, m \notin handed, m < n PROVE m \in K
    BY DEF Port!Waiting
  <2>1. m \in 1 .. Taken
    BY PortCounted
  <2>2. m \in InHold \/ m \in InHands
    BY <2>1 DEF IInv, Places, EachIsSomewhere
  <2>3. m # thread[t].c.n
    BY <2>1, Hands DEF IInv, Control
  <2> QED
    BY <2>2, <2>3
<1>3. Cardinality(earlier) <= HoldCap + Cardinality(Threads) - 1
  <2> HIDE DEF earlier, K
  <2>1. Cardinality(earlier) <= Cardinality(K) /\ IsFiniteSet(earlier)
    BY <1>1, <1>2, FS_Subset
  <2>2. /\ Cardinality(earlier) \in Nat /\ Cardinality(K) \in Nat
        /\ Cardinality(Threads) \in Nat
    BY <2>1, <1>1, FS_CardinalityType
  <2> QED
    BY <2>1, <2>2, <1>1
<1>4. n \in Port!Waiting
  BY DEF Port!Waiting
<1>5. Port!Hand(n)
  <2>1. Port!Cardinality({m \in Port!Waiting : m < n}) <= HoldCap + Cardinality(Threads) - 1
    BY <1>3, SameCardinality
  <2>2. n \in Port!Waiting /\ handed' = handed \cup {n} /\ UNCHANGED arrived
    BY <1>4
  <2> HIDE DEF earlier, K
  <2> QED
    BY <2>1, <2>2 DEF Port!Hand
<1> QED
  BY <1>4, <1>5 DEF Port!Next

\* Completions are queued, or none when the socket closed had no receives out.
LEMMA QueueStep ==
  ASSUME IInv, NEW more \in Nat, arrived' = arrived + more, arrived' <= MaxArrivals,
         UNCHANGED handed
  PROVE  [Port!Next]_Port!vars
<1>1. arrived \in Nat
  BY DEF IInv, Control, TypeOK
<1>2. CASE more = 0
  BY <1>1, <1>2 DEF Port!vars
<1>3. CASE more > 0
  <2>1. arrived' \in arrived + 1 .. MaxArrivals
    BY <1>1, <1>3
  <2> QED
    BY <2>1 DEF Port!Next, Port!Queue
<1> QED
  BY <1>2, <1>3

LEMMA FromHands ==
  ASSUME IInv, NEW t \in Threads, Sorting(t), Return(t, thread[t].c)
  PROVE  Port!Next
<1>1. Filled(t)
  BY FullHands DEF Sorting
<1>2. thread[t].c.n \in (1 .. Taken) \ handed
  BY <1>1 DEF IInv, Places, HandsApart
<1>3. thread[t].c.n \in 1 .. Taken + 1 /\ thread[t].c.n \in 1 .. arrived
  BY <1>2, PortCounted
<1>4. handed' = handed \cup {thread[t].c.n} /\ arrived' = arrived
  BY DEF Return, Sorting
<1> QED
  BY <1>2, <1>3, <1>4, HandOver

LEMMA FromHold ==
  ASSUME IInv, NEW t \in Threads, thread[t].pc # "sort", NEW h \in held, Release(t, h)
  PROVE  Port!Next
<1>1. ~Filled(t)
  BY EmptyHands
<1>2. h.c.n \in (1 .. Taken) \ handed
  BY DEF IInv, Places, HeldApart
<1>3. h.c.n \in 1 .. Taken + 1 /\ h.c.n \in 1 .. arrived
  BY <1>2, PortCounted
<1>4. handed' = handed \cup {h.c.n} /\ arrived' = arrived
  BY DEF Return, Release
<1> QED
  BY <1>1, <1>2, <1>3, <1>4, HandOver

LEMMA FromPort == ASSUME IInv, NEW t \in Threads, StockDequeue(t) PROVE Port!Next
<1>1. ~Filled(t)
  BY EmptyHands DEF StockDequeue
<1>2. Head(port).n = Taken + 1 /\ Taken \in Nat /\ Taken' = Taken + 1
  BY FirstOfPort DEF StockDequeue, IInv, Control
<1>3. Taken < arrived /\ arrived \in Nat
  BY PortCounted, EmptySeq DEF StockDequeue, IInv, Control, TypeOK
<1>4. Head(port).n \in 1 .. Taken + 1 /\ Head(port).n \in (1 .. arrived) \ handed
  BY <1>2, <1>3 DEF IInv, Places, HandedIsTaken
<1>5. handed' = handed \cup {Head(port).n} /\ arrived' = arrived
  BY DEF Return, StockDequeue
<1> QED
  BY <1>1, <1>4, <1>5, HandOver

LEMMA InsideRefines == ASSUME IInv, NEW t \in Threads, Inside(t) PROVE [Port!Next]_Port!vars
<1>1. CASE LookReady(t)
  <2>1. PICK h \in Ready : Release(t, h)
    BY <1>1 DEF LookReady
  <2>2. h \in held /\ thread[t].pc # "sort"
    BY <1>1 DEF LookReady, Ready, Successors
  <2> QED
    BY <2>1, <2>2, FromHold
<1>2. CASE ReleaseOldest(t)
  <2>1. PICK h \in Oldest : Release(t, h)
    BY <1>2 DEF ReleaseOldest
  <2>2. h \in held /\ thread[t].pc # "sort"
    BY <1>2 DEF ReleaseOldest, Oldest
  <2> QED
    BY <2>1, <2>2, FromHold
<1>3. CASE LookNone(t) \/ Expire(t) \/ Dequeue(t) \/ ReturnTimeout(t) \/ StockTimeout(t)
  BY <1>3 DEF LookNone, Expire, Dequeue, ReturnTimeout, StockTimeout, Port!vars
<1>4. CASE SortOther(t) \/ SortInOrder(t) \/ SortLate(t) \/ SortForced(t)
  BY <1>4, FromHands DEF SortOther, SortInOrder, SortLate, SortForced
<1>5. CASE SortHold(t) \/ SortHoldTrip(t)
  BY <1>5 DEF SortHold, SortHoldTrip, Sorting, KeepBack, Port!vars
<1>6. CASE StockDequeue(t)
  BY <1>6, FromPort
<1>7. CASE LookEarly(t)
  <2>1. PICK h \in Wrapped(t) : Release(t, h)
    BY <1>7 DEF LookEarly
  <2>2. h \in held /\ thread[t].pc # "sort"
    BY <1>7 DEF LookEarly, Wrapped
  <2> QED
    BY <2>1, <2>2, FromHold
<1> QED
  BY <1>1, <1>2, <1>3, <1>4, <1>5, <1>6, <1>7 DEF Inside

LEMMA StepRefines == IInv /\ [Next]_vars => [Port!Next]_Port!vars
<1> SUFFICES ASSUME IInv, [Next]_vars PROVE [Port!Next]_Port!vars
  OBVIOUS
<1>1. ASSUME NEW k \in Froms, NEW q \in Numbers, Complete(k, q) PROVE [Port!Next]_Port!vars
  <2>1. arrived \in Nat /\ arrived' = arrived + 1 /\ arrived' <= MaxArrivals
    BY <1>1 DEF Complete, IInv, Control, TypeOK
  <2> QED
    BY <1>1, <2>1, QueueStep DEF Complete
<1>2. CASE CloseReal
  <2>1. PICK posted \in 0 .. MaxAborted :
          arrived + posted <= MaxArrivals /\ arrived' = arrived + posted
    BY <1>2 DEF CloseReal
  <2>2. posted \in Nat /\ UNCHANGED handed
    BY <1>2 DEF CloseReal
  <2> QED
    BY <2>1, <2>2, QueueStep
<1>3. ASSUME NEW t \in Threads, Inside(t) PROVE [Port!Next]_Port!vars
  BY <1>3, InsideRefines
<1>4. ASSUME NEW t \in Threads, NEW to \in Timeouts, Enter(t, to) PROVE [Port!Next]_Port!vars
  BY <1>4 DEF Enter, Port!vars
<1>5. CASE CloseReset \/ Tick \/ UNCHANGED vars
  BY <1>5 DEF CloseReset, Tick, vars, Port!vars
<1> QED
  BY <1>1, <1>2, <1>3, <1>4, <1>5 DEF Next

\* The hook implements the port of CompletionPort: a completion comes to the game once
\* and overtakes at most the held table and the hands of the other threads, on every path
\* out: in order, late, forced, released, after a close or past the disabled hook.
THEOREM ImplementsPort == Spec => OvertakesFew
<1>1. Init => Port!Init
  BY DEF Init, Port!Init
<1> QED
  BY <1>1, StepRefines, Invariance, PTL DEF Spec, Safety, OvertakesFew, Port!Safety
=============================================================================
