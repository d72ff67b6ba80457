------------------------- MODULE GdacsAdapterProofs -------------------------
(***************************************************************************)
(* The polling loop implements WindowPoller twice over, once for each of   *)
(* its queries: for any list of events, any size of a page and any number  *)
(* of changes, failures, delays and restarts.                              *)
(***************************************************************************)
EXTENDS GdacsAdapter, FiniteSetTheorems, FunctionTheorems, TLAPS

Polling == pc \in {"fetch", "backoff", "send", "accepted"}

\* Nothing is known of the event but what the source says.
Missing(e) == e \notin fresh \cup overlooked

\* Types, and where the loop starts over.
Types ==
    /\ age \in [Events -> 0..(WindowLength + 1)]
    /\ elapsed \in 0..(WindowLength + 1)
    /\ idle \in [Queries -> 0..(WindowLength + 1)]
    /\ query \in Queries /\ page \in Nat \ {0}
    /\ window \subseteq Events /\ owed \subseteq Events
LoopInv ==
    /\ ~Polling => query = "primary" /\ page = 1
    /\ ~late["tsunami"]

\* What is missing has changed since the last complete query began; what was
\* not owed at this tick has changed since.
AgeInv ==
    /\ \A e \in Events : Missing(e) => age[e] <= idle[QueryOf[e]]
    /\ Polling => \A e \in Events \ owed : Missing(e) => age[e] <= elapsed

\* A query that is not late asks for everything missing at the tick.
AskedInv ==
    Polling /\ ~late[query] =>
        \A e \in owed : QueryOf[e] = query /\ Missing(e) => e \in window

\* The pages in front of an event on list W.
Ahead(W, e) == Cardinality({d \in W : Rank[d] < Rank[e]})
Behind(W, e) == Ahead(W, e) \div PageSize

\* What was on the list at the tick has been sent as far as the pages go: an
\* event that is new on the list only moves others to later pages.
PageInv ==
    /\ pc \in {"fetch", "backoff"} =>
         \A e \in window \cap owed : Behind(window, e) < page - 1 => e \in fresh
    /\ pc = "send" =>
         \A e \in window \cap owed : (done \/ Behind(window, e) < page) => e \in fresh \cup features
    /\ pc = "accepted" =>
         \A e \in window \cap owed : (done \/ Behind(window, e) < page) => e \in fresh

IInv == Types /\ LoopInv /\ AgeInv /\ AskedInv /\ PageInv
-----------------------------------------------------------------------------
(* Positions and pages.                                                    *)

LEMMA Division ==
  ASSUME NEW x \in Nat, NEW y \in Nat \ {0}
  PROVE  /\ x \div y \in Nat
         /\ y * (x \div y) <= x
         /\ x < y * (x \div y) + y
  BY SMT

\* What lies between two multiples of y is divided alike.
LEMMA SamePage ==
  ASSUME NEW x \in Nat, NEW y \in Nat \ {0}, NEW p \in Nat,
         y * p <= x, x < y * p + y
  PROVE  x \div y = p
<1> DEFINE d == x \div y
<1>1. d \in Nat /\ y * d <= x /\ x < y * d + y
  BY Division
<1>2. ASSUME d < p PROVE FALSE
  <2>1. PICK k \in Nat : p = d + 1 + k
    <3>1. p - d - 1 \in Nat /\ p = d + 1 + (p - d - 1)
      BY <1>1, <1>2
    <3> QED BY <3>1
  <2>2. y * p = y * d + y + y * k /\ y * k >= 0 /\ y * d \in Nat
    BY <2>1, <1>1
  <2> HIDE DEF d
  <2> QED BY <2>2, <1>1, <2>1
<1>3. ASSUME p < d PROVE FALSE
  <2>1. PICK k \in Nat : d = p + 1 + k
    <3>1. d - p - 1 \in Nat /\ d = p + 1 + (d - p - 1)
      BY <1>1, <1>3
    <3> QED BY <3>1
  <2>2. y * d = y * p + y + y * k /\ y * k >= 0 /\ y * p \in Nat
    BY <2>1, <1>1
  <2> HIDE DEF d
  <2> QED BY <2>2, <1>1, <2>1
<1> HIDE DEF d
<1>4. d = p
  BY <1>1, <1>2, <1>3
<1> QED BY <1>4 DEF d

LEMMA DivisionMonotone ==
  ASSUME NEW x \in Nat, NEW z \in Nat, x <= z, NEW y \in Nat \ {0}
  PROVE  x \div y <= z \div y
<1> DEFINE c == x \div y  d == z \div y
<1>1. c \in Nat /\ y * c <= x /\ d \in Nat /\ z < y * d + y
  BY Division
<1>2. ASSUME d < c PROVE FALSE
  <2>1. PICK k \in Nat : c = d + 1 + k
    <3>1. c - d - 1 \in Nat /\ c = d + 1 + (c - d - 1)
      BY <1>1, <1>2
    <3> QED BY <3>1
  <2>2. y * c = y * d + y + y * k /\ y * k >= 0 /\ y * d \in Nat
    BY <2>1, <1>1
  <2> HIDE DEF c, d
  <2> QED BY <2>2, <1>1, <2>1
<1> HIDE DEF c, d
<1>3. c <= d
  BY <1>1, <1>2
<1> QED BY <1>3 DEF c, d
Page(W, p) == {e \in W : Behind(W, e) = p - 1}
Before(W, e) == {d \in W : Rank[d] < Rank[e]}

LEMMA Positions ==
  ASSUME NEW W \in SUBSET Events, NEW e \in Events
  PROVE  IsFiniteSet(Before(W, e)) /\ Ahead(W, e) = Cardinality(Before(W, e)) /\ Ahead(W, e) \in Nat
         /\ Behind(W, e) \in Nat
<1>1. IsFiniteSet(Before(W, e))
  BY GdacsAssumption, FS_Subset DEF Before
<1>2. Ahead(W, e) = Cardinality(Before(W, e))
  BY DEF Ahead, Before
<1>3. Ahead(W, e) \in Nat
  BY <1>1, <1>2, FS_CardinalityType
<1> QED BY <1>1, <1>2, <1>3, Division, GdacsAssumption DEF Behind

\* Of two events on the list the one with the lower rank is in front.
LEMMA InFront ==
  ASSUME NEW W \in SUBSET Events, NEW d \in W, NEW e \in Events, Rank[d] < Rank[e]
  PROVE  Ahead(W, d) < Ahead(W, e)
<1>1. /\ IsFiniteSet(Before(W, e)) /\ Ahead(W, e) = Cardinality(Before(W, e)) /\ Ahead(W, e) \in Nat
      /\ Ahead(W, d) = Cardinality(Before(W, d)) /\ Ahead(W, d) \in Nat
  BY Positions
<1>2. Before(W, d) \subseteq Before(W, e) /\ d \in Before(W, e) /\ d \notin Before(W, d)
  <2>1. Rank \in [Events -> Nat]
    BY GdacsAssumption
  <2> QED BY <2>1 DEF Before
<1>3. Cardinality(Before(W, d)) <= Cardinality(Before(W, e))
  BY <1>1, <1>2, FS_Subset
<1>4. Cardinality(Before(W, d)) # Cardinality(Before(W, e))
  BY <1>1, <1>2, FS_Subset
<1> QED BY <1>1, <1>3, <1>4

\* A page that is not full is the last one.
LEMMA LastPage ==
  ASSUME NEW W \in SUBSET Events, NEW p \in Nat \ {0}, Cardinality(Page(W, p)) < PageSize,
         NEW e \in W
  PROVE  Behind(W, e) < p
<1> DEFINE n == Ahead(W, e)
           I == (PageSize * (p - 1))..(PageSize * (p - 1) + PageSize - 1)
           f == [d \in Before(W, e) |-> Ahead(W, d)]
<1>1. PageSize \in Nat \ {0} /\ n \in Nat /\ Behind(W, e) \in Nat /\ IsFiniteSet(Before(W, e))
      /\ n = Cardinality(Before(W, e)) /\ Before(W, e) \subseteq W
  BY Positions, GdacsAssumption DEF Before
<1>2. SUFFICES ASSUME p <= Behind(W, e) PROVE FALSE
  BY <1>1
<1>3. PageSize * (p - 1) \in Nat /\ PageSize * (p - 1) + PageSize <= n
  <2>1. PageSize * Behind(W, e) <= n
    BY <1>1, Division DEF Behind
  <2>2. PICK k \in Nat : Behind(W, e) = p + k
    <3>1. Behind(W, e) - p \in Nat /\ Behind(W, e) = p + (Behind(W, e) - p)
      BY <1>1, <1>2
    <3> QED BY <3>1
  <2>3. PageSize * Behind(W, e) = PageSize * (p - 1) + PageSize + PageSize * k
        /\ PageSize * k \in Nat /\ PageSize * (p - 1) \in Nat
    BY <1>1, <2>2
  <2> HIDE DEF n
  <2> QED BY <1>1, <2>1, <2>3
<1>4. f \in Injection(Before(W, e), 0..(n - 1))
  <2>1. ASSUME NEW d \in Before(W, e) PROVE Ahead(W, d) \in 0..(n - 1)
    <3>1. d \in W /\ Rank[d] < Rank[e] /\ d \in Events /\ e \in Events
      BY DEF Before
    <3>2. Ahead(W, d) < n /\ Ahead(W, d) \in Nat
      BY <3>1, InFront, Positions
    <3> HIDE DEF n
    <3> QED BY <3>2, <1>1
  <2>2. ASSUME NEW c \in Before(W, e), NEW d \in Before(W, e), Ahead(W, c) = Ahead(W, d)
        PROVE  c = d
    <3>1. c \in W /\ d \in W /\ c \in Events /\ d \in Events
      BY DEF Before
    <3>2. Ahead(W, c) \in Nat /\ Rank[c] \in Nat /\ Rank[d] \in Nat
      BY <3>1, Positions, GdacsAssumption
    <3>3. ~(Rank[c] < Rank[d])
      BY <3>1, <3>2, <2>2, InFront
    <3>4. ~(Rank[d] < Rank[c])
      BY <3>1, <3>2, <2>2, InFront
    <3>5. Rank[c] = Rank[d]
      BY <3>2, <3>3, <3>4
    <3> QED BY <3>1, <3>5, GdacsAssumption
  <2> HIDE DEF n
  <2> QED BY <2>1, <2>2 DEF Injection, IsInjective
<1>5. f \in Surjection(Before(W, e), 0..(n - 1))
  <2>1. IsFiniteSet(0..(n - 1)) /\ Cardinality(0..(n - 1)) = n
    <3> HIDE DEF n
    <3>1. 0 \in Int /\ n - 1 \in Int
      BY <1>1
    <3> QED BY <1>1, <3>1, FS_Interval, SMTT(20)
  <2> HIDE DEF n, f
  <2> QED BY <1>1, <1>4, <2>1, FS_Injection
<1> DEFINE O == {d \in Before(W, e) : Ahead(W, d) \in I}
           g == [d \in O |-> Ahead(W, d)]
<1>6. O \subseteq Page(W, p)
  <2> SUFFICES ASSUME NEW d \in O PROVE d \in Page(W, p)
    OBVIOUS
  <2>1. d \in W /\ Ahead(W, d) \in Nat
    BY Positions DEF Before
  <2>2. Ahead(W, d) \div PageSize = p - 1
    <3>1. Ahead(W, d) \in I
      OBVIOUS
    <3>2. PageSize * (p - 1) <= Ahead(W, d) /\ Ahead(W, d) < PageSize * (p - 1) + PageSize
      BY <3>1, <2>1, <1>1, <1>3
    <3>3. p - 1 \in Nat
      OBVIOUS
    <3> QED BY <3>2, <3>3, <2>1, <1>1, SamePage
  <2> QED BY <2>1, <2>2 DEF Page, Behind
<1>7. g \in Surjection(O, I)
  <2>1. \A i \in I : \E d \in O : g[d] = i
    <3> SUFFICES ASSUME NEW i \in I PROVE \E d \in O : g[d] = i
      OBVIOUS
    <3>1. i \in 0..(n - 1)
      <4> HIDE DEF n
      <4> QED BY <1>1, <1>3
    <3>2. PICK d \in Before(W, e) : f[d] = i
      BY <1>5, <3>1 DEF Surjection
    <3> QED BY <3>2
  <2>2. g \in [O -> I]
    OBVIOUS
  <2> HIDE DEF g, O, I
  <2> QED BY <2>1, <2>2 DEF Surjection
<1>8. Cardinality(I) = PageSize
  <2>1. PageSize * (p - 1) \in Int /\ PageSize * (p - 1) + PageSize - 1 \in Int
    BY <1>1, <1>3
  <2> QED BY <2>1, <1>1, <1>3, FS_Interval
<1>9. IsFiniteSet(O) /\ IsFiniteSet(Page(W, p))
  <2>1. Page(W, p) \subseteq Events
    BY DEF Page
  <2> QED BY <2>1, <1>1, GdacsAssumption, FS_Subset
<1>10. Cardinality(I) <= Cardinality(O)
  <2> HIDE DEF g, O, I
  <2> QED BY <1>7, <1>9, FS_Surjection
<1>11. Cardinality(O) <= Cardinality(Page(W, p))
  <2> HIDE DEF O
  <2> QED BY <1>6, <1>9, FS_Subset
<1>12. Cardinality(O) \in Nat /\ Cardinality(Page(W, p)) \in Nat
  BY <1>9, FS_CardinalityType
<1> HIDE DEF O, I
<1> QED BY <1>1, <1>8, <1>10, <1>11, <1>12
\* A list that grows moves no event to an earlier page.
LEMMA Backwards ==
  ASSUME NEW W \in SUBSET Events, NEW V \in SUBSET Events, W \subseteq V, NEW e \in Events
  PROVE  Behind(W, e) \in Nat /\ Behind(V, e) \in Nat /\ Behind(W, e) <= Behind(V, e)
<1>1. /\ IsFiniteSet(Before(V, e))
      /\ Ahead(V, e) = Cardinality(Before(V, e)) /\ Ahead(V, e) \in Nat
      /\ Ahead(W, e) = Cardinality(Before(W, e)) /\ Ahead(W, e) \in Nat
      /\ Behind(W, e) \in Nat /\ Behind(V, e) \in Nat
  BY Positions
<1>2. Before(W, e) \subseteq Before(V, e)
  BY DEF Before
<1>3. Ahead(W, e) <= Ahead(V, e)
  BY <1>1, <1>2, FS_Subset
<1> QED BY <1>1, <1>3, DivisionMonotone, GdacsAssumption DEF Behind

LEMMA Lengths == WindowLength \in Nat
  BY GdacsAssumption DEF WindowLength

\* Time moves every age alike.
LEMMA Ageing ==
  ASSUME NEW a \in 0..(WindowLength + 1), NEW b \in 0..(WindowLength + 1)
  PROVE  /\ Later(a) \in 0..(WindowLength + 1)
         /\ a <= b => Later(a) <= Later(b)
  BY Lengths DEF Later

-----------------------------------------------------------------------------
(* The invariant.                                                          *)

LEMMA InitInv == Init => IInv
<1> SUFFICES ASSUME Init PROVE IInv
  OBVIOUS
<1>1. Types
  BY Lengths DEF Init, Types, Queries
<1>2. LoopInv
  BY DEF Init, LoopInv, Polling, Queries
<1>3. AgeInv
  BY GdacsAssumption, Lengths DEF Init, AgeInv, Polling
<1>4. AskedInv /\ PageInv
  BY DEF Init, AskedInv, PageInv, Polling
<1> QED BY <1>1, <1>2, <1>3, <1>4 DEF IInv

\* Steps outside the queries that touch neither events nor ages.
Aside ==
    /\ ~Polling /\ pc' \notin {"fetch", "backoff", "send", "accepted"}
    /\ UNCHANGED <<age, elapsed, idle, late, query, page, window, owed, fresh, overlooked>>

LEMMA AsideInv == IInv /\ Aside => IInv'
<1> SUFFICES ASSUME IInv, Aside PROVE IInv'
  OBVIOUS
<1> USE DEF Aside, IInv
<1>1. Types'
  BY DEF Types
<1>2. LoopInv'
  BY DEF LoopInv, Polling
<1>3. AgeInv'
  BY DEF AgeInv, Polling, Missing
<1>4. AskedInv' /\ PageInv'
  BY DEF AskedInv, PageInv, Polling
<1> QED BY <1>1, <1>2, <1>3, <1>4

LEMMA ChangeInv ==
  ASSUME IInv, NEW e \in Events, Change(e)
  PROVE  IInv'
<1> USE DEF IInv
<1>1. /\ age' = [age EXCEPT ![e] = 0] /\ window \subseteq window' /\ window' \subseteq window \cup {e}
      /\ features' = features \ {e} /\ fresh' = fresh \ {e}
      /\ owed' = owed \ {e} /\ overlooked' = overlooked \ {e}
      /\ UNCHANGED <<pc, elapsed, query, page, done, idle, late>>
  BY DEF Change
<1>2. Types'
  BY <1>1, Lengths DEF Types
<1>3. LoopInv'
  BY <1>1 DEF LoopInv, Polling
<1>4. AgeInv'
  <2>1. ASSUME NEW d \in Events, Missing(d)' PROVE d # e => Missing(d)
    BY <2>1, <1>1 DEF Missing
  <2>2. \A d \in Events : age'[d] = IF d = e THEN 0 ELSE age[d]
    BY <1>1 DEF Types
  <2>3. idle[QueryOf[e]] >= 0 /\ elapsed >= 0
    BY GdacsAssumption, Lengths DEF Types
  <2>4. ASSUME NEW d \in Events, Missing(d)' PROVE age'[d] <= idle'[QueryOf[d]]
    BY <1>1, <2>1, <2>2, <2>3, <2>4 DEF AgeInv
  <2>5. ASSUME Polling', NEW d \in Events \ owed', Missing(d)' PROVE age'[d] <= elapsed'
    BY <1>1, <2>1, <2>2, <2>3, <2>5 DEF AgeInv, Polling
  <2> QED BY <2>4, <2>5 DEF AgeInv
<1>5. AskedInv'
  BY <1>1 DEF AskedInv, Polling, Missing
<1>6. PageInv'
  <2>1. \A d \in Events : /\ Behind(window, d) \in Nat /\ Behind(window', d) \in Nat
                          /\ Behind(window, d) <= Behind(window', d)
    BY <1>1, <1>2, Backwards DEF Types
  <2>2. \A d \in window' \cap owed' : d \in window \cap owed /\ d # e /\ d \in Events
    BY <1>1 DEF Types
  <2>3. page \in Nat
    BY DEF Types
  <2>4. ASSUME pc' \in {"fetch", "backoff"}, NEW d \in window' \cap owed',
               Behind(window', d) < page' - 1
        PROVE  d \in fresh'
    <3>1. Behind(window, d) < page - 1
      BY <1>1, <2>1, <2>2, <2>3, <2>4
    <3> QED BY <1>1, <2>2, <2>4, <3>1 DEF PageInv
  <2>5. ASSUME NEW d \in window' \cap owed', done' \/ Behind(window', d) < page'
        PROVE  done \/ Behind(window, d) < page
    BY <1>1, <2>1, <2>2, <2>3, <2>5
  <2>6. ASSUME pc' = "send", NEW d \in window' \cap owed', done' \/ Behind(window', d) < page'
        PROVE  d \in fresh' \cup features'
    BY <1>1, <2>2, <2>5, <2>6 DEF PageInv
  <2>7. ASSUME pc' = "accepted", NEW d \in window' \cap owed', done' \/ Behind(window', d) < page'
        PROVE  d \in fresh'
    BY <1>1, <2>2, <2>5, <2>7 DEF PageInv
  <2> QED BY <2>4, <2>6, <2>7 DEF PageInv
<1> QED BY <1>2, <1>3, <1>4, <1>5, <1>6

LEMMA TimeInv == IInv /\ TimePasses => IInv'
<1> SUFFICES ASSUME IInv, TimePasses PROVE IInv'
  OBVIOUS
<1> USE DEF IInv
<1>1. /\ age' = [e \in Events |-> Later(age[e])] /\ elapsed' = Later(elapsed)
      /\ idle' = [q \in Queries |-> Later(idle[q])]
      /\ UNCHANGED <<pc, query, page, window, features, done, late, owed, overlooked, fresh>>
  BY DEF TimePasses, pollVars, coreVars
<1>2. Types'
  BY <1>1, Ageing DEF Types
<1>3. LoopInv'
  BY <1>1 DEF LoopInv, Polling
<1>4. AgeInv'
  <2>1. ASSUME NEW e \in Events, Missing(e)' PROVE age'[e] <= idle'[QueryOf[e]]
    <3>1. Missing(e) /\ QueryOf[e] \in Queries
      BY <1>1, <2>1, GdacsAssumption DEF Missing
    <3>2. age[e] <= idle[QueryOf[e]]
      BY <3>1 DEF AgeInv
    <3>3. age[e] \in 0..(WindowLength + 1) /\ idle[QueryOf[e]] \in 0..(WindowLength + 1)
      BY <3>1 DEF Types
    <3> QED BY <1>1, <3>1, <3>2, <3>3, Ageing
  <2>2. ASSUME Polling', NEW e \in Events \ owed', Missing(e)' PROVE age'[e] <= elapsed'
    <3>1. Missing(e) /\ Polling /\ e \in Events \ owed
      BY <1>1, <2>2 DEF Missing, Polling
    <3>2. age[e] <= elapsed
      BY <3>1 DEF AgeInv
    <3>3. age[e] \in 0..(WindowLength + 1) /\ elapsed \in 0..(WindowLength + 1)
      BY <3>1 DEF Types
    <3> QED BY <1>1, <3>1, <3>2, <3>3, Ageing
  <2> QED BY <2>1, <2>2 DEF AgeInv
<1>5. AskedInv'
  BY <1>1 DEF AskedInv, Polling, Missing
<1>6. PageInv'
  BY <1>1 DEF PageInv
<1> QED BY <1>2, <1>3, <1>4, <1>5, <1>6
LEMMA TickInv == IInv /\ Tick => IInv'
<1> SUFFICES ASSUME IInv, Tick PROVE IInv'
  OBVIOUS
<1> USE DEF IInv
<1>1. /\ pc = "tick" /\ pc' = "fetch" /\ elapsed' = 0
      /\ window' = Asked("primary", backfill) /\ owed' = Events \ fresh
      /\ late' = [q \in Queries |-> q = "primary" /\ ~backfill /\ idle[q] > WindowLength]
      /\ UNCHANGED <<age, idle, query, page, fresh, overlooked>>
  BY DEF Tick, sourceVars, coreVars
<1>2. query = "primary" /\ page = 1
  BY <1>1 DEF LoopInv, Polling
<1>3. Types'
  BY <1>1, Lengths DEF Types, Asked
<1>4. LoopInv'
  BY <1>1 DEF LoopInv, Polling, Queries
<1>5. AgeInv'
  BY <1>1 DEF AgeInv, Missing, Polling
<1>6. AskedInv'
  <2> SUFFICES ASSUME ~late'["primary"], NEW e \in Events, QueryOf[e] = "primary", Missing(e)
               PROVE  e \in Asked("primary", backfill)
    BY <1>1, <1>2 DEF AskedInv, Polling, Missing
  <2>1. backfill \/ ~(idle["primary"] > WindowLength)
    BY <1>1 DEF Queries
  <2>2. age[e] <= idle["primary"]
    BY DEF AgeInv
  <2>3. age[e] \in Nat /\ idle["primary"] \in Nat
    BY DEF Types, Queries
  <2> QED BY <2>1, <2>2, <2>3, Lengths DEF Asked
<1>7. PageInv'
  <2>1. \A e \in window' : Behind(window', e) \in Nat
    BY <1>3, Positions DEF Types
  <2> QED BY <1>1, <1>2, <2>1 DEF PageInv
<1> QED BY <1>3, <1>4, <1>5, <1>6, <1>7

\* The query ends, with or without what the page held.
LEMMA EndQueryInv ==
  ASSUME IInv, Polling, NEW completed \in BOOLEAN, EndQuery(completed), fresh \subseteq fresh'
  PROVE  IInv'
<1> USE DEF IInv
<1>1. /\ page' = 1 /\ UNCHANGED <<age, elapsed, late>>
      /\ overlooked \subseteq overlooked'
  BY DEF EndQuery, sourceVars
<1>2. \/ /\ query = "primary" /\ pc' = "fetch" /\ query' = "tsunami"
         /\ window' = Asked("tsunami", TRUE) /\ owed' = owed
      \/ /\ query # "primary" /\ pc' = "pending" /\ query' = "primary" /\ window' = {}
         /\ owed' = {}
  BY DEF EndQuery
<1>3. \/ idle' = idle
      \/ /\ idle' = [idle EXCEPT ![query] = elapsed]
         /\ \A e \in owed \ fresh : QueryOf[e] = query => e \in overlooked'
  BY DEF EndQuery, Types
<1>4. Types'
  BY <1>1, <1>2, <1>3 DEF Types, Queries, Asked
<1>5. LoopInv'
  BY <1>1, <1>2 DEF LoopInv, Polling
<1>6. AgeInv'
  <2>1. \A e \in Events : Missing(e)' => Missing(e)
    BY <1>1 DEF Missing
  <2>2. ASSUME NEW e \in Events, Missing(e)' PROVE age'[e] <= idle'[QueryOf[e]]
    <3>1. age[e] <= idle[QueryOf[e]]
      BY <2>1, <2>2 DEF AgeInv
    <3>2. CASE idle' = idle
      BY <1>1, <3>1, <3>2
    <3>3. CASE idle' = [idle EXCEPT ![query] = elapsed] /\ QueryOf[e] # query
      BY <1>1, <3>1, <3>3, GdacsAssumption DEF Types
    <3>4. CASE /\ idle' = [idle EXCEPT ![query] = elapsed] /\ QueryOf[e] = query
               /\ \A d \in owed \ fresh : QueryOf[d] = query => d \in overlooked'
      <4>1. e \notin fresh
        BY <2>1, <2>2 DEF Missing
      <4>2. e \notin overlooked'
        BY <2>2 DEF Missing
      <4>3. e \notin owed
        BY <3>4, <4>1, <4>2
      <4>4. age[e] <= elapsed
        BY <2>1, <2>2, <4>3 DEF AgeInv
      <4> QED BY <1>1, <3>4, <4>4 DEF Types
    <3> QED BY <1>3, <3>2, <3>3, <3>4
  <2>3. ASSUME Polling', NEW e \in Events \ owed', Missing(e)' PROVE age'[e] <= elapsed'
    <3>1. owed' = owed
      BY <1>2, <2>3 DEF Polling
    <3> QED BY <1>1, <2>1, <2>3, <3>1 DEF AgeInv
  <2> QED BY <2>2, <2>3 DEF AgeInv
<1>7. AskedInv'
  BY <1>2 DEF AskedInv, Polling, Asked, Types
<1>8. PageInv'
  <2>1. \A e \in window' : Behind(window', e) \in Nat
    BY <1>4, Positions DEF Types
  <2>2. \A e \in window' : ~(Behind(window', e) < page' - 1)
    BY <1>1, <2>1
  <2>3. pc' # "send" /\ pc' # "accepted"
    BY <1>2
  <2> QED BY <2>2, <2>3 DEF PageInv
<1> QED BY <1>4, <1>5, <1>6, <1>7, <1>8

\* A step within a query: the page it works on changes, nothing else.
Inside ==
    /\ Polling /\ pc' \in {"fetch", "backoff", "send", "accepted"}
    /\ UNCHANGED <<age, elapsed, idle, late, query, window, owed, overlooked>>

LEMMA InsideInv ==
  ASSUME IInv, Inside, fresh \subseteq fresh', page' \in Nat \ {0}
  PROVE  Types' /\ LoopInv' /\ AgeInv' /\ AskedInv'
<1> USE DEF IInv, Inside
<1>1. Types' /\ LoopInv'
  BY DEF Types, LoopInv, Polling
<1>2. AgeInv' /\ AskedInv'
  BY DEF AgeInv, AskedInv, Missing, Polling
<1> QED BY <1>1, <1>2

LEMMA FetchPageInv == IInv /\ FetchPage => IInv'
<1> SUFFICES ASSUME IInv, FetchPage PROVE IInv'
  OBVIOUS
<1>1. /\ pc = "fetch" /\ pc' = "send" /\ features' = OnPage(page) /\ UNCHANGED <<fresh, page>>
      /\ done' = (Cardinality(OnPage(page)) < PageSize)
      /\ UNCHANGED <<age, elapsed, idle, late, query, window, owed, overlooked>>
  BY DEF FetchPage, Same, sourceVars, coreVars, ghostVars
<1>2. page \in Nat \ {0} /\ window \in SUBSET Events
  BY DEF IInv, Types
<1>3. Types' /\ LoopInv' /\ AgeInv' /\ AskedInv'
  BY <1>1, <1>2, InsideInv DEF Inside, Polling
<1>4. OnPage(page) = Page(window, page)
  BY DEF OnPage, Position, Page, Behind, Ahead
<1>5. ASSUME NEW e \in window \cap owed, done' \/ Behind(window, e) < page
      PROVE  e \in fresh \cup OnPage(page)
  <2>1. Behind(window, e) \in Nat
    BY <1>2, Positions
  <2>2. Behind(window, e) < page
    BY <1>1, <1>2, <1>4, <1>5, LastPage
  <2>3. CASE Behind(window, e) < page - 1
    BY <1>1, <2>3 DEF IInv, PageInv
  <2>4. CASE Behind(window, e) = page - 1
    BY <1>4, <2>4 DEF Page
  <2> QED BY <1>2, <2>1, <2>2, <2>3, <2>4
<1>6. PageInv'
  BY <1>1, <1>5 DEF PageInv
<1> QED BY <1>3, <1>6 DEF IInv
\* A failed fetch and its repetition.
LEMMA RetryInv == IInv /\ (FetchFails \/ Retry) => IInv'
<1> SUFFICES ASSUME IInv, FetchFails \/ Retry PROVE IInv'
  OBVIOUS
<1>1. /\ pc \in {"fetch", "backoff"} /\ pc' \in {"fetch", "backoff"}
      /\ UNCHANGED <<fresh, page, features, done>>
      /\ UNCHANGED <<age, elapsed, idle, late, query, window, owed, overlooked>>
  BY DEF FetchFails, Retry, Same, sourceVars, coreVars, ghostVars
<1>2. page \in Nat \ {0}
  BY DEF IInv, Types
<1>3. Types' /\ LoopInv' /\ AgeInv' /\ AskedInv'
  BY <1>1, <1>2, InsideInv DEF Inside, Polling
<1>4. PageInv'
  BY <1>1 DEF IInv, PageInv
<1> QED BY <1>3, <1>4 DEF IInv

LEMMA SendPageInv == IInv /\ SendPage => IInv'
<1> SUFFICES ASSUME IInv, SendPage PROVE IInv'
  OBVIOUS
<1>1. /\ pc = "send" /\ pc' = "accepted" /\ fresh' = fresh \cup features
      /\ UNCHANGED <<page, features, done>>
      /\ UNCHANGED <<age, elapsed, idle, late, query, window, owed, overlooked>>
  BY DEF SendPage, WritePage, sourceVars, pollVars, ghostVars
<1>2. page \in Nat \ {0}
  BY DEF IInv, Types
<1>3. Types' /\ LoopInv' /\ AgeInv' /\ AskedInv'
  BY <1>1, <1>2, InsideInv DEF Inside, Polling
<1>4. PageInv'
  BY <1>1 DEF IInv, PageInv
<1> QED BY <1>3, <1>4 DEF IInv

\* The page was not fetched or not accepted.
LEMMA AbandonInv == IInv /\ (FetchAbandoned \/ SendPageFails) => IInv'
<1> SUFFICES ASSUME IInv, FetchAbandoned \/ SendPageFails PROVE IInv'
  OBVIOUS
<1>1. Polling /\ EndQuery(FALSE) /\ fresh \subseteq fresh'
  BY DEF FetchAbandoned, SendPageFails, WritePage, coreVars, Polling
<1>2. FALSE \in BOOLEAN
  OBVIOUS
<1> QED BY <1>1, <1>2, EndQueryInv

LEMMA NextPageInv == IInv /\ NextPage => IInv'
<1> SUFFICES ASSUME IInv, NextPage PROVE IInv'
  OBVIOUS
<1>1. CASE done /\ EndQuery(TRUE) /\ UNCHANGED coreVars
  <2>1. Polling /\ fresh \subseteq fresh' /\ TRUE \in BOOLEAN
    BY <1>1 DEF NextPage, coreVars, Polling
  <2> QED BY <1>1, <2>1, EndQueryInv
<1>2. CASE ~done /\ pc' = "fetch" /\ page' = page + 1 /\ Same
  <2>1. /\ pc = "accepted" /\ UNCHANGED fresh
        /\ UNCHANGED <<age, elapsed, idle, late, query, window, owed, overlooked>>
    BY <1>2 DEF NextPage, Same, sourceVars, coreVars, ghostVars
  <2>2. page \in Nat \ {0}
    BY DEF IInv, Types
  <2>3. Types' /\ LoopInv' /\ AgeInv' /\ AskedInv'
    BY <1>2, <2>1, <2>2, InsideInv DEF Inside, Polling
  <2>4. page' - 1 = page
    BY <1>2, <2>2
  <2>5. PageInv'
    BY <1>2, <2>1, <2>4 DEF IInv, PageInv
  <2> QED BY <2>3, <2>5 DEF IInv
<1> QED BY <1>1, <1>2 DEF NextPage

LEMMA RestartInv == IInv /\ Restart => IInv'
<1> SUFFICES ASSUME IInv, Restart PROVE IInv'
  OBVIOUS
<1>1. /\ pc' = "tick" /\ query' = "primary" /\ window' = {} /\ page' = 1 /\ owed' = {}
      /\ UNCHANGED <<age, elapsed, fresh, idle, late, overlooked>>
  BY DEF Restart, sourceVars, coreVars
<1>2. Types' /\ LoopInv'
  BY <1>1 DEF IInv, Types, LoopInv, Queries
<1>3. AgeInv' /\ AskedInv' /\ PageInv'
  BY <1>1 DEF IInv, AgeInv, AskedInv, PageInv, Polling, Missing
<1> QED BY <1>2, <1>3 DEF IInv

\* The drain is none of the queries' business.
Drain ==
    \/ AskPending \/ PendingFails \/ NextEntry \/ FetchGeometry \/ GeometryFails
    \/ RetryGeometry \/ SendGeometry \/ RefuseGeometry \/ SendGeometryFails \/ Wake

LEMMA DrainAside == IInv /\ Drain => Aside
<1> SUFFICES ASSUME IInv, Drain PROVE Aside
  OBVIOUS
<1>1. UNCHANGED <<age, elapsed, idle, late, query, page, window, owed, overlooked>>
  <2>1. DrainOnly
    BY DEF Drain, AskPending, PendingFails, NextEntry, FetchGeometry, GeometryFails,
           RetryGeometry, SendGeometry, RefuseGeometry, SendGeometryFails, Wake
  <2> QED BY <2>1 DEF DrainOnly, sourceVars, pollVars, ghostVars
<1>2. UNCHANGED fresh
  BY DEF Drain, AskPending, PendingFails, NextEntry, FetchGeometry, GeometryFails,
         RetryGeometry, SendGeometry, RefuseGeometry, SendGeometryFails, Wake, coreVars,
         WriteGeometry
<1>3. ~Polling
  BY DEF Drain, AskPending, PendingFails, NextEntry, FetchGeometry, GeometryFails,
         RetryGeometry, SendGeometry, RefuseGeometry, SendGeometryFails, Wake, Polling
<1>4. pc' \notin {"fetch", "backoff", "send", "accepted"}
  BY DEF Drain, AskPending, PendingFails, NextEntry, FetchGeometry, GeometryFails,
         RetryGeometry, SendGeometry, RefuseGeometry, SendGeometryFails, Wake, Drained
<1> QED BY <1>1, <1>2, <1>3, <1>4 DEF Aside

LEMMA NextInv == IInv /\ [Next]_vars => IInv'
<1> SUFFICES ASSUME IInv, [Next]_vars PROVE IInv'
  OBVIOUS
<1>1. ASSUME NEW e \in Events, Change(e) PROVE IInv'
  BY <1>1, ChangeInv
<1>2. CASE TimePasses
  BY <1>2, TimeInv
<1>3. CASE Tick
  BY <1>3, TickInv
<1>4. CASE FetchPage
  BY <1>4, FetchPageInv
<1>5. CASE FetchFails \/ Retry
  BY <1>5, RetryInv
<1>6. CASE SendPage
  BY <1>6, SendPageInv
<1>7. CASE FetchAbandoned \/ SendPageFails
  BY <1>7, AbandonInv
<1>8. CASE NextPage
  BY <1>8, NextPageInv
<1>9. CASE Restart
  BY <1>9, RestartInv
<1>10. CASE Drain
  BY <1>10, DrainAside, AsideInv
<1>11. CASE UNCHANGED vars
  <2>1. UNCHANGED <<age, elapsed, idle, late, query, page, window, owed, overlooked, fresh,
                    pc, features, done>>
    BY <1>11 DEF vars, sourceVars, pollVars, coreVars, ghostVars
  <2>2. Types' /\ LoopInv'
    BY <2>1 DEF IInv, Types, LoopInv, Polling
  <2>3. AgeInv' /\ AskedInv' /\ PageInv'
    BY <2>1 DEF IInv, AgeInv, AskedInv, PageInv, Polling, Missing
  <2> QED BY <2>2, <2>3 DEF IInv
<1> QED BY <1>1, <1>2, <1>3, <1>4, <1>5, <1>6, <1>7, <1>8, <1>9, <1>10, <1>11
        DEF Next, Loop, Failing, Drain

LEMMA Inductive == Spec => []IInv
  BY InitInv, NextInv, PTL DEF Spec
-----------------------------------------------------------------------------
(* The refinement.                                                         *)

StatusOf(q) == [e \in Listed(q) |-> Status(e)]

\* The steps of WindowPoller, written out for query q.
Still(q) == UNCHANGED <<idle[q], elapsed, late[q]>>
PollerPublish(q) ==
    \E e \in Listed(q) : StatusOf(q)' = [StatusOf(q) EXCEPT ![e] = "new"] /\ Still(q)
PollerStore(q) ==
    \E S \in SUBSET Listed(q) :
        /\ StatusOf(q)' = [e \in Listed(q) |-> IF e \in S THEN "stored" ELSE StatusOf(q)[e]]
        /\ Still(q)
PollerComplete(q) ==
    \E S \in SUBSET Listed(q) :
        /\ S # {} => late[q]
        /\ \A e \in S : StatusOf(q)[e] = "new"
        /\ StatusOf(q)' = [e \in Listed(q) |-> IF e \in S THEN "overlooked" ELSE StatusOf(q)[e]]
        /\ idle'[q] = elapsed
        /\ UNCHANGED <<elapsed, late[q]>>
PollerBegin(q) ==
    /\ elapsed' = 0
    /\ late'[q] \in {FALSE, idle[q] > WindowLength}
    /\ UNCHANGED <<StatusOf(q), idle[q]>>
PollerPass(q) ==
    /\ idle'[q] = Later(idle[q]) /\ elapsed' = Later(elapsed)
    /\ UNCHANGED <<StatusOf(q), late[q]>>
PollerIdle(q) == UNCHANGED StatusOf(q) /\ Still(q)
PollerStep(q) ==
    \/ PollerPublish(q) \/ PollerStore(q) \/ PollerComplete(q) \/ PollerBegin(q)
    \/ PollerPass(q) \/ PollerIdle(q)

LEMMA PrimaryStep == PollerStep("primary") => [Primary!Next]_(Primary!vars)
<1> USE DEF Primary!Next, Primary!vars, StatusOf, Still
<1>1. PollerPublish("primary") => Primary!Next
  BY DEF PollerPublish, Primary!Publish
<1>2. PollerStore("primary") => Primary!Next
  BY DEF PollerStore, Primary!Store
<1>3. PollerComplete("primary") => Primary!Next
  BY DEF PollerComplete, Primary!Complete
<1>4. PollerBegin("primary") => Primary!Next
  BY DEF PollerBegin, Primary!Begin
<1>5. PollerPass("primary") => Primary!Next
  BY DEF PollerPass, Primary!Pass, Primary!Later, Later
<1>6. PollerIdle("primary") => UNCHANGED Primary!vars
  BY DEF PollerIdle
<1> QED BY <1>1, <1>2, <1>3, <1>4, <1>5, <1>6 DEF PollerStep
LEMMA TsunamiStep == PollerStep("tsunami") => [Tsunami!Next]_(Tsunami!vars)
<1> USE DEF Tsunami!Next, Tsunami!vars, StatusOf, Still
<1>1. PollerPublish("tsunami") => Tsunami!Next
  BY DEF PollerPublish, Tsunami!Publish
<1>2. PollerStore("tsunami") => Tsunami!Next
  BY DEF PollerStore, Tsunami!Store
<1>3. PollerComplete("tsunami") => Tsunami!Next
  BY DEF PollerComplete, Tsunami!Complete
<1>4. PollerBegin("tsunami") => Tsunami!Next
  BY DEF PollerBegin, Tsunami!Begin
<1>5. PollerPass("tsunami") => Tsunami!Next
  BY DEF PollerPass, Tsunami!Pass, Tsunami!Later, Later
<1>6. PollerIdle("tsunami") => UNCHANGED Tsunami!vars
  BY DEF PollerIdle
<1> QED BY <1>1, <1>2, <1>3, <1>4, <1>5, <1>6 DEF PollerStep

\* A change of an event is a change on its own list and nothing on the other.
LEMMA ChangeStep ==
  ASSUME NEW q \in Queries, NEW e \in Events, Change(e)
  PROVE  PollerStep(q)
<1>1. /\ fresh' = fresh \ {e} /\ overlooked' = overlooked \ {e}
      /\ UNCHANGED <<elapsed, idle, late>>
  BY DEF Change
<1>2. \A d \in Events : Status(d)' = IF d = e THEN "new" ELSE Status(d)
  BY <1>1 DEF Status
<1>3. Still(q)
  BY <1>1 DEF Still
<1>4. CASE e \in Listed(q)
  BY <1>2, <1>3, <1>4 DEF PollerStep, PollerPublish, StatusOf, Listed
<1>5. CASE e \notin Listed(q)
  BY <1>2, <1>3, <1>5 DEF PollerStep, PollerIdle, StatusOf, Listed
<1> QED BY <1>4, <1>5

\* A page that is written stores what is on it.
LEMMA StoreStep ==
  ASSUME NEW q \in Queries, fresh' = fresh \cup features,
         UNCHANGED <<elapsed, idle, late, overlooked>>
  PROVE  PollerStep(q)
<1> DEFINE S == features \cap Listed(q)
<1>1. \A d \in Events : Status(d)' = IF d \in features THEN "stored" ELSE Status(d)
  BY DEF Status
<1>2. StatusOf(q)' = [e \in Listed(q) |-> IF e \in S THEN "stored" ELSE StatusOf(q)[e]]
  BY <1>1 DEF StatusOf, Listed
<1>3. Still(q) /\ S \in SUBSET Listed(q)
  BY DEF Still
<1> HIDE DEF S
<1> QED BY <1>2, <1>3 DEF PollerStep, PollerStore

\* What neither stores nor overlooks anything and takes no time is hidden.
LEMMA HiddenStep ==
  ASSUME NEW q \in Queries, UNCHANGED <<fresh, elapsed, idle, late, overlooked>>
  PROVE  PollerStep(q)
<1>1. \A e \in Events : Status(e)' = Status(e)
  BY DEF Status
<1> QED BY <1>1 DEF PollerStep, PollerIdle, Still, StatusOf, Listed

LEMMA TimeStep ==
  ASSUME NEW q \in Queries, TimePasses
  PROVE  PollerStep(q)
<1>1. /\ elapsed' = Later(elapsed) /\ idle' = [r \in Queries |-> Later(idle[r])]
      /\ UNCHANGED <<late, overlooked, fresh>>
  BY DEF TimePasses, coreVars
<1>2. \A e \in Events : Status(e)' = Status(e)
  BY <1>1 DEF Status
<1> QED BY <1>1, <1>2 DEF PollerStep, PollerPass, StatusOf, Listed

LEMMA TickStep ==
  ASSUME NEW q \in Queries, Tick
  PROVE  PollerStep(q)
<1>1. /\ elapsed' = 0 /\ UNCHANGED <<idle, overlooked, fresh>>
      /\ late' = [r \in Queries |-> r = "primary" /\ ~backfill /\ idle[r] > WindowLength]
  BY DEF Tick, coreVars
<1>2. \A e \in Events : Status(e)' = Status(e)
  BY <1>1 DEF Status
<1>3. late'[q] = (q = "primary" /\ ~backfill /\ idle[q] > WindowLength)
  BY <1>1, Zenon
<1>4. late'[q] \in {FALSE, idle[q] > WindowLength}
  <2>1. CASE q = "primary" /\ ~backfill
    BY <1>3, <2>1, Zenon
  <2>2. CASE ~(q = "primary" /\ ~backfill)
    BY <1>3, <2>2, Zenon
  <2> QED BY <2>1, <2>2
<1> QED BY <1>1, <1>2, <1>4 DEF PollerStep, PollerBegin, StatusOf, Listed

\* A completed query overlooks something only if it was late: its pages hold
\* all of what was owed at the tick.
LEMMA CompleteStep ==
  ASSUME NEW q \in Queries, IInv, pc = "accepted", done, EndQuery(TRUE), UNCHANGED coreVars
  PROVE  PollerStep(q)
<1>1. /\ UNCHANGED <<elapsed, late, fresh>> /\ idle' = [idle EXCEPT ![query] = elapsed]
      /\ overlooked' = overlooked \cup {e \in owed \ fresh : QueryOf[e] = query}
  BY DEF EndQuery, coreVars
<1>2. idle \in [Queries -> 0..(WindowLength + 1)] /\ query \in Queries
  BY DEF IInv, Types
<1> DEFINE S == {e \in owed \ fresh : QueryOf[e] = query /\ e \notin overlooked}
<1>3. CASE q = query
  <2>1. S \in SUBSET Listed(q)
    BY <1>3 DEF Listed, IInv, Types
  <2>2. S # {} => late[q]
    <3> SUFFICES ASSUME ~late[q], NEW e \in S PROVE FALSE
      OBVIOUS
    <3>1. e \in window
      BY <1>3 DEF IInv, AskedInv, Polling, Missing
    <3> QED BY <3>1 DEF IInv, PageInv
  <2>3. \A e \in S : StatusOf(q)[e] = "new"
    BY <2>1 DEF StatusOf, Status
  <2>4. \A e \in Listed(q) : Status(e)' = IF e \in S THEN "overlooked" ELSE Status(e)
    BY <1>1, <1>3 DEF Status, Listed
  <2>5. StatusOf(q)' = [e \in Listed(q) |-> IF e \in S THEN "overlooked" ELSE StatusOf(q)[e]]
    BY <2>4 DEF StatusOf
  <2>6. idle'[q] = elapsed /\ UNCHANGED <<elapsed, late[q]>>
    BY <1>1, <1>2, <1>3
  <2> HIDE DEF S
  <2> QED BY <2>1, <2>2, <2>3, <2>5, <2>6 DEF PollerStep, PollerComplete
<1>4. CASE q # query
  <2>1. \A e \in Listed(q) : Status(e)' = Status(e)
    BY <1>1, <1>4 DEF Status, Listed
  <2>2. Still(q)
    BY <1>1, <1>2, <1>4 DEF Still
  <2> QED BY <2>1, <2>2 DEF PollerStep, PollerIdle, StatusOf
<1> QED BY <1>3, <1>4

LEMMA EveryStep ==
  ASSUME NEW q \in Queries, IInv, [Next]_vars
  PROVE  PollerStep(q)
<1>1. ASSUME NEW e \in Events, Change(e) PROVE PollerStep(q)
  BY <1>1, ChangeStep
<1>2. CASE TimePasses
  BY <1>2, TimeStep
<1>3. CASE Tick
  BY <1>3, TickStep
<1>4. CASE FetchPage \/ FetchFails \/ Retry
  <2>1. UNCHANGED <<fresh, elapsed, idle, late, overlooked>>
    BY <1>4 DEF FetchPage, FetchFails, Retry, Same, coreVars, ghostVars
  <2> QED BY <2>1, HiddenStep
<1>5. CASE SendPage
  <2>1. fresh' = fresh \cup features /\ UNCHANGED <<elapsed, idle, late, overlooked>>
    BY <1>5 DEF SendPage, WritePage, ghostVars
  <2> QED BY <2>1, StoreStep
<1>6. CASE FetchAbandoned \/ SendPageFails
  <2>1. UNCHANGED <<elapsed, idle, late, overlooked>>
    BY <1>6 DEF FetchAbandoned, SendPageFails, EndQuery
  <2>2. fresh' = fresh \cup features \/ UNCHANGED fresh
    BY <1>6 DEF FetchAbandoned, SendPageFails, WritePage, coreVars
  <2> QED BY <2>1, <2>2, HiddenStep, StoreStep
<1>7. CASE NextPage
  <2>1. CASE done /\ EndQuery(TRUE) /\ UNCHANGED coreVars
    BY <1>7, <2>1, CompleteStep DEF NextPage
  <2>2. CASE Same
    <3>1. UNCHANGED <<fresh, elapsed, idle, late, overlooked>>
      BY <2>2 DEF Same, coreVars, ghostVars
    <3> QED BY <3>1, HiddenStep
  <2> QED BY <1>7, <2>1, <2>2 DEF NextPage
<1>8. CASE Restart
  <2>1. UNCHANGED <<fresh, elapsed, idle, late, overlooked>>
    BY <1>8 DEF Restart, coreVars
  <2> QED BY <2>1, HiddenStep
<1>9. CASE Drain
  <2>1. UNCHANGED <<fresh, elapsed, idle, late, overlooked>>
    BY <1>9, DrainAside DEF Aside
  <2> QED BY <2>1, HiddenStep
<1>10. CASE UNCHANGED vars
  <2>1. UNCHANGED <<fresh, elapsed, idle, late, overlooked>>
    BY <1>10 DEF vars, coreVars, ghostVars
  <2> QED BY <2>1, HiddenStep
<1> QED BY <1>1, <1>2, <1>3, <1>4, <1>5, <1>6, <1>7, <1>8, <1>9, <1>10
        DEF Next, Loop, Failing, Drain

\* The two lists begin as a window poller does.
LEMMA Begins == Init => Primary!Init /\ Tsunami!Init
<1> SUFFICES ASSUME Init PROVE Primary!Init /\ Tsunami!Init
  OBVIOUS
<1>1. \A e \in Events : Status(e) = "new"
  BY DEF Init, Status
<1>2. /\ idle["primary"] = WindowLength + 1 /\ idle["tsunami"] = WindowLength + 1
      /\ late["primary"] = FALSE /\ late["tsunami"] = FALSE /\ elapsed = 0
  BY DEF Init, Queries
<1> QED BY <1>1, <1>2 DEF Primary!Init, Tsunami!Init, Listed

\* pollTick and pollAllPages, with their pages, retries, refusals and restarts,
\* keep a window poller's promise for both queries: a change is missed only by
\* a primary query begun more than three intervals after the last complete one.
THEOREM WindowKept == Spec => KeepsWindow
<1>1. IInv /\ [Next]_vars => [Primary!Next]_(Primary!vars)
  <2>1. "primary" \in Queries
    BY DEF Queries
  <2> QED BY <2>1, EveryStep, PrimaryStep
<1>2. IInv /\ [Next]_vars => [Tsunami!Next]_(Tsunami!vars)
  <2>1. "tsunami" \in Queries
    BY DEF Queries
  <2> QED BY <2>1, EveryStep, TsunamiStep
<1> QED
  BY <1>1, <1>2, Begins, Inductive, PTL DEF Spec, KeepsWindow, Primary!Spec, Tsunami!Spec
=============================================================================
