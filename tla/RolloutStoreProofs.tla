------------------------- MODULE RolloutStoreProofs -------------------------
(***************************************************************************)
(* Proofs about RolloutStore, for every number of processes, items, failing*)
(* calls and crashes: the type invariant, AckedReadableUnlessOverlapped,   *)
(* HistoryInOrder, NeverGone, and that it implements DurableLog.  All of   *)
(* them follow from the inductive invariant IInv.                          *)
(***************************************************************************)
EXTENDS RolloutStore, WellFoundedInduction, TLAPS

(* The record (i, o) is in the file f; every record of f is in g. *)
Has(f, i, o) == \E n \in DOMAIN f : f[n].item = i /\ f[n].ord = o
Covered(f, g) == \A n \in DOMAIN f : Parses(f[n]) => Has(g, f[n].item, f[n].ord)

(* i was not recorded after j. *)
Before(i, j) == \A a, b \in DOMAIN recorded : recorded[a] = i /\ recorded[b] = j => a <= b

(* The records of a file: known items, the metadata under ordinal zero, ordinals that
   never go back and name one item, in the order of recording. *)
FileOK(f) ==
    /\ f \in Seq(LineType)
    /\ \A n \in DOMAIN f : Parses(f[n]) =>
          /\ f[n].ord = 0 <=> f[n].item = Meta
          /\ f[n].item # Meta => \E k \in DOMAIN recorded : recorded[k] = f[n].item
    /\ \A m, n \in DOMAIN f : m < n /\ Parses(f[m]) /\ Parses(f[n]) =>
          /\ f[m].ord <= f[n].ord
          /\ f[m].ord = f[n].ord <=> f[m].item = f[n].item
          /\ Before(f[m].item, f[n].item)

(* What of it does not depend on what was recorded. *)
OrdinalsOK(f) ==
    /\ f \in Seq(LineType)
    /\ \A n \in DOMAIN f : Parses(f[n]) => (f[n].ord = 0 <=> f[n].item = Meta)
    /\ \A m, n \in DOMAIN f : m < n /\ Parses(f[m]) /\ Parses(f[n]) =>
          /\ f[m].ord <= f[n].ord
          /\ f[m].ord = f[n].ord <=> f[m].item = f[n].item

(* No ordinal is missing. *)
Contiguous(f) == \A n \in DOMAIN f : Parses(f[n]) => \A o \in 0..f[n].ord : At(f, o) # {}

FilesOK ==
    /\ plain # None => FileOK(plain)
    /\ zst # None => FileOK(zst)
    /\ worker.tmp # None => FileOK(worker.tmp)

(* What a recorder w has pending comes after everything that a reader of f finds,
   except for the record that w is about to write, again, under the same ordinal. *)
Bounded(w, f) == \A n \in DOMAIN f : Parses(f[n]) =>
    \/ /\ f[n].ord < w.next
       /\ \A k \in DOMAIN w.pending : f[n].item # w.pending[k] /\ Before(f[n].item, w.pending[k])
    \/ /\ HasTodo(w) /\ f[n].ord = w.next /\ f[n].item = Todo(w)

(* What is pending was recorded, in this order. *)
PendingOK(q) ==
    /\ \A k \in DOMAIN q : \E n \in DOMAIN recorded : recorded[n] = q[k]
    /\ \A k, m \in DOMAIN q : k < m => q[k] # q[m] /\ Before(q[k], q[m])

(* A recorder that is still being opened for a resumption. *)
ResumingOK(w) == /\ w.pc \in {"materialize", "dropzst", "open"}
                 /\ w.pending = <<>> /\ ~w.meta /\ w.fd = "none" /\ w.added = {}

(* A recorder that takes commands. *)
RecordingOK(w) ==
    /\ w.meta <=> w.next = 0
    /\ PendingOK(w.pending) /\ Bounded(w, Lines)
    /\ ~overlapped =>
          /\ w.fd # "gone"
          /\ w.added \subseteq ReadItems \cup {w.pending[k] : k \in DOMAIN w.pending}
          /\ w.next > 0 => At(Lines, w.next - 1) # {}

WriterOK(w) ==
    IF w.pc = "off" THEN w = Off
    ELSE /\ w.fd = "plain" => plain # None /\ Terminated(plain)
         /\ w.fd # "none" => Found # None
         /\ w.pc = "write" => w.fd # "none"
         /\ w.pc \in {"materialize", "dropzst", "open"} => w.fd = "none"
         /\ w.pc = "dropzst" => plain # None /\ zst # None /\ worker.pc = "idle"
         /\ w.pc = "open" /\ plain = None /\ ~overlapped => zst = None
         /\ IF w.op = "resume" THEN ResumingOK(w) ELSE RecordingOK(w)

(* A process that has the thread open holds the lock. *)
LockOK == \A p \in Process : writer[p].pc # "off" => lock = p

(* The worker's copy lies between the file it first saw and the file as it is, which
   only grows; when no recorder has come in between, it is the file. *)
WorkerOK ==
    /\ worker.pc # "idle" => plain # None /\ worker.before # None /\ Covered(worker.before, plain)
    /\ worker.pc \in {"check", "persist", "recheck", "unlink"} =>
          worker.tmp # None /\ Covered(worker.before, worker.tmp) /\ Covered(worker.tmp, plain)
    /\ worker.pc \in {"recheck", "unlink"} => zst = worker.tmp
    /\ worker.pc = "unlink" /\ ~worker.raced =>
          Covered(plain, zst) /\ \A p \in Process : ~Uses(p)

(* What is promised as long as no file in use was removed. *)
PromiseOK ==
    /\ acked # {} => Found # None
    /\ ~overlapped =>
          /\ acked \subseteq ReadItems
          /\ Contiguous(Lines)
          /\ plain # None /\ zst # None => Covered(zst, plain)

(* An item is recorded once. *)
RecordedOnce == \A k, m \in DOMAIN recorded : recorded[k] = recorded[m] => k = m

(* The inductive invariant. *)
IInv == TypeOK /\ FilesOK /\ LockOK /\ (\A p \in Process : WriterOK(writer[p]))
        /\ WorkerOK /\ PromiseOK /\ RecordedOnce

-----------------------------------------------------------------------------
(* Least and greatest elements, from the well-foundedness of the naturals. *)

LEMMA LeastElement ==
    ASSUME NEW T, T \subseteq Nat, T # {}
    PROVE  \E x \in T : \A y \in T : x <= y
<1> DEFINE R == {ss \in Nat \X Nat : ss[1] < ss[2]}
<1>1. IsWellFoundedOn(R, Nat)
    BY NatLessThanWellFounded, Zenon DEF OpToRel
<1>2. PICK x \in T : \A y \in T : ~(<<y, x>> \in R)
    <2> HIDE DEF R
    <2> QED
        BY <1>1, WFMin
<1>3. ASSUME NEW y \in T PROVE x <= y
    <2>1. x \in Nat /\ y \in Nat
        OBVIOUS
    <2>2. <<y, x>> \in Nat \X Nat /\ <<y, x>>[1] = y /\ <<y, x>>[2] = x
        BY <2>1
    <2>3. ~(y < x)
        BY <1>2, <2>2
    <2> QED
        BY <2>1, <2>3
<1> QED
    BY <1>3

LEMMA GreatestElement ==
    ASSUME NEW N \in Nat, NEW T, T \subseteq 0..N, T # {}
    PROVE  \E x \in T : \A y \in T : y <= x
<1> DEFINE U == {n \in Nat : \E y \in T : n = N - y}
<1>1. U \subseteq Nat
    OBVIOUS
<1>2. U # {}
    <2>1. PICK y \in T : TRUE
        OBVIOUS
    <2>2. N - y \in U
        OBVIOUS
    <2> QED
        BY <2>2
<1>3. PICK u \in U : \A y \in U : u <= y
    <2> HIDE DEF U
    <2> QED
        BY <1>1, <1>2, LeastElement
<1>4. PICK x \in T : u = N - x
    OBVIOUS
<1>5. ASSUME NEW y \in T PROVE y <= x
    <2>1. N - y \in U
        OBVIOUS
    <2> QED
        BY <2>1, <1>3, <1>4
<1> QED
    BY <1>5

-----------------------------------------------------------------------------
(* Lines and files. *)

LEMMA LineIsLine ==
    ASSUME NEW i \in Item \cup {Meta, Junk}, NEW o \in Nat, NEW nl \in BOOLEAN
    PROVE  /\ Line(i, o, nl) \in LineType
           /\ Line(i, o, nl).item = i /\ Line(i, o, nl).ord = o /\ Line(i, o, nl).nl = nl
BY DEF Line, LineType

LEMMA LineExcept ==
    ASSUME NEW l \in LineType, NEW b \in BOOLEAN
    PROVE  LET m == [l EXCEPT !.nl = b]
           IN m \in LineType /\ m.item = l.item /\ m.ord = l.ord /\ m.nl = b
BY DEF LineType

LEMMA FileDomain ==
    ASSUME NEW f \in Seq(LineType)
    PROVE  /\ f # None /\ Len(f) \in Nat /\ DOMAIN f = 1..Len(f)
           /\ \A n \in DOMAIN f : /\ f[n] \in LineType /\ f[n].ord \in Nat
                                  /\ f[n].item \in Item \cup {Meta, Junk}
                                  /\ f[n].nl \in BOOLEAN
<1>1. f # None
    BY RolloutAssumption
<1>2. Len(f) \in Nat /\ DOMAIN f = 1..Len(f) /\ \A n \in DOMAIN f : f[n] \in LineType
    OBVIOUS
<1> QED
    BY <1>1, <1>2 DEF LineType

(* An appended line. *)
LEMMA Appended ==
    ASSUME NEW f \in Seq(LineType), NEW l \in LineType
    PROVE  /\ Append(f, l) \in Seq(LineType)
           /\ DOMAIN Append(f, l) = (DOMAIN f) \cup {Len(f) + 1}
           /\ \A n \in DOMAIN f : Append(f, l)[n] = f[n] /\ n < Len(f) + 1
           /\ Append(f, l)[Len(f) + 1] = l
           /\ Len(Append(f, l)) = Len(f) + 1
OBVIOUS

(* A record that is repaired stays what it is. *)
SameRecords(f, g) ==
    /\ DOMAIN f = DOMAIN g
    /\ \A n \in DOMAIN f : f[n].item = g[n].item /\ f[n].ord = g[n].ord

LEMMA Repaired ==
    ASSUME NEW f \in Seq(LineType)
    PROVE  /\ EnsureNewlineTerminated(f) \in Seq(LineType)
           /\ Terminated(EnsureNewlineTerminated(f))
           /\ SameRecords(f, EnsureNewlineTerminated(f))
<1> DEFINE g == EnsureNewlineTerminated(f)
<1>1. CASE Terminated(f)
    BY <1>1 DEF EnsureNewlineTerminated, SameRecords
<1>2. CASE ~Terminated(f)
    <2>1. f # <<>> /\ Len(f) \in DOMAIN f /\ Len(f) \in Nat /\ DOMAIN f = 1..Len(f)
        BY <1>2 DEF Terminated
    <2>2. g = [f EXCEPT ![Len(f)].nl = TRUE]
        BY <1>2 DEF EnsureNewlineTerminated
    <2>3. [f[Len(f)] EXCEPT !.nl = TRUE] \in LineType
        <3>1. f[Len(f)] \in LineType
            BY <2>1, FileDomain
        <3> QED
            BY <3>1, LineExcept
    <2>4. g = [f EXCEPT ![Len(f)] = [f[Len(f)] EXCEPT !.nl = TRUE]]
        <3> HIDE DEF g
        <3> QED
            BY <2>2, Zenon
    <2>5. /\ g \in Seq(LineType) /\ Len(g) = Len(f) /\ DOMAIN g = DOMAIN f
          /\ \A n \in DOMAIN f : n # Len(f) => g[n] = f[n]
          /\ g[Len(f)] = [f[Len(f)] EXCEPT !.nl = TRUE]
        <3> HIDE DEF g
        <3> QED
            BY <2>1, <2>3, <2>4
    <2>6. g[Len(f)].nl /\ g[Len(f)].item = f[Len(f)].item /\ g[Len(f)].ord = f[Len(f)].ord
        <3>1. f[Len(f)] \in LineType
            BY <2>1, FileDomain
        <3> HIDE DEF g
        <3> QED
            BY <2>5, <3>1, LineExcept
    <2> HIDE DEF g
    <2>7. Terminated(g) /\ SameRecords(f, g)
        BY <2>1, <2>5, <2>6 DEF Terminated, SameRecords
    <2> QED
        BY <2>5, <2>7 DEF g
<1> QED
    BY <1>1, <1>2

(* Covering. *)

LEMMA CoveredSelf == ASSUME NEW f PROVE Covered(f, f)
BY DEF Covered, Has

LEMMA CoveredTrans ==
    ASSUME NEW f, NEW g, NEW h, Covered(f, g), Covered(g, h)
    PROVE  Covered(f, h)
BY DEF Covered, Has, Parses

LEMMA CoveredItems ==
    ASSUME NEW f, NEW g, Covered(f, g)
    PROVE  ItemsIn(f) \subseteq ItemsIn(g)
BY DEF Covered, Has, Parses, ItemsIn

LEMMA CoveredAt ==
    ASSUME NEW f, NEW g, NEW o, Covered(f, g), At(f, o) # {}
    PROVE  At(g, o) # {}
BY DEF Covered, Has, Parses, At

LEMMA CoveredBounded ==
    ASSUME NEW f, NEW g, NEW w, Covered(f, g), Bounded(w, g)
    PROVE  Bounded(w, f)
BY DEF Covered, Has, Parses, Bounded

LEMMA CoveredContiguous ==
    ASSUME NEW f, NEW g, Covered(f, g), Covered(g, f), Contiguous(f)
    PROVE  Contiguous(g)
<1> SUFFICES ASSUME NEW n \in DOMAIN g, Parses(g[n]), NEW o \in 0..g[n].ord
             PROVE  At(g, o) # {}
    BY DEF Contiguous
<1>1. PICK m \in DOMAIN f : f[m].item = g[n].item /\ f[m].ord = g[n].ord
    BY DEF Covered, Has
<1>2. At(f, o) # {}
    BY <1>1 DEF Contiguous, Parses
<1> QED
    BY <1>2, CoveredAt

LEMMA SameCovered ==
    ASSUME NEW f, NEW g, SameRecords(f, g)
    PROVE  Covered(f, g) /\ Covered(g, f)
BY DEF SameRecords, Covered, Has, Parses

LEMMA SameFileOK ==
    ASSUME NEW f, NEW g, SameRecords(f, g), FileOK(f), g \in Seq(LineType)
    PROVE  FileOK(g)
BY DEF SameRecords, FileOK, Parses

LEMMA EmptyFile ==
    /\ <<>> \in Seq(LineType) /\ FileOK(<<>>) /\ Contiguous(<<>>) /\ Terminated(<<>>)
    /\ ItemsIn(<<>>) = {}
    /\ \A g : Covered(<<>>, g)
    /\ \A w : Bounded(w, <<>>)
BY DEF FileOK, Contiguous, Terminated, ItemsIn, Covered, Bounded

-----------------------------------------------------------------------------
(* An append to a file whose last line is terminated. *)

LEMMA AppendCovers ==
    ASSUME NEW f \in Seq(LineType), NEW l \in LineType
    PROVE  Covered(f, Append(f, l))
BY Appended DEF Covered, Has

LEMMA BeforeSelf ==
    ASSUME recorded \in Seq(Item), RecordedOnce
    PROVE  /\ \A i : Before(i, i) /\ Before(i, Meta) /\ Before(Meta, i)
           /\ \A n \in DOMAIN recorded : recorded[n] \in Item
<1>1. \A n \in DOMAIN recorded : n \in Nat /\ recorded[n] \in Item
    OBVIOUS
<1> QED
    BY <1>1, RolloutAssumption DEF Before, RecordedOnce

(* The record that the recorder w writes keeps the file in order. *)
LEMMA AppendFileOK ==
    ASSUME NEW w \in WriterType, NEW f, FileOK(f), Bounded(w, f), PendingOK(w.pending),
           w.meta <=> w.next = 0, HasTodo(w), recorded \in Seq(Item), RecordedOnce, NEW nl \in BOOLEAN
    PROVE  LET l == Line(Todo(w), w.next, nl)
           IN /\ l \in LineType /\ Parses(l)
              /\ FileOK(Append(f, l)) /\ Bounded(w, Append(f, l))
<1> DEFINE l == Line(Todo(w), w.next, nl)
           g == Append(f, l)
<1>1. w.next \in Nat /\ w.pending \in Seq(Item) /\ w.meta \in BOOLEAN
    BY DEF WriterType
<1>2. ~w.meta => 1 \in DOMAIN w.pending /\ Todo(w) = w.pending[1] /\ Todo(w) \in Item
    BY <1>1 DEF HasTodo, Todo
<1>3. w.meta => Todo(w) = Meta
    BY DEF Todo
<1>4. Todo(w) \in Item \cup {Meta} /\ Todo(w) # Junk
    BY <1>1, <1>2, <1>3, RolloutAssumption
<1>5. l \in LineType /\ l.item = Todo(w) /\ l.ord = w.next
    <2>1. Todo(w) \in Item \cup {Meta, Junk}
        BY <1>4
    <2> QED
        BY <1>1, <2>1, LineIsLine
<1> HIDE DEF l
<1>6. f \in Seq(LineType)
    BY DEF FileOK
<1>7. /\ g \in Seq(LineType) /\ DOMAIN g = (DOMAIN f) \cup {Len(f) + 1}
      /\ \A n \in DOMAIN f : g[n] = f[n] /\ n < Len(f) + 1
      /\ g[Len(f) + 1] = l
    BY <1>5, <1>6, Appended
<1>8. DOMAIN f = 1..Len(f) /\ Len(f) \in Nat /\ \A n \in DOMAIN f : f[n].ord \in Nat
    BY <1>6, FileDomain
<1> HIDE DEF g
<1>9. Todo(w) = Meta <=> w.meta
    BY <1>1, <1>2, <1>3, RolloutAssumption
<1>10. ~w.meta => \E k \in DOMAIN recorded : recorded[k] = Todo(w)
    BY <1>2 DEF PendingOK
<1>11. ASSUME NEW m \in DOMAIN f, Parses(f[m])
       PROVE  /\ f[m].ord <= w.next
              /\ f[m].ord = w.next <=> f[m].item = Todo(w)
              /\ Before(f[m].item, Todo(w))
    <2>1. CASE HasTodo(w) /\ f[m].ord = w.next /\ f[m].item = Todo(w)
        BY <2>1, <1>1, BeforeSelf
    <2>2. CASE /\ f[m].ord < w.next
               /\ \A k \in DOMAIN w.pending :
                     f[m].item # w.pending[k] /\ Before(f[m].item, w.pending[k])
        <3>1. ~w.meta
            BY <2>2, <1>1, <1>8, <1>11
        <3> QED
            BY <2>2, <3>1, <1>1, <1>2, <1>8, <1>11
    <2> QED
        BY <2>1, <2>2, <1>11 DEF Bounded
<1>12. Parses(l)
    BY <1>4, <1>5 DEF Parses
<1>13. FileOK(g)
    <2>1. ASSUME NEW n \in DOMAIN g, Parses(g[n])
          PROVE  /\ g[n].ord = 0 <=> g[n].item = Meta
                 /\ g[n].item # Meta => \E k \in DOMAIN recorded : recorded[k] = g[n].item
        BY <2>1, <1>5, <1>7, <1>9, <1>10 DEF FileOK
    <2>2. ASSUME NEW m \in DOMAIN g, NEW n \in DOMAIN g, m < n, Parses(g[m]), Parses(g[n])
          PROVE  /\ g[m].ord <= g[n].ord
                 /\ g[m].ord = g[n].ord <=> g[m].item = g[n].item
                 /\ Before(g[m].item, g[n].item)
        <3>1. m \in DOMAIN f
            BY <2>2, <1>7, <1>8
        <3>2. CASE n \in DOMAIN f
            BY <2>2, <3>1, <3>2, <1>7 DEF FileOK
        <3>3. CASE n = Len(f) + 1
            BY <2>2, <3>1, <3>3, <1>5, <1>7, <1>11
        <3> QED
            BY <3>2, <3>3, <1>7
    <2> QED
        BY <2>1, <2>2, <1>7 DEF FileOK
<1>14. Bounded(w, g)
    BY <1>5, <1>7 DEF Bounded
<1> QED
    BY <1>5, <1>12, <1>13, <1>14 DEF g, l

(* Once it is written, the next one takes its place. *)
LEMMA WrittenBounded ==
    ASSUME NEW w \in WriterType, NEW f, f \in Seq(LineType), Bounded(w, f),
           PendingOK(w.pending), w.meta <=> w.next = 0, HasTodo(w),
           recorded \in Seq(Item), RecordedOnce
    PROVE  /\ Written(w) \in WriterType
           /\ Bounded(Written(w), f) /\ PendingOK(Written(w).pending)
           /\ Written(w).meta <=> Written(w).next = 0
           /\ Written(w).next = w.next + 1
           /\ {w.pending[k] : k \in DOMAIN w.pending} \ {Todo(w)} \subseteq
                 {Written(w).pending[k] : k \in DOMAIN Written(w).pending}
<1>1. w.next \in Nat /\ w.pending \in Seq(Item) /\ w.meta \in BOOLEAN
    BY DEF WriterType
<1>2. \A n \in DOMAIN f : f[n].ord \in Nat /\ f[n].item \in Item \cup {Meta, Junk}
    BY FileDomain
<1>3. CASE w.meta
    <2>1. /\ Written(w) = [w EXCEPT !.meta = FALSE, !.next = w.next + 1]
          /\ Written(w).pending = w.pending /\ Written(w).next = w.next + 1
          /\ Written(w).meta = FALSE /\ Todo(w) = Meta
        BY <1>3 DEF Written, WriterType, Todo
    <2>2. Written(w) \in WriterType
        <3>1. w.next + 1 \in Nat /\ FALSE \in BOOLEAN
            BY <1>1
        <3> QED
            BY <3>1, <2>1 DEF WriterType
    <2>3. \A k \in DOMAIN w.pending : Before(Meta, w.pending[k]) /\ Meta # w.pending[k]
        <3>1. \A k \in DOMAIN w.pending : w.pending[k] \in Item
            BY <1>1
        <3>2. \A i : Before(Meta, i)
            BY BeforeSelf
        <3> QED
            BY <3>1, <3>2, RolloutAssumption
    <2> QED
        BY <2>1, <2>2, <2>3, <1>1, <1>2, <1>3 DEF Bounded
<1>4. CASE ~w.meta
    <2>1. w.pending # <<>> /\ Todo(w) = w.pending[1]
        BY <1>4, <1>1 DEF HasTodo, Todo
    <2>2. /\ Written(w) = [w EXCEPT !.pending = Tail(w.pending), !.next = w.next + 1]
          /\ Written(w).pending = Tail(w.pending) /\ Written(w).next = w.next + 1
          /\ Written(w).meta = FALSE
        BY <1>4 DEF Written, WriterType
    <2>3. Written(w) \in WriterType
        <3>1. Tail(w.pending) \in Seq(Item) /\ w.next + 1 \in Nat
            BY <2>1, <1>1
        <3> QED
            BY <3>1, <2>2 DEF WriterType
    <2> DEFINE q == w.pending
               r == Tail(w.pending)
    <2>4. /\ q \in Seq(Item) /\ r \in Seq(Item) /\ DOMAIN q = 1..Len(q) /\ Len(q) \in Nat
          /\ DOMAIN r = 1..(Len(q) - 1) /\ 1 \in DOMAIN q
          /\ \A k \in DOMAIN r : k + 1 \in DOMAIN q /\ r[k] = q[k + 1]
        BY <2>1, <1>1
    <2>9. PendingOK(q)
        OBVIOUS
    <2> HIDE DEF q, r
    <2>5. PendingOK(r)
        <3>1. ASSUME NEW k \in DOMAIN r PROVE \E n \in DOMAIN recorded : recorded[n] = r[k]
            BY <2>4, <2>9 DEF PendingOK
        <3>2. ASSUME NEW k \in DOMAIN r, NEW m \in DOMAIN r, k < m
              PROVE  r[k] # r[m] /\ Before(r[k], r[m])
            <4>1. k + 1 \in DOMAIN q /\ m + 1 \in DOMAIN q /\ k + 1 < m + 1
                BY <2>4, <3>2
            <4> QED
                BY <4>1, <2>4, <2>9 DEF PendingOK
        <3> QED
            BY <3>1, <3>2 DEF PendingOK
    <2>6. \A k \in DOMAIN r : q[1] # r[k] /\ Before(q[1], r[k])
        <3> SUFFICES ASSUME NEW k \in DOMAIN r PROVE q[1] # r[k] /\ Before(q[1], r[k])
            OBVIOUS
        <3>1. k + 1 \in DOMAIN q /\ 1 < k + 1 /\ r[k] = q[k + 1]
            BY <2>4
        <3> QED
            BY <3>1, <2>4, <2>9 DEF PendingOK
    <2>7. Bounded(Written(w), f)
        <3> SUFFICES ASSUME NEW n \in DOMAIN f, Parses(f[n])
                     PROVE  /\ f[n].ord < w.next + 1
                            /\ \A k \in DOMAIN r : f[n].item # r[k] /\ Before(f[n].item, r[k])
            BY <2>2 DEF Bounded, r
        <3>1. CASE HasTodo(w) /\ f[n].ord = w.next /\ f[n].item = Todo(w)
            BY <3>1, <2>1, <2>6, <1>1 DEF q
        <3>2. CASE /\ f[n].ord < w.next
                   /\ \A k \in DOMAIN q : f[n].item # q[k] /\ Before(f[n].item, q[k])
            BY <3>2, <2>4, <1>1, <1>2
        <3> QED
            BY <3>1, <3>2 DEF Bounded, q
    <2>8. {q[k] : k \in DOMAIN q} \ {Todo(w)} \subseteq {r[k] : k \in DOMAIN r}
        <3> SUFFICES ASSUME NEW k \in DOMAIN q, q[k] # Todo(w)
                     PROVE  \E m \in DOMAIN r : r[m] = q[k]
            OBVIOUS
        <3>1. k - 1 \in DOMAIN r
            BY <2>1, <2>4 DEF q
        <3> QED
            BY <3>1, <2>4
    <2> QED
        <3>1. Written(w).meta <=> Written(w).next = 0
            BY <2>2, <1>1
        <3> QED
            BY <2>2, <2>3, <2>5, <2>7, <2>8, <3>1, Zenon DEF q, r
<1> QED
    BY <1>3, <1>4

-----------------------------------------------------------------------------
(* What a reader finds. *)

LEMMA LinesAre ==
    ASSUME TypeOK
    PROVE  /\ Lines \in Seq(LineType)
           /\ plain # None => Found = plain /\ Lines = plain /\ plain \in Seq(LineType)
           /\ plain = None => Found = zst
           /\ plain = None /\ zst # None => Lines = zst /\ zst \in Seq(LineType)
           /\ plain = None /\ zst = None => Lines = <<>>
BY EmptyFile DEF TypeOK, Lines, Found

LEMMA OthersOff ==
    ASSUME IInv, NEW p \in Process, writer[p].pc # "off", NEW q \in Process, q # p
    PROVE  writer[q] = Off /\ writer[q].pc = "off"
BY DEF IInv, LockOK, WriterOK

LEMMA OffType == Off \in WriterType
<1>1. <<>> \in Seq(Item)
    OBVIOUS
<1> QED
    BY <1>1 DEF Off, WriterType, Pcs, Ops

LEMMA OffOK == WriterOK(Off) /\ Off.pc = "off" /\ Off.fd = "none"
BY DEF WriterOK, Off

-----------------------------------------------------------------------------
(* A step of the process p that leaves the files alone, and perhaps acknowledges what
   can be read. *)
LEMMA AckStep ==
    ASSUME IInv, NEW p \in Process, TypeOK',
           UNCHANGED <<plain, zst, worker, recorded, overlapped>>,
           acked' # {} => Found # None, ~overlapped => acked' \subseteq ReadItems,
           \A q \in Process : q # p => writer'[q] = writer[q],
           WriterOK(writer'[p]), LockOK', Uses(p)' => Uses(p)
    PROVE  IInv'
<1>1. FilesOK'
    BY DEF IInv, FilesOK, FileOK, Before
<1>2. ASSUME NEW q \in Process PROVE WriterOK(writer[q])'
    <2>1. WriterOK(writer'[q])
        BY DEF IInv
    <2> QED
        BY <2>1 DEF WriterOK, RecordingOK, ResumingOK, Bounded, PendingOK, Before, Lines,
                    Found, ReadItems
<1>3. WorkerOK'
    <2>1. \A q \in Process : Uses(q)' => Uses(q)
        BY DEF Uses
    <2> QED
        BY <2>1 DEF IInv, WorkerOK
<1>4. PromiseOK'
    BY DEF IInv, PromiseOK, Lines, Found, ReadItems
<1>5. RecordedOnce'
    BY DEF IInv, RecordedOnce
<1> QED
    BY <1>1, <1>2, <1>3, <1>4, <1>5 DEF IInv

LEMMA QuietStep ==
    ASSUME IInv, NEW p \in Process, TypeOK',
           UNCHANGED <<plain, zst, worker, recorded, acked, overlapped>>,
           \A q \in Process : q # p => writer'[q] = writer[q],
           WriterOK(writer'[p]), LockOK', Uses(p)' => Uses(p)
    PROVE  IInv'
<1>1. (acked' # {} => Found # None) /\ (~overlapped => acked' \subseteq ReadItems)
    BY DEF IInv, PromiseOK
<1> QED
    BY <1>1, AckStep

(* A step of the process p that lets the plain file grow. *)
LEMMA PlainStep ==
    ASSUME IInv, NEW p \in Process, TypeOK', writer[p].pc # "off", Uses(p),
           UNCHANGED <<zst, worker, recorded, acked, overlapped>>,
           plain' # None, FileOK(plain'),
           plain # None => Covered(plain, plain'),
           plain = None => zst = None \/ overlapped,
           ~overlapped => Contiguous(plain'),
           \A q \in Process : q # p => writer'[q] = writer[q],
           WriterOK(writer[p])', LockOK'
    PROVE  IInv'
<1>1. FilesOK'
    BY DEF IInv, FilesOK, FileOK, Before
<1>2. ASSUME NEW q \in Process PROVE WriterOK(writer[q])'
    <2>1. CASE q = p
        BY <2>1
    <2>2. CASE q # p
        <3>1. writer'[q] = Off /\ writer'[q].pc = "off"
            BY <2>2, OthersOff
        <3> QED
            BY <3>1 DEF WriterOK
    <2> QED
        BY <2>1, <2>2
<1>3. WorkerOK'
    <2>1. worker.pc # "idle" => Covered(worker.before, plain')
        BY CoveredTrans DEF IInv, WorkerOK
    <2>2. worker.pc \in {"check", "persist", "recheck", "unlink"} => Covered(worker.tmp, plain')
        BY CoveredTrans DEF IInv, WorkerOK
    <2>3. ~(worker.pc = "unlink" /\ ~worker.raced)
        BY DEF IInv, WorkerOK
    <2> QED
        BY <2>1, <2>2, <2>3 DEF IInv, WorkerOK
<1>4. PromiseOK'
    <2>1. Found' = plain' /\ Lines' = plain'
        BY DEF Found, Lines
    <2>2. ~overlapped => acked \subseteq ItemsIn(plain')
        <3>1. CASE plain # None
            BY <3>1, LinesAre, CoveredItems DEF IInv, PromiseOK, ReadItems
        <3>2. CASE plain = None
            BY <3>2, LinesAre, EmptyFile DEF IInv, PromiseOK, ReadItems
        <3> QED
            BY <3>1, <3>2
    <2>3. ~overlapped /\ zst # None => Covered(zst, plain')
        BY CoveredTrans DEF IInv, PromiseOK
    <2> QED
        BY <2>1, <2>2, <2>3 DEF PromiseOK, ReadItems
<1>5. RecordedOnce'
    BY DEF IInv, RecordedOnce
<1> QED
    BY <1>1, <1>2, <1>3, <1>4, <1>5 DEF IInv

-----------------------------------------------------------------------------
(* Opening, closing and commands. *)

LEMMA WriterFields ==
    ASSUME NEW w \in WriterType
    PROVE  /\ w.pc \in Pcs /\ w.op \in Ops /\ w.attempt \in {1, 2} /\ w.pending \in Seq(Item)
           /\ w.meta \in BOOLEAN /\ w.fd \in {"none", "plain", "gone"}
           /\ w.deferred \in BOOLEAN /\ w.refresh \in BOOLEAN /\ w.next \in Nat
           /\ w.added \in SUBSET Item
BY DEF WriterType

(* The recorder's promise depends on what it has pending, not on its command. *)
LEMMA SameRecording ==
    ASSUME NEW w, NEW v, RecordingOK(w), v.meta = w.meta, v.next = w.next,
           v.pending = w.pending, v.added = w.added, v.fd = w.fd \/ v.fd # "gone"
    PROVE  RecordingOK(v)
BY DEF RecordingOK, Bounded, HasTodo, Todo

LEMMA BeginIs ==
    ASSUME NEW w \in WriterType, NEW op \in Ops
    PROVE  LET v == Begin(w, op)
           IN /\ v \in WriterType /\ v.op = op
              /\ v.pc = IF w.fd = "none" THEN "materialize" ELSE "write"
              /\ v.meta = w.meta /\ v.next = w.next /\ v.pending = w.pending
              /\ v.added = w.added /\ v.fd = w.fd
<1> DEFINE pc == IF w.fd = "none" THEN "materialize" ELSE "write"
<1>1. pc \in Pcs
    BY DEF Pcs
<1>2. Begin(w, op) = [w EXCEPT !.op = op, !.attempt = 1, !.pc = pc]
    BY DEF Begin
<1> HIDE DEF pc
<1> QED
    BY <1>1, <1>2 DEF WriterType, pc

(* A command starts. *)
LEMMA BeginOK ==
    ASSUME NEW w \in WriterType, NEW op \in Ops, op # "resume", w.pc \in {"idle", "write"},
           WriterOK(w)
    PROVE  WriterOK(Begin(w, op)) /\ Begin(w, op).pc # "off"
<1> DEFINE v == Begin(w, op)
<1>1. /\ v.op = op /\ v.pc = IF w.fd = "none" THEN "materialize" ELSE "write"
      /\ v.meta = w.meta /\ v.next = w.next /\ v.pending = w.pending
      /\ v.added = w.added /\ v.fd = w.fd
    BY BeginIs
<1> HIDE DEF v
<1>2. RecordingOK(w)
    BY DEF WriterOK, ResumingOK
<1>3. RecordingOK(v)
    BY <1>1, <1>2, SameRecording
<1>4. WriterOK(v)
    BY <1>1, <1>3 DEF WriterOK
<1> QED
    BY <1>1, <1>4 DEF v

LEMMA WriterSet ==
    ASSUME TypeOK, NEW p \in Process, NEW v \in WriterType, writer' = [writer EXCEPT ![p] = v]
    PROVE  /\ writer' \in [Process -> WriterType] /\ writer'[p] = v
           /\ \A q \in Process : q # p => writer'[q] = writer[q]
BY DEF TypeOK

LEMMA CloseIs ==
    ASSUME IInv, NEW p \in Process, Close(p), writer[p].pc # "off"
    PROVE  /\ writer' \in [Process -> WriterType] /\ writer'[p] = Off
           /\ \A q \in Process : q # p => writer'[q] = writer[q]
           /\ lock' = None /\ LockOK'
<1>1. /\ writer' \in [Process -> WriterType] /\ writer'[p] = Off
      /\ \A q \in Process : q # p => writer'[q] = writer[q]
    BY OffType, WriterSet DEF Close, IInv
<1>2. \A q \in Process : writer'[q].pc = "off"
    BY <1>1, OthersOff, OffOK
<1>3. lock' = None
    BY DEF Close, IInv, LockOK
<1> QED
    BY <1>1, <1>2, <1>3 DEF LockOK

LEMMA KeepLock ==
    ASSUME IInv, NEW p \in Process, writer[p].pc # "off", lock' = lock,
           \A q \in Process : q # p => writer'[q] = writer[q]
    PROVE  LockOK'
BY DEF IInv, LockOK

LEMMA TakeLock ==
    ASSUME IInv, NEW p \in Process, Acquire(p),
           \A q \in Process : q # p => writer'[q] = writer[q]
    PROVE  LockOK' /\ lock' \in Process
BY RolloutAssumption DEF IInv, LockOK, Acquire

LEMMA CreateKeeps ==
    ASSUME IInv, NEW p \in Process, Create(p)
    PROVE  IInv'
<1> DEFINE v == [Off EXCEPT !.pc = "idle", !.meta = TRUE, !.deferred = TRUE]
<1>1. /\ v \in WriterType /\ v.pc = "idle" /\ v.meta /\ v.next = 0 /\ v.pending = <<>>
      /\ v.fd = "none" /\ v.added = {} /\ v.op = "none"
    BY OffType DEF WriterType, Pcs, Off
<1>2. /\ writer' \in [Process -> WriterType] /\ writer'[p] = v
      /\ \A q \in Process : q # p => writer'[q] = writer[q]
    BY <1>1, WriterSet DEF IInv, Create
<1> HIDE DEF v
<1>3. LockOK' /\ lock' \in Process
    BY <1>2, TakeLock DEF Create
<1>4. TypeOK'
    BY <1>2, <1>3 DEF IInv, TypeOK, Create, history
<1>5. Lines = <<>>
    BY DEF Lines, Create
<1>6. RecordingOK(v)
    <2>1. PendingOK(<<>>)
        BY DEF PendingOK
    <2>2. Bounded(v, <<>>)
        BY EmptyFile
    <2> QED
        BY <1>1, <1>5, <2>1, <2>2 DEF RecordingOK
<1>7. WriterOK(v)
    BY <1>1, <1>6 DEF WriterOK
<1>8. ~Uses(p)'
    BY <1>1, <1>2 DEF Uses
<1> QED
    BY <1>2, <1>3, <1>4, <1>7, <1>8, QuietStep DEF Create, history

LEMMA ResumeKeeps ==
    ASSUME IInv, NEW p \in Process, Resume(p)
    PROVE  IInv'
<1> DEFINE v == [Off EXCEPT !.pc = "materialize", !.op = "resume"]
<1>1. /\ v \in WriterType /\ v.pc = "materialize" /\ ~v.meta /\ v.pending = <<>>
      /\ v.fd = "none" /\ v.added = {} /\ v.op = "resume"
    BY OffType DEF WriterType, Pcs, Ops, Off
<1>2. /\ writer' \in [Process -> WriterType] /\ writer'[p] = v
      /\ \A q \in Process : q # p => writer'[q] = writer[q]
    BY <1>1, WriterSet DEF IInv, Resume
<1> HIDE DEF v
<1>3. LockOK' /\ lock' \in Process
    BY <1>2, TakeLock DEF Resume
<1>4. TypeOK'
    BY <1>2, <1>3 DEF IInv, TypeOK, Resume, history
<1>5. WriterOK(v)
    BY <1>1 DEF WriterOK, ResumingOK
<1>6. ~Uses(p)'
    BY <1>1, <1>2 DEF Uses
<1> QED
    BY <1>2, <1>3, <1>4, <1>5, <1>6, QuietStep DEF Resume, history

(* persist and flush *)
LEMMA CommandKeeps ==
    ASSUME IInv, NEW p \in Process, NEW op \in Ops, op # "resume", writer[p].pc = "idle",
           writer' = [writer EXCEPT ![p] = Begin(@, op)], lock' = lock,
           UNCHANGED <<plain, zst, cold, worker, failures, crashes, history>>
    PROVE  IInv'
<1> DEFINE v == Begin(writer[p], op)
<1>1. writer[p] \in WriterType /\ WriterOK(writer[p])
    BY DEF IInv, TypeOK
<1>2. v \in WriterType /\ WriterOK(v) /\ v.fd = writer[p].fd /\ v.pc \in {"materialize", "write"}
    BY <1>1, BeginIs, BeginOK
<1>3. /\ writer' \in [Process -> WriterType] /\ writer'[p] = v
      /\ \A q \in Process : q # p => writer'[q] = writer[q]
    BY <1>2, WriterSet DEF IInv
<1> HIDE DEF v
<1>4. TypeOK'
    BY <1>3 DEF IInv, TypeOK, history
<1>5. LockOK'
    BY <1>3, KeepLock
<1>6. Uses(p)' => Uses(p)
    BY <1>2, <1>3 DEF Uses
<1> QED
    BY <1>2, <1>3, <1>4, <1>5, <1>6, QuietStep DEF history

(* The recorder is dropped; nothing is written any more. *)
LEMMA ClosedKeeps ==
    ASSUME IInv, NEW p \in Process, writer[p].pc # "off", Close(p), TypeOK',
           UNCHANGED <<plain, zst, worker, history>>
    PROVE  IInv'
<1>1. /\ writer'[p] = Off /\ LockOK'
      /\ \A q \in Process : q # p => writer'[q] = writer[q]
    BY CloseIs
<1>2. ~Uses(p)'
    BY <1>1, OffOK DEF Uses
<1> QED
    BY <1>1, <1>2, OffOK, QuietStep DEF history

LEMMA CloseType ==
    ASSUME IInv, NEW p \in Process, writer[p].pc # "off", Close(p),
           failures' \in 0..MaxFailures, crashes' \in 0..MaxCrashes,
           UNCHANGED <<plain, zst, cold, worker, history>>
    PROVE  TypeOK'
BY CloseIs DEF IInv, TypeOK, history

LEMMA ShutdownKeeps ==
    ASSUME IInv, NEW p \in Process, Shutdown(p)
    PROVE  IInv'
<1>1. CASE Close(p)
    <2>1. TypeOK'
        BY <1>1, CloseType DEF Shutdown, IInv, TypeOK
    <2> QED
        BY <1>1, <2>1, ClosedKeeps DEF Shutdown
<1>2. CASE writer' = [writer EXCEPT ![p] = Begin(@, "shutdown")] /\ lock' = lock
    BY <1>2, CommandKeeps DEF Shutdown, Ops
<1> QED
    BY <1>1, <1>2 DEF Shutdown

LEMMA DiscardKeeps ==
    ASSUME IInv, NEW p \in Process, DiscardThread(p)
    PROVE  IInv'
<1>1. TypeOK'
    BY CloseType DEF DiscardThread, IInv, TypeOK
<1> QED
    BY <1>1, ClosedKeeps DEF DiscardThread

-----------------------------------------------------------------------------
(* Failing calls, and the way to the open file. *)

LEMMA FailedIs ==
    ASSUME NEW w \in WriterType, w.op # "resume"
    PROVE  LET v == Failed(w)
           IN /\ v \in WriterType /\ v.op # "resume" /\ v.pc \in {"materialize", "idle"}
              /\ v.fd = "none" /\ v.meta = w.meta /\ v.next = w.next
              /\ v.pending = w.pending /\ v.added = w.added
<1>1. CASE w.attempt = 1
    <2>1. Failed(w) = [w EXCEPT !.attempt = 2, !.fd = "none", !.pc = "materialize"]
        BY <1>1 DEF Failed
    <2> QED
        BY <2>1 DEF WriterType, Pcs
<1>2. CASE w.attempt # 1 /\ w.attempt = 2 /\ w.op = "add"
    <2>1. Failed(w) = [w EXCEPT !.attempt = 1, !.fd = "none", !.pc = "materialize",
                                !.op = "flush"]
        BY <1>2 DEF Failed
    <2> QED
        BY <2>1 DEF WriterType, Pcs, Ops
<1>3. CASE w.attempt # 1 /\ ~(w.attempt = 2 /\ w.op = "add")
    <2>1. Failed(w) = [w EXCEPT !.attempt = 1, !.fd = "none", !.pc = "idle", !.op = "none"]
        BY <1>3 DEF Failed
    <2> QED
        BY <2>1 DEF WriterType, Pcs, Ops
<1> QED
    BY <1>1, <1>2, <1>3

LEMMA FailedOK ==
    ASSUME NEW w \in WriterType, w.op # "resume", w.pc # "off", WriterOK(w)
    PROVE  WriterOK(Failed(w))
<1> DEFINE v == Failed(w)
<1>1. /\ v \in WriterType /\ v.op # "resume" /\ v.pc \in {"materialize", "idle"}
      /\ v.fd = "none" /\ v.meta = w.meta /\ v.next = w.next
      /\ v.pending = w.pending /\ v.added = w.added
    BY FailedIs
<1> HIDE DEF v
<1>2. RecordingOK(v)
    BY <1>1, SameRecording DEF WriterOK
<1>3. WriterOK(v)
    BY <1>1, <1>2 DEF WriterOK
<1> QED
    BY <1>3 DEF v

LEMMA IoErrorKeeps ==
    ASSUME IInv, NEW p \in Process, IoError(p)
    PROVE  IInv'
<1>1. failures' \in 0..MaxFailures
    BY RolloutAssumption DEF IoError, IInv, TypeOK
<1>2. writer[p].pc # "off" /\ writer[p] \in WriterType /\ WriterOK(writer[p])
    BY DEF IoError, IInv, TypeOK
<1>3. CASE writer[p].op = "resume"
    <2>1. Close(p)
        BY <1>3 DEF IoError, Fail
    <2>2. TypeOK'
        BY <1>1, <1>2, <2>1, CloseType DEF IoError, IInv, TypeOK
    <2> QED
        BY <1>2, <2>1, <2>2, ClosedKeeps DEF IoError
<1>4. CASE writer[p].op # "resume"
    <2> DEFINE v == Failed(writer[p])
    <2>1. v \in WriterType /\ WriterOK(v) /\ v.fd = "none" /\ v.pc \in {"materialize", "idle"}
        BY <1>2, <1>4, FailedIs, FailedOK
    <2>2. writer' = [writer EXCEPT ![p] = v] /\ lock' = lock
        BY <1>4 DEF IoError, Fail
    <2> HIDE DEF v
    <2>3. /\ writer' \in [Process -> WriterType] /\ writer'[p] = v
          /\ \A q \in Process : q # p => writer'[q] = writer[q]
        BY <2>1, <2>2, WriterSet DEF IInv
    <2>4. TypeOK'
        BY <1>1, <2>2, <2>3 DEF IInv, TypeOK, IoError, history
    <2>5. LockOK'
        BY <1>2, <2>2, <2>3, KeepLock
    <2>6. ~Uses(p)'
        BY <2>1, <2>3 DEF Uses
    <2> QED
        BY <2>1, <2>3, <2>4, <2>5, <2>6, QuietStep DEF IoError, history
<1> QED
    BY <1>3, <1>4

(* The recorder's promise in the next state. *)
LEMMA RecordingNext ==
    ASSUME NEW v, NEW g, Lines' = g, UNCHANGED <<recorded, overlapped>>,
           v.meta <=> v.next = 0, PendingOK(v.pending), Bounded(v, g),
           ~overlapped =>
              /\ v.fd # "gone"
              /\ v.added \subseteq ItemsIn(g) \cup {v.pending[k] : k \in DOMAIN v.pending}
              /\ v.next > 0 => At(g, v.next - 1) # {},
           NEW p \in Process, writer'[p] = v
    PROVE  RecordingOK(writer[p])'
BY DEF RecordingOK, ReadItems, PendingOK, Bounded, Before, HasTodo, Todo

LEMMA MaterializeKeeps ==
    ASSUME IInv, NEW p \in Process, Materialize(p)
    PROVE  IInv'
<1> DEFINE w == writer[p]
<1>1. /\ w.pc = "materialize" /\ w \in WriterType /\ w.fd = "none" /\ worker \in WorkerType
      /\ WriterOK(w)
    BY DEF Materialize, IInv, TypeOK, WriterOK
<1>2. worker'.raced = (worker.pc = "unlink") /\ worker' \in WorkerType
      /\ worker'.pc = worker.pc /\ worker'.before = worker.before /\ worker'.tmp = worker.tmp
    BY <1>1 DEF Materialize, NowUsed, WorkerType
<1>3. RecordedOnce' /\ UNCHANGED <<zst, lock, failures, crashes, recorded, acked, overlapped>>
    BY DEF Materialize, history, IInv, RecordedOnce
<1>4. CASE plain = None /\ zst # None
    <2> DEFINE v == [w EXCEPT !.pc = "dropzst", !.refresh = TRUE]
    <2>1. /\ v \in WriterType /\ v.pc = "dropzst" /\ v.op = w.op /\ v.fd = "none"
          /\ v.meta = w.meta /\ v.next = w.next /\ v.pending = w.pending /\ v.added = w.added
        BY <1>1 DEF WriterType, Pcs
    <2>2. plain' = zst /\ cold' = TRUE /\ writer' = [writer EXCEPT ![p] = v]
        BY <1>4 DEF Materialize
    <2> HIDE DEF v
    <2>3. /\ writer' \in [Process -> WriterType] /\ writer'[p] = v
          /\ \A q \in Process : q # p => writer'[q] = writer[q]
        BY <2>1, <2>2, WriterSet DEF IInv
    <2>4. TypeOK'
        BY <1>2, <1>3, <2>2, <2>3 DEF IInv, TypeOK
    <2>5. worker.pc = "idle" /\ Lines' = Lines /\ Found' = zst /\ Lines = zst
        BY <1>3, <1>4, <2>2 DEF IInv, WorkerOK, Lines, Found
    <2>6. FilesOK'
        BY <1>2, <1>3, <1>4, <2>2 DEF IInv, FilesOK, FileOK, Before
    <2>7. LockOK'
        BY <1>1, <1>3, <2>3, KeepLock
    <2>8. WriterOK(writer[p])'
        <3>1. w.op = "resume" => ResumingOK(v)
            BY <1>1, <2>1 DEF WriterOK, ResumingOK
        <3>2. w.op # "resume" => RecordingOK(w)
            BY <1>1 DEF WriterOK
        <3>3. w.op # "resume" => RecordingOK(writer[p])'
            BY <3>2, <1>3, <2>1, <2>3, <2>5, RecordingNext, SameRecording
               DEF RecordingOK, ReadItems
        <3> QED
            BY <3>1, <3>3, <1>2, <1>3, <1>4, <2>1, <2>2, <2>3, <2>5 DEF WriterOK, ResumingOK
    <2>9. ASSUME NEW q \in Process, q # p PROVE WriterOK(writer[q])'
        BY <1>1, <2>3, <2>9, OthersOff DEF WriterOK
    <2>10. WorkerOK'
        BY <1>2, <2>5 DEF WorkerOK
    <2>11. PromiseOK'
        BY <1>3, <1>4, <2>2, <2>5, CoveredSelf DEF IInv, PromiseOK, ReadItems
    <2> QED
        BY <1>3, <2>4, <2>6, <2>7, <2>8, <2>9, <2>10, <2>11 DEF IInv
<1>5. CASE ~(plain = None /\ zst # None)
    <2> DEFINE v == [w EXCEPT !.pc = "open", !.refresh = (plain = None)]
    <2>1. /\ v \in WriterType /\ v.pc = "open" /\ v.op = w.op /\ v.fd = "none"
          /\ v.meta = w.meta /\ v.next = w.next /\ v.pending = w.pending /\ v.added = w.added
        <3>1. (plain = None) \in BOOLEAN
            OBVIOUS
        <3> QED
            BY <3>1, <1>1 DEF WriterType, Pcs
    <2>2. plain' = plain /\ cold' = cold /\ writer' = [writer EXCEPT ![p] = v]
        BY <1>5 DEF Materialize
    <2> HIDE DEF v
    <2>3. /\ writer' \in [Process -> WriterType] /\ writer'[p] = v
          /\ \A q \in Process : q # p => writer'[q] = writer[q]
        BY <2>1, <2>2, WriterSet DEF IInv
    <2>4. TypeOK'
        BY <1>2, <1>3, <2>2, <2>3 DEF IInv, TypeOK
    <2>5. Lines' = Lines /\ Found' = Found
        BY <1>3, <2>2 DEF Lines, Found
    <2>6. FilesOK'
        BY <1>2, <1>3, <2>2 DEF IInv, FilesOK, FileOK, Before
    <2>7. LockOK'
        BY <1>1, <1>3, <2>3, KeepLock
    <2>8. WriterOK(writer[p])'
        <3>1. w.op = "resume" => ResumingOK(v)
            BY <1>1, <2>1 DEF WriterOK, ResumingOK
        <3>2. w.op # "resume" => RecordingOK(w)
            BY <1>1 DEF WriterOK
        <3>3. w.op # "resume" => RecordingOK(writer[p])'
            BY <3>2, <1>3, <2>1, <2>3, <2>5, RecordingNext, SameRecording
               DEF RecordingOK, ReadItems
        <3> QED
            BY <3>1, <3>3, <1>3, <1>5, <2>1, <2>2, <2>3 DEF WriterOK, ResumingOK
    <2>9. ASSUME NEW q \in Process, q # p PROVE WriterOK(writer[q])'
        BY <1>1, <2>3, <2>9, OthersOff DEF WriterOK
    <2>10. WorkerOK'
        BY <1>2, <1>3, <2>2 DEF IInv, WorkerOK
    <2>11. PromiseOK'
        BY <1>3, <2>2, <2>5 DEF IInv, PromiseOK, ReadItems
    <2> QED
        BY <1>3, <2>4, <2>6, <2>7, <2>8, <2>9, <2>10, <2>11 DEF IInv
<1> QED
    BY <1>4, <1>5

-----------------------------------------------------------------------------
(* The scan from the end of the file. *)

LEMMA LastRecordIs ==
    ASSUME NEW f \in Seq(LineType), \E n \in DOMAIN f : Parses(f[n])
    PROVE  /\ LastRecord(f) \in DOMAIN f /\ Parses(f[LastRecord(f)])
           /\ \A m \in DOMAIN f : m > LastRecord(f) => ~Parses(f[m])
<1> DEFINE T == {n \in DOMAIN f : Parses(f[n])}
<1>1. Len(f) \in Nat /\ DOMAIN f = 1..Len(f)
    BY FileDomain
<1>2. T \subseteq 0..Len(f) /\ T # {}
    BY <1>1
<1>3. PICK x \in T : \A y \in T : y <= x
    <2> HIDE DEF T
    <2> QED
        BY <1>1, <1>2, GreatestElement
<1>4. x \in DOMAIN f /\ Parses(f[x]) /\ \A m \in DOMAIN f : m > x => ~Parses(f[m])
    BY <1>1, <1>3
<1> QED
    BY <1>4 DEF LastRecord

LEMMA OrdinalsOfFile == ASSUME NEW f, FileOK(f) PROVE OrdinalsOK(f)
BY DEF FileOK, OrdinalsOK

(* The greatest ordinal is the last one. *)
LEMMA LastOrdinalIs ==
    ASSUME NEW f, OrdinalsOK(f), \E n \in DOMAIN f : Parses(f[n])
    PROVE  /\ LastOrdinal(f) \in Nat /\ At(f, LastOrdinal(f)) # {}
           /\ \A n \in DOMAIN f : Parses(f[n]) => f[n].ord <= LastOrdinal(f)
<1> DEFINE x == LastRecord(f)
<1>1. f \in Seq(LineType)
    BY DEF OrdinalsOK
<1>2. x \in DOMAIN f /\ Parses(f[x]) /\ \A m \in DOMAIN f : m > x => ~Parses(f[m])
    BY <1>1, LastRecordIs
<1>3. DOMAIN f = 1..Len(f) /\ Len(f) \in Nat /\ \A n \in DOMAIN f : f[n].ord \in Nat
    BY <1>1, FileDomain
<1> HIDE DEF x
<1>4. ASSUME NEW n \in DOMAIN f, Parses(f[n]) PROVE f[n].ord <= f[x].ord
    <2>1. n <= x
        BY <1>2, <1>3, <1>4
    <2>2. n = x \/ n < x
        BY <2>1, <1>2, <1>3
    <2> QED
        BY <2>2, <1>2, <1>3, <1>4 DEF OrdinalsOK
<1>5. LastOrdinal(f) = f[x].ord
    BY DEF LastOrdinal, x
<1>6. x \in At(f, f[x].ord)
    BY <1>2 DEF At
<1> QED
    BY <1>2, <1>3, <1>4, <1>5, <1>6

(* The recorder's promise when the file has the same records, or a reader's view is
   already void. *)
LEMMA SameViewRecording ==
    ASSUME NEW w, NEW v, NEW g, RecordingOK(w), Lines' = g, UNCHANGED <<recorded, overlapped>>,
           Bounded(v, g), ~overlapped => Covered(Lines, g),
           v.meta = w.meta, v.next = w.next, v.pending = w.pending, v.added = w.added,
           v.fd # "gone", NEW p \in Process, writer'[p] = v
    PROVE  RecordingOK(writer[p])'
<1>1. ~overlapped =>
         /\ v.added \subseteq ItemsIn(g) \cup {v.pending[k] : k \in DOMAIN v.pending}
         /\ v.next > 0 => At(g, v.next - 1) # {}
    BY CoveredItems, CoveredAt DEF RecordingOK, ReadItems
<1>2. (v.meta <=> v.next = 0) /\ PendingOK(v.pending)
    BY DEF RecordingOK
<1> QED
    BY <1>1, <1>2, RecordingNext

LEMMA DropZstKeeps ==
    ASSUME IInv, NEW p \in Process, DropZst(p)
    PROVE  IInv'
<1> DEFINE w == writer[p]
           v == [w EXCEPT !.pc = "open"]
<1>1. /\ w.pc = "dropzst" /\ w \in WriterType /\ WriterOK(w) /\ w.fd = "none"
      /\ plain # None /\ worker.pc = "idle"
    BY DEF DropZst, IInv, TypeOK, WriterOK
<1>2. /\ v \in WriterType /\ v.pc = "open" /\ v.op = w.op /\ v.fd = "none"
      /\ v.meta = w.meta /\ v.next = w.next /\ v.pending = w.pending /\ v.added = w.added
    BY <1>1 DEF WriterType, Pcs
<1>3. writer' = [writer EXCEPT ![p] = v] /\ zst' = None
      /\ UNCHANGED <<plain, cold, lock, worker, failures, crashes, recorded, acked, overlapped>>
    BY DEF DropZst, history
<1> HIDE DEF v
<1>4. /\ writer' \in [Process -> WriterType] /\ writer'[p] = v
      /\ \A q \in Process : q # p => writer'[q] = writer[q]
    BY <1>2, <1>3, WriterSet DEF IInv
<1>5. TypeOK'
    BY <1>3, <1>4 DEF IInv, TypeOK
<1>6. Lines' = Lines /\ Found' = Found
    BY <1>1, <1>3 DEF Lines, Found
<1>7. FilesOK'
    BY <1>3 DEF IInv, FilesOK, FileOK, Before
<1>8. LockOK'
    BY <1>1, <1>3, <1>4, KeepLock
<1>9. WriterOK(writer[p])'
    <2>1. w.op = "resume" => ResumingOK(v)
        BY <1>1, <1>2 DEF WriterOK, ResumingOK
    <2>2. w.op # "resume" => RecordingOK(w)
        BY <1>1 DEF WriterOK
    <2>3. w.op # "resume" => RecordingOK(writer[p])'
        BY <2>2, <1>2, <1>3, <1>4, <1>6, RecordingNext, SameRecording
           DEF RecordingOK, ReadItems
    <2> QED
        BY <2>1, <2>3, <1>1, <1>2, <1>3, <1>4 DEF WriterOK, ResumingOK
<1>10. ASSUME NEW q \in Process, q # p PROVE WriterOK(writer[q])'
    BY <1>1, <1>4, <1>10, OthersOff DEF WriterOK
<1>11. WorkerOK'
    BY <1>1, <1>3 DEF WorkerOK
<1>12. PromiseOK' /\ RecordedOnce'
    BY <1>3, <1>6 DEF IInv, PromiseOK, ReadItems, RecordedOnce
<1> QED
    BY <1>5, <1>7, <1>8, <1>9, <1>10, <1>11, <1>12 DEF IInv

LEMMA OpenLogFileKeeps ==
    ASSUME IInv, NEW p \in Process, OpenLogFile(p)
    PROVE  IInv'
<1> DEFINE w == writer[p]
           v == [w EXCEPT !.pc = "write", !.fd = "plain", !.deferred = FALSE, !.refresh = FALSE]
           f == IF plain = None THEN <<>> ELSE plain
           g == EnsureNewlineTerminated(f)
<1>1. /\ w.pc = "open" /\ w \in WriterType /\ WriterOK(w) /\ w.op # "resume"
      /\ RecordingOK(w) /\ TypeOK
    BY DEF OpenLogFile, IInv, TypeOK, WriterOK
<1>2. /\ v \in WriterType /\ v.pc = "write" /\ v.op = w.op /\ v.fd = "plain"
      /\ v.meta = w.meta /\ v.next = w.next /\ v.pending = w.pending /\ v.added = w.added
    BY <1>1 DEF WriterType, Pcs
<1>3. writer' = [writer EXCEPT ![p] = v] /\ plain' = g
      /\ UNCHANGED <<zst, lock, worker, failures, crashes, recorded, acked, overlapped>>
    BY DEF OpenLogFile, history
<1>4. cold' \in BOOLEAN
    BY <1>1 DEF OpenLogFile, TypeOK, WriterType
<1> HIDE DEF v
<1>5. /\ writer' \in [Process -> WriterType] /\ writer'[p] = v
      /\ \A q \in Process : q # p => writer'[q] = writer[q]
    BY <1>1, <1>2, <1>3, WriterSet
<1>6. f \in Seq(LineType) /\ FileOK(f)
    BY <1>1, EmptyFile, LinesAre DEF IInv, FilesOK
<1>7. g \in Seq(LineType) /\ Terminated(g) /\ SameRecords(f, g)
    BY <1>6, Repaired
<1>8. FileOK(g) /\ Covered(f, g) /\ Covered(g, f)
    BY <1>6, <1>7, SameFileOK, SameCovered
<1>9. g # None
    BY <1>7, FileDomain
<1>10. ~overlapped => f = Lines
    BY <1>1, LinesAre DEF WriterOK
<1>11. Bounded(v, g)
    <2>1. plain # None => f = Lines
        BY <1>1, LinesAre
    <2>2. Bounded(w, f)
        BY <2>1, <1>1, EmptyFile DEF RecordingOK
    <2>3. Bounded(v, f)
        BY <2>2, <1>2 DEF Bounded, HasTodo, Todo
    <2> HIDE DEF f, g
    <2> QED
        BY <2>3, <1>8, CoveredBounded
<1> HIDE DEF f
<1>12. ~overlapped => Contiguous(g)
    BY <1>8, <1>10, CoveredContiguous DEF IInv, PromiseOK
<1>13. plain # None => Covered(plain, g)
    BY <1>8 DEF f
<1>14. plain = None => zst = None \/ overlapped
    BY <1>1 DEF WriterOK
<1> HIDE DEF g
<1>15. TypeOK'
    BY <1>3, <1>4, <1>5, <1>7 DEF IInv, TypeOK
<1>16. Lines' = g /\ Found' = g
    BY <1>3, <1>9 DEF Lines, Found
<1>17. WriterOK(writer[p])'
    <2>1. RecordingOK(writer[p])'
        BY <1>1, <1>2, <1>3, <1>5, <1>8, <1>10, <1>11, <1>16, SameViewRecording
    <2> QED
        BY <2>1, <1>1, <1>2, <1>3, <1>5, <1>7, <1>9, <1>16 DEF WriterOK
<1>18. LockOK'
    BY <1>1, <1>3, <1>5, KeepLock
<1>19. Uses(p)
    BY <1>1 DEF Uses
<1> QED
    BY <1>1, <1>3, <1>5, <1>8, <1>9, <1>12, <1>13, <1>14, <1>15, <1>17, <1>18, <1>19, PlainStep

LEMMA OpenForAppendKeeps ==
    ASSUME IInv, NEW p \in Process, OpenForAppend(p)
    PROVE  IInv'
<1> DEFINE g == EnsureNewlineTerminated(plain)
           v == [Off EXCEPT !.pc = "idle", !.fd = "plain", !.next = LastOrdinal(plain) + 1]
<1>1. /\ writer[p].pc = "open" /\ writer[p] \in WriterType /\ TypeOK
      /\ UNCHANGED <<zst, worker, failures, crashes, recorded, acked, overlapped>>
    BY DEF OpenForAppend, IInv, TypeOK, history
<1>2. CASE plain = None
    <2>1. Close(p) /\ UNCHANGED <<plain, cold>>
        BY <1>2 DEF OpenForAppend
    <2>2. TypeOK'
        BY <1>1, <2>1, CloseType DEF TypeOK, history
    <2> QED
        BY <1>1, <2>1, <2>2, ClosedKeeps DEF history
<1>3. CASE plain # None
    <2>1. plain' = g /\ cold' \in BOOLEAN
        BY <1>1, <1>3 DEF OpenForAppend, TypeOK, WriterType
    <2>2. plain \in Seq(LineType) /\ FileOK(plain) /\ Lines = plain
        BY <1>1, <1>3, LinesAre DEF IInv, FilesOK
    <2>3. g \in Seq(LineType) /\ Terminated(g) /\ SameRecords(plain, g)
        BY <2>2, Repaired
    <2>4. FileOK(g) /\ Covered(plain, g) /\ Covered(g, plain)
        BY <2>2, <2>3, SameFileOK, SameCovered
    <2>5. g # None
        BY <2>3, FileDomain
    <2> HIDE DEF g
    <2>6. ~overlapped => Contiguous(g)
        BY <2>2, <2>4, CoveredContiguous DEF IInv, PromiseOK
    <2>7. Uses(p)
        BY <1>1 DEF Uses
    <2>8. Lines' = g /\ Found' = g
        BY <2>1, <2>5 DEF Lines, Found
    <2>9. CASE plain # <<>> /\ plain[1].item = Meta
        <3>1. writer' = [writer EXCEPT ![p] = v] /\ lock' = lock
            BY <1>3, <2>9 DEF OpenForAppend
        <3>2. 1 \in DOMAIN plain /\ Parses(plain[1])
            BY <2>2, <2>9, RolloutAssumption DEF Parses
        <3>3. /\ LastOrdinal(plain) \in Nat /\ At(plain, LastOrdinal(plain)) # {}
              /\ \A n \in DOMAIN plain : Parses(plain[n]) => plain[n].ord <= LastOrdinal(plain)
            BY <2>2, <3>2, OrdinalsOfFile, LastOrdinalIs
        <3>4. /\ v \in WriterType /\ v.pc = "idle" /\ v.op = "none" /\ v.fd = "plain"
              /\ v.meta = FALSE /\ v.next = LastOrdinal(plain) + 1 /\ v.pending = <<>>
              /\ v.added = {}
            <4>1. LastOrdinal(plain) + 1 \in Nat
                BY <3>3
            <4> HIDE DEF g
            <4> QED
                BY <4>1, OffType DEF WriterType, Pcs, Off
        <3> HIDE DEF v
        <3>5. /\ writer' \in [Process -> WriterType] /\ writer'[p] = v
              /\ \A q \in Process : q # p => writer'[q] = writer[q]
            BY <1>1, <3>1, <3>4, WriterSet
        <3>6. Bounded(v, plain)
            <4>1. \A n \in DOMAIN plain : plain[n].ord \in Nat
                BY <2>2, FileDomain
            <4> QED
                BY <3>3, <3>4, <4>1 DEF Bounded
        <3>7. Bounded(v, g) /\ At(g, LastOrdinal(plain)) # {}
            BY <2>4, <3>3, <3>6, CoveredBounded, CoveredAt
        <3>8. RecordingOK(writer[p])'
            <4>1. PendingOK(<<>>)
                BY DEF PendingOK
            <4>2. v.meta <=> v.next = 0
                BY <3>3, <3>4
            <4>3. v.next - 1 = LastOrdinal(plain)
                BY <3>3, <3>4
            <4> QED
                BY <4>1, <4>2, <4>3, <1>1, <2>8, <3>4, <3>5, <3>7, RecordingNext
        <3>9. WriterOK(writer[p])'
            BY <3>8, <2>1, <2>3, <2>5, <2>8, <3>4, <3>5 DEF WriterOK
        <3>10. TypeOK' /\ LockOK'
            BY <1>1, <2>1, <2>3, <3>1, <3>5, KeepLock DEF IInv, TypeOK
        <3> QED
            BY <1>1, <1>3, <2>1, <2>4, <2>5, <2>6, <2>7, <3>5, <3>9, <3>10, PlainStep
    <2>10. CASE ~(plain # <<>> /\ plain[1].item = Meta)
        <3>1. Close(p)
            BY <1>3, <2>10 DEF OpenForAppend
        <3>2. /\ writer' \in [Process -> WriterType] /\ writer'[p] = Off
              /\ \A q \in Process : q # p => writer'[q] = writer[q]
              /\ lock' = None /\ LockOK'
            BY <1>1, <3>1, CloseIs
        <3>3. TypeOK'
            BY <1>1, <2>1, <2>3, <3>2 DEF TypeOK
        <3>4. WriterOK(writer[p])'
            BY <3>2, OffOK DEF WriterOK
        <3> QED
            BY <1>1, <1>3, <2>1, <2>4, <2>5, <2>6, <2>7, <3>2, <3>3, <3>4, PlainStep
    <2> QED
        BY <2>9, <2>10
<1> QED
    BY <1>2, <1>3

-----------------------------------------------------------------------------
(* Writing. *)

LEMMA GrowContiguous ==
    ASSUME NEW f \in Seq(LineType), Contiguous(f), NEW l \in LineType, Parses(l),
           l.ord > 0 => At(f, l.ord - 1) # {}
    PROVE  Contiguous(Append(f, l))
<1> DEFINE g == Append(f, l)
<1>1. /\ g \in Seq(LineType) /\ DOMAIN g = (DOMAIN f) \cup {Len(f) + 1}
      /\ \A n \in DOMAIN f : g[n] = f[n]
      /\ g[Len(f) + 1] = l
    BY Appended
<1>2. Covered(f, g) /\ l.ord \in Nat /\ \A n \in DOMAIN f : f[n].ord \in Nat
    BY AppendCovers, FileDomain DEF LineType
<1> HIDE DEF g
<1> SUFFICES ASSUME NEW n \in DOMAIN g, Parses(g[n]), NEW o \in 0..g[n].ord
             PROVE  At(g, o) # {}
    BY DEF Contiguous, g
<1>3. CASE n \in DOMAIN f
    <2>1. At(f, o) # {}
        BY <1>1, <1>3 DEF Contiguous
    <2> QED
        BY <2>1, <1>2, CoveredAt
<1>4. CASE n = Len(f) + 1
    <2>1. g[n] = l /\ o \in 0..l.ord
        BY <1>1, <1>4
    <2>2. CASE o = l.ord
        <3>1. n \in At(g, o)
            BY <2>1, <2>2 DEF At
        <3> QED
            BY <3>1
    <2>3. CASE o # l.ord
        <3>1. l.ord > 0 /\ o \in 0..(l.ord - 1)
            BY <2>1, <2>3, <1>2
        <3>2. PICK m \in At(f, l.ord - 1) : TRUE
            BY <3>1
        <3>3. m \in DOMAIN f /\ Parses(f[m]) /\ f[m].ord = l.ord - 1
            BY <3>2 DEF At
        <3>4. At(f, o) # {}
            BY <3>1, <3>3 DEF Contiguous
        <3> QED
            BY <3>4, <1>2, CoveredAt
    <2> QED
        BY <2>2, <2>3
<1> QED
    BY <1>1, <1>3, <1>4

(* A fragment adds no record. *)
LEMMA FragmentOK ==
    ASSUME NEW f, FileOK(f)
    PROVE  LET g == Append(f, Fragment)
           IN FileOK(g) /\ Covered(f, g) /\ Covered(g, f)
<1> DEFINE g == Append(f, Fragment)
<1>1. f \in Seq(LineType)
    BY DEF FileOK
<1>2. Fragment \in LineType /\ ~Parses(Fragment)
    BY LineIsLine DEF Fragment, Parses
<1>3. /\ g \in Seq(LineType) /\ DOMAIN g = (DOMAIN f) \cup {Len(f) + 1}
      /\ \A n \in DOMAIN f : g[n] = f[n]
      /\ g[Len(f) + 1] = Fragment
    BY <1>1, <1>2, Appended
<1> HIDE DEF g
<1>4. \A n \in DOMAIN g : Parses(g[n]) => n \in DOMAIN f /\ g[n] = f[n]
    BY <1>2, <1>3
<1>5. FileOK(g)
    BY <1>3, <1>4 DEF FileOK
<1>6. Covered(f, g) /\ Covered(g, f)
    BY <1>3, <1>4 DEF Covered, Has
<1> QED
    BY <1>5, <1>6 DEF g

(* The file after the recorder w has written its next record, or a part of it. *)
GrownBy(w, g) == /\ g \in Seq(LineType) /\ g # None /\ FileOK(g)
                 /\ Covered(plain, g) /\ Bounded(w, g) /\ (~overlapped => Contiguous(g))

LEMMA WholeLine ==
    ASSUME IInv, NEW w \in WriterType, RecordingOK(w), HasTodo(w), plain # None, Terminated(plain),
           NEW nl \in BOOLEAN
    PROVE  LET g == Write(plain, Line(Todo(w), w.next, nl))
           IN /\ GrownBy(w, g) /\ Todo(w) \in ItemsIn(g) /\ At(g, w.next) # {}
              /\ nl => Terminated(g)
<1> DEFINE l == Line(Todo(w), w.next, nl)
           g == Append(plain, l)
<1>1. Write(plain, l) = g
    BY DEF Write
<1>2. /\ plain \in Seq(LineType) /\ FileOK(plain) /\ Lines = plain
      /\ recorded \in Seq(Item) /\ RecordedOnce
    BY LinesAre DEF IInv, FilesOK, TypeOK
<1>3. Bounded(w, plain) /\ PendingOK(w.pending) /\ (w.meta <=> w.next = 0)
    BY <1>2 DEF RecordingOK
<1>4. l \in LineType /\ Parses(l) /\ FileOK(g) /\ Bounded(w, g)
    BY <1>2, <1>3, AppendFileOK
<1>5. l.item = Todo(w) /\ l.ord = w.next /\ l.nl = nl
    BY DEF Line
<1> HIDE DEF l
<1>6. g \in Seq(LineType) /\ Covered(plain, g) /\ Len(plain) + 1 \in DOMAIN g
      /\ g[Len(plain) + 1] = l /\ Len(g) = Len(plain) + 1
    BY <1>2, <1>4, Appended, AppendCovers
<1>7. g # None
    BY <1>6, FileDomain
<1>8. ~overlapped => Contiguous(g)
    <2>1. ~overlapped => Contiguous(plain)
        BY <1>2 DEF IInv, PromiseOK
    <2>2. ~overlapped /\ w.next > 0 => At(plain, w.next - 1) # {}
        BY <1>2 DEF RecordingOK
    <2> QED
        BY <2>1, <2>2, <1>2, <1>4, <1>5, GrowContiguous
<1> HIDE DEF g
<1>9. Todo(w) \in ItemsIn(g)
    BY <1>4, <1>5, <1>6 DEF ItemsIn, Parses
<1>10. Len(plain) + 1 \in At(g, w.next)
    BY <1>4, <1>5, <1>6 DEF At
<1>11. nl => Terminated(g)
    BY <1>5, <1>6 DEF Terminated
<1>12. GrownBy(w, g)
    BY <1>4, <1>6, <1>7, <1>8 DEF GrownBy
<1> QED
    BY <1>1, <1>9, <1>10, <1>11, <1>12 DEF l

LEMMA PartialOK ==
    ASSUME IInv, NEW w \in WriterType, RecordingOK(w), HasTodo(w), plain # None, Terminated(plain),
           NEW g \in Partial(plain, Line(Todo(w), w.next, TRUE))
    PROVE  GrownBy(w, g)
<1>1. /\ plain \in Seq(LineType) /\ FileOK(plain) /\ Lines = plain
    BY LinesAre DEF IInv, FilesOK
<1>2. Bounded(w, plain) /\ (~overlapped => Contiguous(plain))
    BY <1>1 DEF RecordingOK, IInv, PromiseOK
<1>3. CASE g = plain
    BY <1>1, <1>2, <1>3, CoveredSelf DEF GrownBy
<1>4. CASE g = Write(plain, Fragment)
    <2>1. g = Append(plain, Fragment)
        BY <1>4 DEF Write
    <2>2. FileOK(g) /\ Covered(plain, g) /\ Covered(g, plain)
        BY <1>1, <2>1, FragmentOK
    <2>3. g \in Seq(LineType)
        BY <2>2 DEF FileOK
    <2>4. Bounded(w, g) /\ (~overlapped => Contiguous(g))
        BY <1>2, <2>2, CoveredBounded, CoveredContiguous
    <2> QED
        BY <2>2, <2>3, <2>4, FileDomain DEF GrownBy
<1>5. CASE g = Write(plain, Line(Todo(w), w.next, FALSE))
    BY <1>5, WholeLine
<1>6. /\ Line(Todo(w), w.next, TRUE).item = Todo(w)
      /\ Line(Todo(w), w.next, TRUE).ord = w.next
    BY DEF Line
<1> QED
    BY <1>3, <1>4, <1>5, <1>6 DEF Partial

(* A recorder that writes takes commands and has a file. *)
LEMMA WritingIs ==
    ASSUME IInv, NEW p \in Process, writer[p].pc = "write"
    PROVE  LET w == writer[p]
           IN /\ w \in WriterType /\ WriterOK(w) /\ RecordingOK(w) /\ w.op # "resume"
              /\ w.fd \in {"plain", "gone"} /\ (w.fd = "gone" => overlapped)
              /\ w.fd = "plain" => plain # None /\ Terminated(plain) /\ Lines = plain
              /\ Found # None /\ recorded \in Seq(Item) /\ RecordedOnce /\ TypeOK
              /\ Lines \in Seq(LineType)
<1> DEFINE w == writer[p]
<1>1. w \in WriterType /\ WriterOK(w) /\ recorded \in Seq(Item) /\ RecordedOnce /\ TypeOK
    BY DEF IInv, TypeOK
<1>2. w.fd \in {"none", "plain", "gone"}
    BY <1>1, WriterFields
<1>3. /\ RecordingOK(w) /\ w.op # "resume" /\ w.fd # "none" /\ Found # None
      /\ w.fd = "plain" => plain # None /\ Terminated(plain)
    BY <1>1 DEF WriterOK, ResumingOK
<1>4. w.fd = "gone" => overlapped
    BY <1>3 DEF RecordingOK
<1> QED
    BY <1>1, <1>2, <1>3, <1>4, LinesAre

LEMMA WrittenIs ==
    ASSUME NEW w \in WriterType
    PROVE  LET v == Written(w)
           IN v.pc = w.pc /\ v.op = w.op /\ v.fd = w.fd /\ v.added = w.added
BY DEF Written, WriterType

LEMMA WriteItemKeeps ==
    ASSUME IInv, NEW p \in Process, WriteItem(p)
    PROVE  IInv'
<1> DEFINE w == writer[p]
           v == Written(w)
           g == Write(plain, Line(Todo(w), w.next, TRUE))
<1>1. /\ w.pc = "write" /\ HasTodo(w) /\ writer' = [writer EXCEPT ![p] = v]
      /\ UNCHANGED <<zst, lock, worker, failures, crashes, recorded, acked, overlapped>>
    BY DEF WriteItem, history
<1>2. /\ w \in WriterType /\ WriterOK(w) /\ RecordingOK(w) /\ w.op # "resume"
      /\ w.fd \in {"plain", "gone"} /\ (w.fd = "gone" => overlapped)
      /\ w.fd = "plain" => plain # None /\ Terminated(plain) /\ Lines = plain
      /\ Found # None /\ recorded \in Seq(Item) /\ RecordedOnce /\ TypeOK
      /\ Lines \in Seq(LineType)
    BY <1>1, WritingIs
<1>3. v.pc = "write" /\ v.op = w.op /\ v.fd = w.fd /\ v.added = w.added
    BY <1>1, <1>2, WrittenIs
<1>4. PendingOK(w.pending) /\ (w.meta <=> w.next = 0) /\ Bounded(w, Lines)
    BY <1>2 DEF RecordingOK
<1>5. /\ v \in WriterType /\ PendingOK(v.pending) /\ (v.meta <=> v.next = 0)
      /\ v.next = w.next + 1 /\ Bounded(v, Lines) /\ w.next \in Nat
      /\ {w.pending[k] : k \in DOMAIN w.pending} \ {Todo(w)} \subseteq
            {v.pending[k] : k \in DOMAIN v.pending}
    BY <1>1, <1>2, <1>4, WrittenBounded, WriterFields
<1>6. CASE w.fd = "plain"
    <2>1. /\ GrownBy(w, g) /\ Todo(w) \in ItemsIn(g) /\ At(g, w.next) # {} /\ Terminated(g)
        BY <1>1, <1>2, <1>6, WholeLine
    <2>2. plain' = g /\ cold' \in BOOLEAN
        BY <1>2, <1>6 DEF WriteItem, Store, TypeOK
    <2>3. /\ g \in Seq(LineType) /\ g # None /\ FileOK(g) /\ Covered(plain, g) /\ Bounded(w, g)
          /\ ~overlapped => Contiguous(g)
        BY <2>1 DEF GrownBy
    <2>4. Bounded(v, g)
        BY <1>1, <1>2, <1>4, <2>3, WrittenBounded
    <2> HIDE DEF g, v
    <2>5. /\ writer' \in [Process -> WriterType] /\ writer'[p] = v
          /\ \A q \in Process : q # p => writer'[q] = writer[q]
        BY <1>1, <1>2, <1>5, WriterSet
    <2>6. TypeOK'
        BY <1>1, <1>2, <2>2, <2>3, <2>5 DEF TypeOK
    <2>7. LockOK'
        BY <1>1, <2>5, KeepLock
    <2>8. Lines' = g /\ Found' = g
        BY <2>2, <2>3 DEF Lines, Found
    <2>9. ~overlapped =>
             v.added \subseteq ItemsIn(g) \cup {v.pending[k] : k \in DOMAIN v.pending}
        <3>1. ~overlapped =>
                 w.added \subseteq ItemsIn(plain) \cup {w.pending[k] : k \in DOMAIN w.pending}
            BY <1>2, <1>6 DEF RecordingOK, ReadItems
        <3>2. ItemsIn(plain) \subseteq ItemsIn(g)
            BY <2>3, CoveredItems
        <3> QED
            BY <3>1, <3>2, <1>3, <1>5, <2>1
    <2>10. v.next - 1 = w.next
        BY <1>5
    <2>11. RecordingOK(writer[p])'
        BY <1>1, <1>3, <1>5, <1>6, <2>1, <2>4, <2>5, <2>8, <2>9, <2>10, RecordingNext
    <2>12. WriterOK(writer[p])'
        BY <2>11, <1>2, <1>3, <1>6, <2>1, <2>2, <2>3, <2>5, <2>8 DEF WriterOK
    <2>13. Uses(p)
        BY <1>6 DEF Uses
    <2> QED
        BY <1>1, <1>2, <1>6, <2>2, <2>3, <2>5, <2>6, <2>7, <2>12, <2>13, PlainStep
<1>7. CASE w.fd = "gone"
    <2> HIDE DEF v
    <2>1. UNCHANGED <<plain, cold>>
        BY <1>7 DEF WriteItem, Store
    <2>2. /\ writer' \in [Process -> WriterType] /\ writer'[p] = v
          /\ \A q \in Process : q # p => writer'[q] = writer[q]
        BY <1>1, <1>2, <1>5, WriterSet
    <2>3. TypeOK' /\ LockOK'
        BY <1>1, <1>2, <2>1, <2>2, KeepLock DEF TypeOK
    <2>4. WriterOK(v)
        BY <1>2, <1>3, <1>5, <1>7 DEF WriterOK, RecordingOK
    <2>5. ~Uses(p)'
        BY <1>3, <1>7, <2>2 DEF Uses
    <2> QED
        BY <1>1, <2>1, <2>2, <2>3, <2>4, <2>5, QuietStep
<1> QED
    BY <1>2, <1>6, <1>7

LEMMA WriteFailsKeeps ==
    ASSUME IInv, NEW p \in Process, WriteFails(p)
    PROVE  IInv'
<1> DEFINE w == writer[p]
           v == Failed(w)
           l == Line(Todo(w), w.next, TRUE)
<1>1. /\ w.pc = "write" /\ HasTodo(w) /\ StorePart(p, l)
      /\ UNCHANGED <<zst, worker, crashes, recorded, acked, overlapped>>
    BY DEF WriteFails, history
<1>2. /\ w \in WriterType /\ WriterOK(w) /\ RecordingOK(w) /\ w.op # "resume"
      /\ w.fd \in {"plain", "gone"} /\ TypeOK
      /\ w.fd = "plain" => plain # None /\ Terminated(plain) /\ Lines = plain
    BY <1>1, WritingIs
<1>3. failures' \in 0..MaxFailures
    BY <1>2, RolloutAssumption DEF WriteFails, TypeOK
<1>4. /\ v \in WriterType /\ v.op # "resume" /\ v.pc \in {"materialize", "idle"}
      /\ v.fd = "none" /\ v.meta = w.meta /\ v.next = w.next
      /\ v.pending = w.pending /\ v.added = w.added /\ WriterOK(v)
    BY <1>1, <1>2, FailedIs, FailedOK
<1>5. writer' = [writer EXCEPT ![p] = v] /\ lock' = lock
    BY <1>2 DEF WriteFails, Fail
<1> HIDE DEF v, l
<1>6. /\ writer' \in [Process -> WriterType] /\ writer'[p] = v
      /\ \A q \in Process : q # p => writer'[q] = writer[q]
    BY <1>2, <1>4, <1>5, WriterSet
<1>7. LockOK'
    BY <1>1, <1>5, <1>6, KeepLock
<1>8. CASE w.fd = "plain"
    <2>1. PICK g \in Partial(plain, l) : plain' = g /\ cold' \in BOOLEAN
        BY <1>1, <1>2, <1>8 DEF StorePart, Store, TypeOK
    <2>2. GrownBy(w, g)
        BY <1>1, <1>2, <1>8, <2>1, PartialOK DEF l
    <2>3. /\ g \in Seq(LineType) /\ g # None /\ FileOK(g) /\ Covered(plain, g) /\ Bounded(w, g)
          /\ ~overlapped => Contiguous(g)
        BY <2>2 DEF GrownBy
    <2>4. TypeOK'
        BY <1>1, <1>2, <1>3, <1>5, <1>6, <2>1, <2>3 DEF TypeOK
    <2>5. Lines' = g /\ Found' = g
        BY <2>1, <2>3 DEF Lines, Found
    <2>6. Bounded(v, g)
        BY <1>4, <2>3 DEF Bounded, HasTodo, Todo
    <2>7. RecordingOK(writer[p])'
        BY <1>1, <1>2, <1>4, <1>6, <1>8, <2>3, <2>5, <2>6, SameViewRecording
    <2>8. WriterOK(writer[p])'
        BY <1>4, <1>6, <2>7 DEF WriterOK
    <2>9. Uses(p)
        BY <1>8 DEF Uses
    <2> QED
        BY <1>1, <1>2, <1>6, <1>7, <1>8, <2>1, <2>3, <2>4, <2>8, <2>9, PlainStep
<1>9. CASE w.fd = "gone"
    <2>1. UNCHANGED <<plain, cold>>
        BY <1>1, <1>9 DEF StorePart
    <2>2. TypeOK'
        BY <1>1, <1>2, <1>3, <1>5, <1>6, <2>1 DEF TypeOK
    <2>3. ~Uses(p)'
        BY <1>4, <1>6 DEF Uses
    <2> QED
        BY <1>1, <1>4, <1>6, <1>7, <2>1, <2>2, <2>3, QuietStep
<1> QED
    BY <1>2, <1>8, <1>9

LEMMA CrashKeeps ==
    ASSUME IInv, NEW p \in Process, Crash(p)
    PROVE  IInv'
<1> DEFINE w == writer[p]
           l == Line(Todo(w), w.next, TRUE)
<1>1. /\ w.pc # "off" /\ Close(p) /\ TypeOK
      /\ UNCHANGED <<zst, worker, failures, recorded, acked, overlapped>>
    BY DEF Crash, history, IInv
<1>2. crashes' \in 0..MaxCrashes
    BY <1>1, RolloutAssumption DEF Crash, TypeOK
<1>3. CASE w.pc = "write" /\ HasTodo(w) /\ w.fd = "plain"
    <2>1. /\ w \in WriterType /\ RecordingOK(w) /\ plain # None /\ Terminated(plain)
        BY <1>3, WritingIs
    <2>2. StorePart(p, l)
        BY <1>3 DEF Crash
    <2> HIDE DEF l
    <2>3. PICK g \in Partial(plain, l) : plain' = g /\ cold' \in BOOLEAN
        BY <1>1, <1>3, <2>2 DEF StorePart, Store, TypeOK
    <2>4. GrownBy(w, g)
        BY <1>3, <2>1, <2>3, PartialOK DEF l
    <2>5. /\ g \in Seq(LineType) /\ g # None /\ FileOK(g) /\ Covered(plain, g)
          /\ ~overlapped => Contiguous(g)
        BY <2>4 DEF GrownBy
    <2>6. /\ writer' \in [Process -> WriterType] /\ writer'[p] = Off
          /\ \A q \in Process : q # p => writer'[q] = writer[q]
          /\ lock' = None /\ LockOK'
        BY <1>1, CloseIs
    <2>7. TypeOK'
        BY <1>1, <1>2, <2>3, <2>5, <2>6 DEF TypeOK
    <2>8. WriterOK(writer[p])'
        BY <2>6, OffOK DEF WriterOK
    <2>9. Uses(p)
        BY <1>3 DEF Uses
    <2> QED
        BY <1>1, <2>1, <2>3, <2>5, <2>6, <2>7, <2>8, <2>9, PlainStep
<1>4. CASE ~(w.pc = "write" /\ HasTodo(w) /\ w.fd = "plain")
    <2>1. UNCHANGED <<plain, cold>>
        BY <1>4 DEF Crash, StorePart
    <2>2. TypeOK'
        BY <1>1, <1>2, <2>1, CloseType DEF TypeOK, history
    <2> QED
        BY <1>1, <2>1, <2>2, ClosedKeeps DEF history
<1> QED
    BY <1>3, <1>4

LEMMA AcknowledgeKeeps ==
    ASSUME IInv, NEW p \in Process, Acknowledge(p)
    PROVE  IInv'
<1> DEFINE w == writer[p]
<1>1. /\ w.pc = "write" /\ ~HasTodo(w) /\ acked' \in {acked, acked \cup w.added}
      /\ UNCHANGED <<plain, zst, cold, worker, failures, crashes, recorded, overlapped>>
    BY DEF Acknowledge
<1>2. /\ w \in WriterType /\ WriterOK(w) /\ RecordingOK(w) /\ w.op # "resume"
      /\ w.fd \in {"plain", "gone"} /\ TypeOK /\ Found # None
    BY <1>1, WritingIs
<1>3. acked' \in SUBSET Item
    BY <1>1, <1>2, WriterFields DEF TypeOK
<1>4. acked' # {} => Found # None
    BY <1>2
<1>5. ~overlapped => acked' \subseteq ReadItems
    <2>1. w.pending = <<>>
        BY <1>1 DEF HasTodo
    <2>2. {w.pending[k] : k \in DOMAIN w.pending} = {}
        BY <2>1
    <2> QED
        BY <1>1, <1>2, <2>2 DEF RecordingOK, IInv, PromiseOK
<1>6. CASE Close(p)
    <2>1. /\ writer' \in [Process -> WriterType] /\ writer'[p] = Off
          /\ \A q \in Process : q # p => writer'[q] = writer[q]
          /\ lock' = None /\ LockOK'
        BY <1>1, <1>6, CloseIs
    <2>2. TypeOK'
        BY <1>1, <1>2, <1>3, <2>1 DEF TypeOK
    <2>3. ~Uses(p)'
        BY <2>1, OffOK DEF Uses
    <2> QED
        BY <1>1, <1>4, <1>5, <2>1, <2>2, <2>3, OffOK, AckStep
<1>7. ASSUME NEW v \in WriterType, WriterOK(v), v.fd = w.fd, v.pc \notin {"dropzst", "open"},
             writer' = [writer EXCEPT ![p] = v], lock' = lock
      PROVE  IInv'
    <2>1. /\ writer' \in [Process -> WriterType] /\ writer'[p] = v
          /\ \A q \in Process : q # p => writer'[q] = writer[q]
        BY <1>2, <1>7, WriterSet
    <2>2. TypeOK' /\ LockOK'
        BY <1>1, <1>2, <1>3, <1>7, <2>1, KeepLock DEF TypeOK
    <2>3. Uses(p)' => Uses(p)
        BY <1>7, <2>1 DEF Uses
    <2> QED
        BY <1>1, <1>4, <1>5, <1>7, <2>1, <2>2, <2>3, AckStep
<1>8. CASE w.op = "add"
    <2>1. writer' = [writer EXCEPT ![p] = Begin(w, "flush")] /\ lock' = lock
        BY <1>8 DEF Acknowledge
    <2>2. /\ Begin(w, "flush") \in WriterType /\ WriterOK(Begin(w, "flush"))
          /\ Begin(w, "flush").fd = w.fd /\ Begin(w, "flush").pc \in {"materialize", "write"}
        BY <1>1, <1>2, BeginIs, BeginOK DEF Ops
    <2> QED
        BY <1>7, <2>1, <2>2
<1>9. CASE w.op \notin {"add", "shutdown"}
    <2> DEFINE v == [w EXCEPT !.pc = "idle", !.op = "none", !.attempt = 1]
    <2>1. writer' = [writer EXCEPT ![p] = v] /\ lock' = lock
        BY <1>9 DEF Acknowledge
    <2>2. /\ v \in WriterType /\ v.pc = "idle" /\ v.op = "none" /\ v.fd = w.fd
          /\ v.meta = w.meta /\ v.next = w.next /\ v.pending = w.pending /\ v.added = w.added
        BY <1>2 DEF WriterType, Pcs, Ops
    <2> HIDE DEF v
    <2>3. RecordingOK(v)
        BY <1>2, <2>2, SameRecording
    <2>4. WriterOK(v)
        BY <1>1, <1>2, <2>2, <2>3 DEF WriterOK
    <2> QED
        BY <1>7, <2>1, <2>2, <2>4
<1> QED
    BY <1>6, <1>8, <1>9 DEF Acknowledge

-----------------------------------------------------------------------------
(* Recording. *)

LEMMA BatchIs ==
    ASSUME NEW items \in Batches
    PROVE  items \in Seq(Item) /\ \A k, m \in DOMAIN items : items[k] = items[m] => k = m
<1>1. PICK n \in 1..MaxBatch : items \in [1..n -> Item]
    BY DEF Batches
<1>2. n \in Nat
    BY RolloutAssumption
<1> QED
    BY <1>1, <1>2 DEF Batches

(* The new items come after all that was recorded, which stays in its order. *)
Grown(items, new) ==
    /\ \A i, j : i \notin new /\ j \notin new /\ Before(i, j) => Before(i, j)'
    /\ \A i : i \notin new => \A k \in DOMAIN items : Before(i, items[k])'
    /\ \A k, m \in DOMAIN items : k < m => Before(items[k], items[m])'
    /\ \A n \in DOMAIN recorded : /\ recorded[n] \notin new
                                  /\ \E m \in DOMAIN recorded' : recorded'[m] = recorded[n]
    /\ \A k \in DOMAIN items : \E n \in DOMAIN recorded' : recorded'[n] = items[k]

LEMMA RecordedGrows ==
    ASSUME recorded \in Seq(Item), RecordedOnce, NEW items \in Seq(Item),
           \A k, m \in DOMAIN items : items[k] = items[m] => k = m,
           \A n \in DOMAIN items : items[n] \notin {recorded[k] : k \in DOMAIN recorded},
           recorded' = recorded \o items,
           NEW new, new = {items[n] : n \in DOMAIN items}
    PROVE  recorded' \in Seq(Item) /\ RecordedOnce' /\ Grown(items, new)
<1> DEFINE L == Len(recorded)
           r == recorded'
<1>1. /\ L \in Nat /\ DOMAIN recorded = 1..L
      /\ Len(items) \in Nat /\ DOMAIN items = 1..Len(items)
    OBVIOUS
<1>2. /\ r \in Seq(Item) /\ DOMAIN r = 1..(L + Len(items))
      /\ \A i \in DOMAIN r : r[i] = IF i <= L THEN recorded[i] ELSE items[i - L]
    OBVIOUS
<1>3. \A i \in DOMAIN r : i > L => i - L \in DOMAIN items /\ r[i] = items[i - L] /\ r[i] \in new
    BY <1>1, <1>2
<1>4. \A i \in DOMAIN r : i <= L => i \in DOMAIN recorded /\ r[i] = recorded[i] /\ r[i] \notin new
    BY <1>1, <1>2
<1>5. \A i \in DOMAIN recorded : i \in DOMAIN r /\ i <= L /\ r[i] = recorded[i]
    BY <1>1, <1>2
<1>6. \A k \in DOMAIN items : L + k \in DOMAIN r /\ L + k > L /\ r[L + k] = items[k]
    BY <1>1, <1>2
<1>7. \A i \in DOMAIN r : i \in Nat
    BY <1>1, <1>2
<1> HIDE DEF L, r
<1>8. \A k, m \in DOMAIN r : r[k] = r[m] => k = m
    <2> SUFFICES ASSUME NEW k \in DOMAIN r, NEW m \in DOMAIN r, r[k] = r[m] PROVE k = m
        OBVIOUS
    <2>1. CASE k <= L
        BY <2>1, <1>1, <1>3, <1>4, <1>7 DEF RecordedOnce
    <2>2. CASE k > L
        <3>1. m > L
            BY <2>2, <1>1, <1>3, <1>4, <1>7
        <3>2. k - L = m - L
            BY <2>2, <3>1, <1>3
        <3> QED
            BY <3>2, <1>1, <1>7
    <2> QED
        BY <2>1, <2>2, <1>1, <1>7
<1>9. RecordedOnce'
    BY <1>8 DEF RecordedOnce, r
<1>10. ASSUME NEW i, NEW j, i \notin new, j \notin new, Before(i, j) PROVE Before(i, j)'
    <2> SUFFICES ASSUME NEW a \in DOMAIN r, NEW b \in DOMAIN r, r[a] = i, r[b] = j PROVE a <= b
        BY DEF Before, r
    <2>1. ~(a > L) /\ ~(b > L)
        BY <1>3, <1>10
    <2>2. a \in Nat /\ b \in Nat
        BY <1>7
    <2>3. a <= L /\ b <= L
        BY <2>1, <2>2, <1>1
    <2> QED
        BY <2>3, <1>4, <1>10 DEF Before
<1>11. ASSUME NEW i, i \notin new, NEW k \in DOMAIN items PROVE Before(i, items[k])'
    <2> SUFFICES ASSUME NEW a \in DOMAIN r, NEW b \in DOMAIN r, r[a] = i, r[b] = items[k]
                 PROVE  a <= b
        BY DEF Before, r
    <2>1. ~(a > L)
        BY <1>3, <1>11
    <2>2. b = L + k
        BY <1>6, <1>8
    <2>3. a \in Nat /\ b \in Nat /\ L + k > L
        BY <1>6, <1>7
    <2> QED
        BY <2>1, <2>2, <2>3, <1>1
<1>12. ASSUME NEW k \in DOMAIN items, NEW m \in DOMAIN items, k < m
       PROVE  Before(items[k], items[m])'
    <2> SUFFICES ASSUME NEW a \in DOMAIN r, NEW b \in DOMAIN r, r[a] = items[k], r[b] = items[m]
                 PROVE  a <= b
        BY DEF Before, r
    <2>1. a = L + k /\ b = L + m
        BY <1>6, <1>8
    <2> QED
        BY <2>1, <1>1, <1>12
<1> QED
    BY <1>2, <1>4, <1>5, <1>6, <1>9, <1>10, <1>11, <1>12 DEF r, Grown

Extends(a, c, b) == /\ \A k \in DOMAIN a : k \in DOMAIN b /\ b[k] = a[k]
                    /\ \A k \in DOMAIN c : \E m \in DOMAIN b : b[m] = c[k]

LEMMA Concatenated ==
    ASSUME NEW S, NEW a \in Seq(S), NEW c \in Seq(S), NEW b, b = a \o c
    PROVE  /\ b \in Seq(S) /\ Len(a) \in Nat
           /\ Extends(a, c, b)
           /\ \A k \in DOMAIN b : \/ k \in Nat /\ k <= Len(a) /\ k \in DOMAIN a /\ b[k] = a[k]
                                  \/ /\ k \in Nat /\ k > Len(a)
                                     /\ k - Len(a) \in DOMAIN c /\ b[k] = c[k - Len(a)]
           /\ a # <<>> => b # <<>> /\ Head(b) = Head(a)
<1>1. /\ Len(a) \in Nat /\ DOMAIN a = 1..Len(a) /\ Len(c) \in Nat /\ DOMAIN c = 1..Len(c)
      /\ b \in Seq(S) /\ DOMAIN b = 1..(Len(a) + Len(c))
      /\ \A k \in DOMAIN b : b[k] = IF k <= Len(a) THEN a[k] ELSE c[k - Len(a)]
    OBVIOUS
<1>2. ASSUME NEW k \in DOMAIN c PROVE \E m \in DOMAIN b : b[m] = c[k]
    <2>1. Len(a) + k \in DOMAIN b /\ ~(Len(a) + k <= Len(a)) /\ (Len(a) + k) - Len(a) = k
        BY <1>1
    <2>2. b[Len(a) + k] = c[k]
        BY <1>1, <2>1
    <2> QED
        BY <2>1, <2>2
<1>3. ASSUME NEW k \in DOMAIN a PROVE k \in DOMAIN b /\ b[k] = a[k]
    BY <1>1
<1>4. ASSUME NEW k \in DOMAIN b
      PROVE  \/ k \in Nat /\ k <= Len(a) /\ k \in DOMAIN a /\ b[k] = a[k]
             \/ k \in Nat /\ k > Len(a) /\ k - Len(a) \in DOMAIN c /\ b[k] = c[k - Len(a)]
    BY <1>1
<1>5. a # <<>> => b # <<>> /\ Head(b) = Head(a)
    BY <1>1
<1> QED
    BY <1>1, <1>2, <1>3, <1>4, <1>5 DEF Extends

LEMMA ExtendedItems ==
    ASSUME NEW a, NEW c, NEW b, Extends(a, c, b)
    PROVE  {a[k] : k \in DOMAIN a} \cup {c[k] : k \in DOMAIN c} \subseteq {b[k] : k \in DOMAIN b}
BY DEF Extends

(* What is pending stays in order when new items are added to it. *)
LEMMA PendingGrows ==
    ASSUME NEW items \in Seq(Item),
           \A k, m \in DOMAIN items : items[k] = items[m] => k = m,
           NEW new, new = {items[n] : n \in DOMAIN items}, Grown(items, new),
           NEW a \in Seq(Item), PendingOK(a), NEW b, b = a \o items
    PROVE  PendingOK(b)' /\ \A k \in DOMAIN a : a[k] \notin new
<1>1. /\ b \in Seq(Item) /\ Len(a) \in Nat
      /\ \A k \in DOMAIN b : \/ k \in Nat /\ k <= Len(a) /\ k \in DOMAIN a /\ b[k] = a[k]
                             \/ /\ k \in Nat /\ k > Len(a)
                                /\ k - Len(a) \in DOMAIN items /\ b[k] = items[k - Len(a)]
    BY Concatenated
<1>2. /\ \A i, j : i \notin new /\ j \notin new /\ Before(i, j) => Before(i, j)'
      /\ \A i : i \notin new => \A k \in DOMAIN items : Before(i, items[k])'
      /\ \A k, m \in DOMAIN items : k < m => Before(items[k], items[m])'
      /\ \A n \in DOMAIN recorded : /\ recorded[n] \notin new
                                    /\ \E m \in DOMAIN recorded' : recorded'[m] = recorded[n]
      /\ \A k \in DOMAIN items : \E n \in DOMAIN recorded' : recorded'[n] = items[k]
    BY DEF Grown
<1>3. \A k \in DOMAIN a : a[k] \notin new
    BY <1>2 DEF PendingOK
<1>4. \A k \in DOMAIN items : items[k] \in new
    OBVIOUS
<1>5. ASSUME NEW k \in DOMAIN b PROVE \E n \in DOMAIN recorded' : recorded'[n] = b[k]
    <2>1. CASE k \in DOMAIN a /\ b[k] = a[k]
        <3>1. PICK n \in DOMAIN recorded : recorded[n] = a[k]
            BY <2>1 DEF PendingOK
        <3> QED
            BY <1>2, <2>1, <3>1
    <2>2. CASE k - Len(a) \in DOMAIN items /\ b[k] = items[k - Len(a)]
        BY <1>2, <2>2
    <2> QED
        BY <1>1, <2>1, <2>2
<1>6. ASSUME NEW k \in DOMAIN b, NEW m \in DOMAIN b, k < m
      PROVE  b[k] # b[m] /\ Before(b[k], b[m])'
    <2>1. CASE m <= Len(a)
        <3>1. k \in DOMAIN a /\ m \in DOMAIN a /\ b[k] = a[k] /\ b[m] = a[m]
            BY <1>1, <1>6, <2>1
        <3> QED
            BY <1>2, <1>3, <1>6, <3>1 DEF PendingOK
    <2>2. CASE k <= Len(a) /\ m > Len(a)
        <3>1. k \in DOMAIN a /\ b[k] = a[k] /\ m - Len(a) \in DOMAIN items
              /\ b[m] = items[m - Len(a)]
            BY <1>1, <2>2
        <3> QED
            BY <1>2, <1>3, <1>4, <3>1
    <2>3. CASE k > Len(a) /\ m > Len(a)
        <3>1. /\ k - Len(a) \in DOMAIN items /\ m - Len(a) \in DOMAIN items
              /\ b[k] = items[k - Len(a)] /\ b[m] = items[m - Len(a)]
              /\ k - Len(a) < m - Len(a) /\ k - Len(a) # m - Len(a)
            BY <1>1, <1>6, <2>3
        <3> QED
            BY <1>2, <3>1
    <2> QED
        BY <1>1, <1>6, <2>1, <2>2, <2>3
<1> QED
    BY <1>3, <1>5, <1>6 DEF PendingOK

LEMMA RecordFileOK ==
    ASSUME NEW items \in Seq(Item),
           \A k, m \in DOMAIN items : items[k] = items[m] => k = m,
           NEW new, new = {items[n] : n \in DOMAIN items}, Grown(items, new), NEW f, FileOK(f)
    PROVE  FileOK(f)' /\ \A n \in DOMAIN f : Parses(f[n]) => f[n].item \notin new
<1>1. /\ \A i, j : i \notin new /\ j \notin new /\ Before(i, j) => Before(i, j)'
      /\ \A n \in DOMAIN recorded : /\ recorded[n] \notin new
                                    /\ \E m \in DOMAIN recorded' : recorded'[m] = recorded[n]
    BY DEF Grown
<1>2. Meta \notin new
    BY RolloutAssumption
<1>3. \A n \in DOMAIN f : Parses(f[n]) => f[n].item \notin new
    BY <1>1, <1>2 DEF FileOK
<1>4. \A n \in DOMAIN f : Parses(f[n]) /\ f[n].item # Meta =>
            \E k \in DOMAIN recorded' : recorded'[k] = f[n].item
    <2> SUFFICES ASSUME NEW n \in DOMAIN f, Parses(f[n]), f[n].item # Meta
                 PROVE  \E k \in DOMAIN recorded' : recorded'[k] = f[n].item
        OBVIOUS
    <2>1. PICK k \in DOMAIN recorded : recorded[k] = f[n].item
        BY DEF FileOK
    <2> QED
        BY <1>1, <2>1
<1>5. \A m, n \in DOMAIN f : m < n /\ Parses(f[m]) /\ Parses(f[n]) =>
            Before(f[m].item, f[n].item)'
    BY <1>1, <1>3 DEF FileOK
<1> QED
    BY <1>3, <1>4, <1>5 DEF FileOK

LEMMA BoundGrows ==
    ASSUME NEW items \in Seq(Item),
           \A k, m \in DOMAIN items : items[k] = items[m] => k = m,
           NEW new, new = {items[n] : n \in DOMAIN items}, Grown(items, new), NEW f, FileOK(f),
           NEW u \in WriterType, NEW v, v.meta = u.meta, v.next = u.next,
           v.pending = u.pending \o items, PendingOK(u.pending), Bounded(u, f)
    PROVE  Bounded(v, f)'
<1> DEFINE a == u.pending
           b == v.pending
<1>0. a \in Seq(Item)
    BY WriterFields
<1>1. \A k \in DOMAIN b : \/ k \in DOMAIN a /\ b[k] = a[k]
                          \/ \E m \in DOMAIN items : b[k] = items[m]
    BY <1>0, Concatenated
<1>2. a # <<>> => b # <<>> /\ Head(b) = Head(a)
    BY <1>0, Concatenated
<1>3. \A k \in DOMAIN items : items[k] \in new
    OBVIOUS
<1>5. /\ \A i, j : i \notin new /\ j \notin new /\ Before(i, j) => Before(i, j)'
      /\ \A i : i \notin new => \A k \in DOMAIN items : Before(i, items[k])'
    BY DEF Grown
<1>6. \A k \in DOMAIN a : a[k] \notin new
    BY <1>0, PendingGrows
<1>7. \A n \in DOMAIN f : Parses(f[n]) => f[n].item \notin new
    BY RecordFileOK
<1> SUFFICES ASSUME NEW n \in DOMAIN f, Parses(f[n])
             PROVE  \/ /\ f[n].ord < v.next
                       /\ \A k \in DOMAIN b : f[n].item # b[k] /\ Before(f[n].item, b[k])'
                    \/ HasTodo(v) /\ f[n].ord = v.next /\ f[n].item = Todo(v)
    BY DEF Bounded, HasTodo, Todo
<1>8. CASE /\ f[n].ord < u.next
           /\ \A k \in DOMAIN a : f[n].item # a[k] /\ Before(f[n].item, a[k])
    <2>1. ASSUME NEW k \in DOMAIN b PROVE f[n].item # b[k] /\ Before(f[n].item, b[k])'
        <3>1. CASE k \in DOMAIN a /\ b[k] = a[k]
            BY <3>1, <1>5, <1>6, <1>7, <1>8
        <3>2. CASE \E m \in DOMAIN items : b[k] = items[m]
            BY <3>2, <1>3, <1>5, <1>7
        <3> QED
            BY <3>1, <3>2, <1>1
    <2> QED
        BY <1>8, <2>1
<1>9. CASE HasTodo(u) /\ f[n].ord = u.next /\ f[n].item = Todo(u)
    <2>1. HasTodo(v) /\ Todo(v) = Todo(u)
        BY <1>2, <1>9 DEF HasTodo, Todo
    <2> QED
        BY <1>9, <2>1
<1> QED
    BY <1>8, <1>9 DEF Bounded

LEMMA AppendItemsKeeps ==
    ASSUME IInv, NEW p \in Process, NEW items \in Batches, AppendItems(p, items)
    PROVE  IInv'
<1>1. PICK u : u = writer[p]
    OBVIOUS
<1>2. /\ u \in WriterType /\ WriterOK(u) /\ u.pc = "idle" /\ recorded \in Seq(Item) /\ TypeOK
      /\ RecordedOnce
    BY <1>1 DEF AppendItems, IInv, TypeOK
<1>3. items \in Seq(Item) /\ \A k, m \in DOMAIN items : items[k] = items[m] => k = m
    BY BatchIs
<1>4. /\ \A n \in DOMAIN items : items[n] \notin {recorded[k] : k \in DOMAIN recorded}
      /\ recorded' = recorded \o items
      /\ UNCHANGED <<plain, zst, cold, lock, worker, failures, crashes, acked, overlapped>>
    BY DEF AppendItems
<1>5. PICK new : new = {items[n] : n \in DOMAIN items}
    OBVIOUS
<1> DEFINE w == [u EXCEPT !.pending = @ \o items, !.added = @ \cup new]
<1>6. /\ w \in WriterType /\ w.pending = u.pending \o items /\ w.added = u.added \cup new
      /\ w.meta = u.meta /\ w.next = u.next /\ w.fd = u.fd
    <2>1. u.pending \o items \in Seq(Item) /\ u.added \cup new \in SUBSET Item
        BY <1>2, <1>3, <1>5, WriterFields
    <2> QED
        BY <1>2, <2>1 DEF WriterType
<1>7. PICK op \in {"flush", "add"} : writer' = [writer EXCEPT ![p] = Begin(w, op)]
    BY <1>1, <1>5 DEF AppendItems
<1> HIDE DEF w
<1>8. PICK v : v = Begin(w, op)
    OBVIOUS
<1>9. /\ v \in WriterType /\ v.op \in {"flush", "add"} /\ v.pending = u.pending \o items
      /\ v.added = u.added \cup new /\ v.meta = u.meta /\ v.next = u.next /\ v.fd = u.fd
      /\ v.pc = IF u.fd = "none" THEN "materialize" ELSE "write"
    <2>1. op \in {"flush", "add"} /\ op \in Ops
        BY DEF Ops
    <2> QED
        BY <1>6, <1>8, <2>1, BeginIs
<1>10. /\ writer' \in [Process -> WriterType] /\ writer'[p] = v
       /\ \A q \in Process : q # p => writer'[q] = writer[q]
    BY <1>2, <1>7, <1>8, <1>9, WriterSet
<1>11. recorded' \in Seq(Item) /\ RecordedOnce' /\ Grown(items, new)
    BY <1>2, <1>3, <1>4, <1>5, RecordedGrows
<1>12. FilesOK'
    <2>1. \A f : FileOK(f) => FileOK(f)'
        BY <1>3, <1>5, <1>11, RecordFileOK
    <2>2. (plain # None => FileOK(plain)) /\ (zst # None => FileOK(zst))
          /\ (worker.tmp # None => FileOK(worker.tmp))
        BY DEF IInv, FilesOK
    <2> QED
        BY <1>4, <2>1, <2>2 DEF FilesOK
<1>13. TypeOK' /\ LockOK'
    BY <1>1, <1>2, <1>4, <1>10, <1>11, KeepLock DEF TypeOK
<1>14. Lines' = Lines /\ Found' = Found /\ ReadItems' = ReadItems
    BY <1>4 DEF Lines, Found, ReadItems
<1>15. PICK f : f = Lines
    OBVIOUS
<1>16. FileOK(f)
    BY <1>2, <1>15, LinesAre, EmptyFile DEF IInv, FilesOK
<1>17. RecordingOK(u) /\ u.pending \in Seq(Item)
    BY <1>2, WriterFields DEF WriterOK, ResumingOK
<1>18. PendingOK(u.pending) /\ Bounded(u, f)
    BY <1>15, <1>17 DEF RecordingOK
<1>19. PendingOK(v.pending)'
    BY <1>3, <1>5, <1>9, <1>11, <1>17, <1>18, PendingGrows
<1>20. Bounded(v, f)'
    BY <1>2, <1>3, <1>5, <1>9, <1>11, <1>16, <1>18, BoundGrows
<1>21. RecordingOK(writer[p])'
    <2>1. v.meta <=> v.next = 0
        BY <1>9, <1>17 DEF RecordingOK
    <2>2. ~overlapped =>
             v.added \subseteq ReadItems \cup {v.pending[k] : k \in DOMAIN v.pending}
        <3>1. ~overlapped =>
                 u.added \subseteq ReadItems \cup {u.pending[k] : k \in DOMAIN u.pending}
            BY <1>17 DEF RecordingOK
        <3>2. {u.pending[k] : k \in DOMAIN u.pending} \cup {items[k] : k \in DOMAIN items} \subseteq
                 {v.pending[k] : k \in DOMAIN v.pending}
            <4>1. Extends(u.pending, items, v.pending)
                BY <1>3, <1>9, <1>17, Concatenated
            <4> QED
                BY <4>1, ExtendedItems
        <3> QED
            BY <3>1, <3>2, <1>5, <1>9
    <2>3. ~overlapped => v.fd # "gone" /\ (v.next > 0 => At(f, v.next - 1) # {})
        BY <1>9, <1>15, <1>17 DEF RecordingOK
    <2> QED
        BY <2>1, <2>2, <2>3, <1>4, <1>10, <1>14, <1>15, <1>19, <1>20 DEF RecordingOK
<1>22. WriterOK(writer[p])'
    BY <1>2, <1>4, <1>9, <1>10, <1>14, <1>21 DEF WriterOK
<1>23. ASSUME NEW q \in Process, q # p PROVE WriterOK(writer[q])'
    BY <1>1, <1>2, <1>10, <1>23, OthersOff DEF WriterOK
<1>24. WorkerOK'
    <2>1. \A q \in Process : Uses(q)' => Uses(q)
        BY <1>1, <1>9, <1>10 DEF Uses
    <2> QED
        BY <2>1, <1>4 DEF IInv, WorkerOK
<1>25. PromiseOK'
    BY <1>4, <1>14 DEF IInv, PromiseOK
<1> QED
    BY <1>11, <1>12, <1>13, <1>22, <1>23, <1>24, <1>25 DEF IInv

-----------------------------------------------------------------------------
(* The compression worker. *)

LEMMA WorkerStep ==
    ASSUME IInv, TypeOK', plain # None,
           UNCHANGED <<plain, lock, writer, recorded, acked, overlapped>>,
           zst' # None => FileOK(zst'), worker'.tmp # None => FileOK(worker'.tmp),
           ~overlapped /\ zst' # None => Covered(zst', plain),
           \A p \in Process : writer[p].pc # "dropzst", WorkerOK'
    PROVE  IInv'
<1>1. Found' = Found /\ Lines' = Lines /\ ReadItems' = ReadItems
    BY DEF Found, Lines, ReadItems
<1>2. FilesOK'
    BY DEF IInv, FilesOK, FileOK, Before
<1>3. LockOK'
    BY DEF IInv, LockOK
<1>4. ASSUME NEW p \in Process PROVE WriterOK(writer[p])'
    <2>1. WriterOK(writer[p])
        BY DEF IInv
    <2>2. RecordingOK(writer[p]) => RecordingOK(writer[p])'
        BY <1>1 DEF RecordingOK, Bounded, PendingOK, Before
    <2> QED
        BY <1>1, <2>1, <2>2 DEF WriterOK, ResumingOK
<1>5. PromiseOK' /\ RecordedOnce'
    BY <1>1 DEF IInv, PromiseOK, RecordedOnce
<1> QED
    BY <1>2, <1>3, <1>4, <1>5 DEF IInv

LEMMA IdleIs == Idle \in WorkerType /\ Idle.pc = "idle" /\ Idle.tmp = None
BY DEF Idle, WorkerType

LEMMA NoneDropping ==
    ASSUME IInv, NEW p \in Process, worker.pc # "idle" \/ zst = None
    PROVE  writer[p].pc # "dropzst"
BY DEF IInv, WriterOK

LEMMA AgeKeeps ==
    ASSUME IInv, Age
    PROVE  IInv'
<1>1. UNCHANGED <<plain, zst, lock, writer, worker, recorded, acked, overlapped>>
    BY DEF Age, history
<1>2. Found' = Found /\ Lines' = Lines /\ ReadItems' = ReadItems
    BY <1>1 DEF Found, Lines, ReadItems
<1>3. TypeOK'
    BY DEF Age, history, IInv, TypeOK
<1>4. FilesOK' /\ LockOK' /\ PromiseOK' /\ RecordedOnce'
    BY <1>1, <1>2 DEF IInv, FilesOK, FileOK, Before, LockOK, PromiseOK, RecordedOnce
<1>5. ASSUME NEW p \in Process PROVE WriterOK(writer[p])'
    <2>1. WriterOK(writer[p])
        BY DEF IInv
    <2>2. RecordingOK(writer[p]) => RecordingOK(writer[p])'
        BY <1>1, <1>2 DEF RecordingOK, Bounded, PendingOK, Before
    <2> QED
        BY <1>1, <1>2, <2>1, <2>2 DEF WriterOK, ResumingOK
<1>6. WorkerOK'
    BY <1>1 DEF IInv, WorkerOK, Uses
<1> QED
    BY <1>3, <1>4, <1>5, <1>6 DEF IInv

(* The worker's state as it copies the file. *)
LEMMA ColdFileStateKeeps ==
    ASSUME IInv, ColdFileState
    PROVE  IInv'
<1> DEFINE k == [Idle EXCEPT !.pc = "encode", !.before = plain]
<1>1. /\ worker' = k /\ plain # None /\ zst = None /\ TypeOK
      /\ UNCHANGED <<plain, zst, cold, lock, writer, failures, crashes, recorded, acked, overlapped>>
    BY DEF ColdFileState, history, IInv
<1>2. k \in WorkerType /\ k.pc = "encode" /\ k.before = plain /\ k.tmp = None
    BY <1>1 DEF Idle, WorkerType, TypeOK
<1> HIDE DEF k
<1>3. TypeOK'
    BY <1>1, <1>2 DEF TypeOK
<1>4. WorkerOK'
    BY <1>1, <1>2, CoveredSelf DEF WorkerOK
<1> QED
    BY <1>1, <1>2, <1>3, <1>4, NoneDropping, WorkerStep

LEMMA EncodeKeeps ==
    ASSUME IInv, EncodeZstd
    PROVE  IInv'
<1> DEFINE k == [worker EXCEPT !.pc = "check", !.tmp = plain]
<1>1. /\ worker' = k /\ plain # None /\ TypeOK /\ worker.pc = "encode"
      /\ UNCHANGED <<plain, zst, cold, lock, writer, failures, crashes, recorded, acked, overlapped>>
    BY DEF EncodeZstd, history, IInv, WorkerOK
<1>2. k \in WorkerType /\ k.pc = "check" /\ k.before = worker.before /\ k.tmp = plain
    BY <1>1 DEF WorkerType, TypeOK
<1> HIDE DEF k
<1>3. TypeOK'
    BY <1>1, <1>2 DEF TypeOK
<1>4. WorkerOK'
    BY <1>1, <1>2, CoveredSelf DEF WorkerOK, IInv
<1>5. FileOK(plain) /\ (zst # None => FileOK(zst))
    BY <1>1 DEF IInv, FilesOK
<1>6. ~overlapped /\ zst # None => Covered(zst, plain)
    BY <1>1 DEF IInv, PromiseOK
<1> QED
    BY <1>1, <1>2, <1>3, <1>4, <1>5, <1>6, NoneDropping, WorkerStep

(* The worker gives up or goes on with the same copy. *)
LEMMA CarriesOn ==
    ASSUME IInv, worker.pc # "idle", TypeOK',
           UNCHANGED <<plain, lock, writer, recorded, acked, overlapped>>,
           zst' \in {zst, None, worker.tmp}, zst' = worker.tmp => zst = zst' \/ worker.pc = "persist",
           worker'.tmp \in {None, worker.tmp}, WorkerOK'
    PROVE  IInv'
<1>1. plain # None
    BY DEF IInv, WorkerOK
<1>2. /\ zst # None => FileOK(zst)
      /\ worker.tmp # None => FileOK(worker.tmp)
    BY DEF IInv, FilesOK
<1>3. ~overlapped /\ zst # None => Covered(zst, plain)
    BY <1>1 DEF IInv, PromiseOK
<1>4. worker.pc = "persist" => Covered(worker.tmp, plain)
    BY DEF IInv, WorkerOK
<1> QED
    BY <1>1, <1>2, <1>3, <1>4, NoneDropping, WorkerStep

LEMMA CheckKeeps ==
    ASSUME IInv, CheckUnchanged
    PROVE  IInv'
<1>1. /\ worker.pc = "check" /\ TypeOK
      /\ UNCHANGED <<plain, zst, cold, lock, writer, failures, crashes, recorded, acked, overlapped>>
    BY DEF CheckUnchanged, history, IInv
<1>2. CASE worker' = Idle
    <2>1. TypeOK' /\ WorkerOK'
        BY <1>1, <1>2, IdleIs DEF TypeOK, WorkerOK
    <2> QED
        BY <1>1, <1>2, <2>1, IdleIs, CarriesOn
<1>3. CASE worker' = [worker EXCEPT !.pc = "persist"]
    <2>1. /\ worker' \in WorkerType /\ worker'.pc = "persist" /\ worker'.before = worker.before
          /\ worker'.tmp = worker.tmp
        BY <1>1, <1>3 DEF TypeOK, WorkerType
    <2>2. TypeOK' /\ WorkerOK'
        BY <1>1, <2>1 DEF TypeOK, WorkerOK, IInv
    <2> QED
        BY <1>1, <2>1, <2>2, CarriesOn
<1> QED
    BY <1>2, <1>3 DEF CheckUnchanged

LEMMA PersistKeeps ==
    ASSUME IInv, PersistZst
    PROVE  IInv'
<1>1. /\ worker.pc = "persist" /\ TypeOK
      /\ UNCHANGED <<plain, cold, lock, writer, failures, crashes, recorded, acked, overlapped>>
    BY DEF PersistZst, history, IInv
<1>2. CASE zst' = zst /\ worker' = Idle
    <2>1. TypeOK' /\ WorkerOK'
        BY <1>1, <1>2, IdleIs DEF TypeOK, WorkerOK
    <2> QED
        BY <1>1, <1>2, <2>1, IdleIs, CarriesOn
<1>3. CASE zst' = worker.tmp /\ worker' = [worker EXCEPT !.pc = "recheck"]
    <2>1. /\ worker' \in WorkerType /\ worker'.pc = "recheck" /\ worker'.before = worker.before
          /\ worker'.tmp = worker.tmp /\ worker.tmp \in Seq(LineType) \cup {None}
        BY <1>1, <1>3 DEF TypeOK, WorkerType
    <2>2. TypeOK' /\ WorkerOK'
        BY <1>1, <1>3, <2>1 DEF TypeOK, WorkerOK, IInv
    <2> QED
        BY <1>1, <1>3, <2>1, <2>2, CarriesOn
<1> QED
    BY <1>2, <1>3 DEF PersistZst

LEMMA RecheckKeeps ==
    ASSUME IInv, RecheckUnchanged
    PROVE  IInv'
<1>1. /\ worker.pc = "recheck" /\ TypeOK
      /\ UNCHANGED <<plain, cold, lock, writer, failures, crashes, recorded, acked, overlapped>>
    BY DEF RecheckUnchanged, history, IInv
<1>2. CASE ~SameFileState
    <2>1. zst' = None /\ worker' = Idle
        BY <1>2 DEF RecheckUnchanged
    <2>2. TypeOK' /\ WorkerOK'
        BY <1>1, <2>1, IdleIs DEF TypeOK, WorkerOK
    <2>3. worker.tmp # None
        BY <1>1 DEF IInv, WorkerOK
    <2> QED
        BY <1>1, <2>1, <2>2, <2>3, IdleIs, CarriesOn
<1>3. CASE SameFileState
    <2> DEFINE used == \E p \in Process : Uses(p)
    <2>1. worker' = [worker EXCEPT !.pc = "unlink", !.raced = used] /\ zst' = zst
        BY <1>3 DEF RecheckUnchanged
    <2>2. used \in BOOLEAN
        OBVIOUS
    <2> HIDE DEF used
    <2>3. /\ worker' \in WorkerType /\ worker'.pc = "unlink" /\ worker'.before = worker.before
          /\ worker'.tmp = worker.tmp /\ worker'.raced = used
        BY <1>1, <2>1, <2>2 DEF TypeOK, WorkerType
    <2>4. zst = worker.tmp /\ plain = worker.before /\ Covered(plain, zst)
        BY <1>1, <1>3 DEF IInv, WorkerOK, SameFileState
    <2>5. TypeOK'
        BY <1>1, <2>1, <2>3 DEF TypeOK
    <2>6. ~used => \A p \in Process : ~Uses(p)'
        BY <1>1 DEF used, Uses
    <2>7. WorkerOK'
        BY <1>1, <2>1, <2>3, <2>4, <2>6 DEF WorkerOK, IInv
    <2> QED
        BY <1>1, <2>1, <2>3, <2>5, <2>7, CarriesOn
<1> QED
    BY <1>2, <1>3

LEMMA WorkerStopsKeeps ==
    ASSUME IInv, WorkerStops
    PROVE  IInv'
<1>1. /\ worker.pc # "idle" /\ worker' = Idle /\ TypeOK
      /\ UNCHANGED <<plain, zst, cold, lock, writer, failures, crashes, recorded, acked, overlapped>>
    BY DEF WorkerStops, history, IInv
<1>2. TypeOK' /\ WorkerOK'
    BY <1>1, IdleIs DEF TypeOK, WorkerOK
<1>3. zst' = worker.tmp => zst = zst'
    BY <1>1
<1> QED
    BY <1>1, <1>2, <1>3, IdleIs, CarriesOn

LEMMA UnlinkKeeps ==
    ASSUME IInv, UnlinkPlain
    PROVE  IInv'
<1>1. /\ worker.pc = "unlink" /\ TypeOK /\ plain' = None /\ cold' = FALSE /\ worker' = Idle
      /\ writer' = [p \in Process |-> IF writer[p].fd = "plain"
                                      THEN [writer[p] EXCEPT !.fd = "gone"] ELSE writer[p]]
      /\ overlapped' = (overlapped \/ worker.raced)
      /\ UNCHANGED <<zst, lock, failures, crashes, recorded, acked>>
    BY DEF UnlinkPlain, IInv
<1>2. /\ plain # None /\ worker.tmp # None /\ zst = worker.tmp /\ Covered(zst, plain)
      /\ ~worker.raced => Covered(plain, zst) /\ \A p \in Process : ~Uses(p)
    BY <1>1 DEF IInv, WorkerOK
<1>3. worker.raced \in BOOLEAN /\ overlapped \in BOOLEAN
    BY <1>1 DEF TypeOK, WorkerType
<1>4. ~overlapped' => ~overlapped /\ ~worker.raced
    BY <1>1, <1>3
<1>5. ASSUME NEW p \in Process
      PROVE  /\ writer[p] \in WriterType /\ writer'[p] \in WriterType
             /\ writer'[p].pc = writer[p].pc /\ writer'[p].op = writer[p].op
             /\ writer'[p].fd = (IF writer[p].fd = "plain" THEN "gone" ELSE writer[p].fd)
             /\ writer'[p].meta = writer[p].meta /\ writer'[p].next = writer[p].next
             /\ writer'[p].pending = writer[p].pending /\ writer'[p].added = writer[p].added
             /\ writer[p].fd # "plain" => writer'[p] = writer[p]
    <2>1. writer[p] \in WriterType
        BY <1>1 DEF TypeOK
    <2>2. CASE writer[p].fd = "plain"
        <3>1. writer'[p] = [writer[p] EXCEPT !.fd = "gone"]
            BY <1>1, <2>2
        <3> QED
            BY <2>1, <2>2, <3>1 DEF WriterType
    <2>3. CASE writer[p].fd # "plain"
        <3>1. writer'[p] = writer[p]
            BY <1>1, <2>3
        <3> QED
            BY <2>1, <2>3, <3>1
    <2> QED
        BY <2>2, <2>3
<1>6. writer' \in [Process -> WriterType]
    BY <1>1, <1>5
<1>7. TypeOK'
    BY <1>1, <1>3, <1>6, IdleIs DEF TypeOK
<1>8. Lines = plain /\ Lines' = zst /\ Found' = zst /\ zst # None
    BY <1>1, <1>2 DEF Lines, Found
<1>9. FilesOK'
    BY <1>1, IdleIs DEF IInv, FilesOK, FileOK, Before
<1>10. LockOK'
    BY <1>1, <1>5 DEF IInv, LockOK
<1>11. ASSUME NEW p \in Process PROVE WriterOK(writer[p])'
    <2>1. CASE writer[p].pc = "off"
        <3>1. writer[p] = Off
            BY <2>1 DEF IInv, WriterOK
        <3>2. writer'[p] = Off
            BY <1>5, <3>1, OffOK
        <3> QED
            BY <3>2, OffOK DEF WriterOK
    <2>2. CASE writer[p].pc # "off"
        <3>1. WriterOK(writer[p])
            BY DEF IInv
        <3>2. writer[p].pc # "dropzst"
            BY <1>1, NoneDropping
        <3>3. ~overlapped' => writer[p].fd # "plain" /\ writer[p].pc # "open"
            BY <1>2, <1>4 DEF Uses
        <3>4. writer[p].op = "resume" => ResumingOK(writer[p])'
            BY <1>5, <2>2, <3>1 DEF WriterOK, ResumingOK
        <3>5. writer[p].op # "resume" => RecordingOK(writer[p])'
            <4>1. SUFFICES ASSUME RecordingOK(writer[p]) PROVE RecordingOK(writer[p])'
                BY <2>2, <3>1 DEF WriterOK
            <4>2. PICK v : v = writer'[p]
                OBVIOUS
            <4>3. PICK g : g = zst
                OBVIOUS
            <4>4. Bounded(writer[p], g)
                BY <1>2, <1>8, <4>1, <4>3, CoveredBounded DEF RecordingOK
            <4>5. Bounded(v, g) /\ PendingOK(v.pending) /\ (v.meta <=> v.next = 0)
                BY <1>5, <4>1, <4>2, <4>4 DEF RecordingOK, Bounded, HasTodo, Todo
            <4>6. (Bounded(v, g) /\ PendingOK(v.pending))'
                BY <1>1, <4>5 DEF Bounded, PendingOK, Before
            <4>7. ~overlapped' =>
                     /\ v.fd # "gone"
                     /\ v.added \subseteq ItemsIn(g) \cup {v.pending[k] : k \in DOMAIN v.pending}
                     /\ v.next > 0 => At(g, v.next - 1) # {}
                <5> SUFFICES ASSUME ~overlapped' PROVE
                         /\ v.fd # "gone"
                         /\ v.added \subseteq ItemsIn(g) \cup {v.pending[k] : k \in DOMAIN v.pending}
                         /\ v.next > 0 => At(g, v.next - 1) # {}
                    OBVIOUS
                <5>1. ~overlapped /\ Covered(plain, g) /\ v = writer[p]
                    BY <1>2, <1>4, <1>5, <3>3, <4>2, <4>3
                <5>2. /\ v.fd # "gone"
                      /\ v.added \subseteq ItemsIn(plain) \cup {v.pending[k] : k \in DOMAIN v.pending}
                      /\ v.next > 0 => At(plain, v.next - 1) # {}
                    BY <1>8, <4>1, <5>1 DEF RecordingOK, ReadItems
                <5> QED
                    BY <5>1, <5>2, CoveredItems, CoveredAt
            <4> QED
                BY <1>1, <1>8, <4>2, <4>3, <4>5, <4>6, <4>7 DEF RecordingOK, ReadItems
        <3> QED
            BY <1>1, <1>2, <1>5, <1>8, <2>2, <3>1, <3>2, <3>3, <3>4, <3>5 DEF WriterOK
    <2> QED
        BY <2>1, <2>2
<1>12. WorkerOK'
    BY <1>1, IdleIs DEF WorkerOK
<1>13. PromiseOK'
    <2>1. ~overlapped' => Covered(plain, zst) /\ acked \subseteq ItemsIn(plain) /\ Contiguous(plain)
        BY <1>2, <1>4, <1>8 DEF IInv, PromiseOK, ReadItems
    <2>2. ~overlapped' => acked \subseteq ItemsIn(zst) /\ Contiguous(zst)
        BY <1>2, <2>1, CoveredItems, CoveredContiguous
    <2> QED
        BY <1>1, <1>8, <2>2 DEF PromiseOK, ReadItems
<1>14. RecordedOnce'
    BY <1>1 DEF IInv, RecordedOnce
<1> QED
    BY <1>7, <1>9, <1>10, <1>11, <1>12, <1>13, <1>14 DEF IInv

LEMMA StutterKeeps ==
    ASSUME IInv, UNCHANGED vars
    PROVE  IInv'
<1>1. UNCHANGED <<plain, zst, cold, lock, writer, worker, failures, crashes, recorded, acked,
                  overlapped>>
    BY DEF vars
<1>2. Found' = Found /\ Lines' = Lines /\ ReadItems' = ReadItems
    BY <1>1 DEF Found, Lines, ReadItems
<1>3. TypeOK'
    BY <1>1 DEF IInv, TypeOK
<1>4. FilesOK' /\ LockOK' /\ PromiseOK' /\ RecordedOnce'
    BY <1>1, <1>2 DEF IInv, FilesOK, FileOK, Before, LockOK, PromiseOK, RecordedOnce
<1>5. ASSUME NEW p \in Process PROVE WriterOK(writer[p])'
    <2>1. WriterOK(writer[p])
        BY DEF IInv
    <2>2. RecordingOK(writer[p]) => RecordingOK(writer[p])'
        BY <1>1, <1>2 DEF RecordingOK, Bounded, PendingOK, Before
    <2> QED
        BY <1>1, <1>2, <2>1, <2>2 DEF WriterOK, ResumingOK
<1>6. WorkerOK'
    BY <1>1 DEF IInv, WorkerOK, Uses
<1> QED
    BY <1>3, <1>4, <1>5, <1>6 DEF IInv

-----------------------------------------------------------------------------
(* The inductive invariant. *)

LEMMA InitOK == Init => IInv
<1> SUFFICES ASSUME Init PROVE IInv
    OBVIOUS
<1>1. TypeOK
    <2>1. writer \in [Process -> WriterType]
        BY OffType DEF Init
    <2>2. <<>> \in Seq(Item)
        OBVIOUS
    <2>3. failures \in 0..MaxFailures /\ crashes \in 0..MaxCrashes
        BY RolloutAssumption DEF Init
    <2>4. cold \in BOOLEAN /\ overlapped \in BOOLEAN /\ acked \in SUBSET Item
        BY DEF Init
    <2>5. plain = None /\ zst = None /\ lock = None /\ worker = Idle /\ recorded = <<>>
        BY DEF Init
    <2> QED
        BY <2>1, <2>2, <2>3, <2>4, <2>5, IdleIs DEF TypeOK
<1>2. Lines = <<>>
    BY DEF Init, Lines, Found
<1>3. FilesOK /\ WorkerOK
    BY IdleIs DEF Init, FilesOK, WorkerOK
<1>4. \A p \in Process : WriterOK(writer[p]) /\ writer[p].pc = "off"
    BY OffOK DEF Init
<1>5. PromiseOK /\ RecordedOnce
    BY <1>2, EmptyFile DEF Init, PromiseOK, RecordedOnce
<1> QED
    BY <1>1, <1>3, <1>4, <1>5 DEF IInv, LockOK

(* Every step keeps it. *)
LEMMA NextOK == IInv /\ [Next]_vars => IInv'
<1> SUFFICES ASSUME IInv, [Next]_vars PROVE IInv'
    OBVIOUS
<1>1. ASSUME NEW p \in Process, Session(p) PROVE IInv'
    <2>1. CASE Persist(p) \/ Flush(p)
        BY <2>1, CommandKeeps DEF Persist, Flush, Ops
    <2> QED
        BY <1>1, <2>1, CreateKeeps, ResumeKeeps, AppendItemsKeeps, ShutdownKeeps, DiscardKeeps,
           IoErrorKeeps, MaterializeKeeps, DropZstKeeps, OpenLogFileKeeps, OpenForAppendKeeps,
           WriteItemKeeps, WriteFailsKeeps, AcknowledgeKeeps, CrashKeeps DEF Session
<1>2. CASE Worker
    BY <1>2, AgeKeeps, ColdFileStateKeeps, EncodeKeeps, CheckKeeps, PersistKeeps, RecheckKeeps,
       UnlinkKeeps, WorkerStopsKeeps DEF Worker
<1> QED
    BY <1>1, <1>2, StutterKeeps DEF Next

(* The inductive invariant holds in every reachable state: files in order, one holder
   of the lock, recorders whose pending items come after what is stored, and a worker
   whose copy is never behind the file it first saw. *)
THEOREM InvariantHolds == Spec => []IInv
BY InitOK, NextOK, PTL DEF Spec

(* The state of the recorders, the files and the worker is what the types of
   recorder.rs and compression.rs allow. *)
THEOREM TypeCorrect == Spec => []TypeOK
<1>1. IInv => TypeOK
    BY DEF IInv
<1> QED
    BY <1>1, InvariantHolds, PTL

(* What persist, flush or shutdown has acknowledged is found by every reader, as long
   as the compression worker has not removed a file that a recorder had open. *)
THEOREM AcknowledgedReadable == Spec => []AckedReadableUnlessOverlapped
<1>1. IInv => AckedReadableUnlessOverlapped
    BY DEF IInv, PromiseOK, AckedReadableUnlessOverlapped, AckedReadable
<1> QED
    BY <1>1, InvariantHolds, PTL

(* A reader sees the items in the order they were recorded, under ordinals that never
   go back and name one item each, whatever was torn, retried or compressed. *)
THEOREM InOrder == Spec => []HistoryInOrder
<1>1. ASSUME IInv PROVE HistoryInOrder
    <2>1. FileOK(Lines)
        BY <1>1, LinesAre, EmptyFile DEF IInv, FilesOK
    <2> QED
        BY <2>1 DEF HistoryInOrder, FileOK, Before
<1> QED
    BY <1>1, InvariantHolds, PTL

(* The rollout of an acknowledged item is never gone, and a compressed file that a
   plain one hides has nothing of its own. *)
THEOREM RolloutStays == Spec => []NeverGone
<1>1. ASSUME IInv PROVE NeverGone
    <2>1. ~overlapped /\ plain # None /\ zst # None => ItemsIn(zst) \subseteq ItemsIn(plain)
        BY <1>1, CoveredItems DEF IInv, PromiseOK
    <2>2. plain # None => Lines = plain
        BY <1>1, LinesAre DEF IInv
    <2> QED
        BY <1>1, <2>1, <2>2 DEF NeverGone, IInv, PromiseOK, ReadItems
<1> QED
    BY <1>1, InvariantHolds, PTL

-----------------------------------------------------------------------------
(* The refinement.  What a reader finds, by ordinal, changes only when a record with a
   new ordinal is added. *)

Names == Item \cup {Meta, Junk}

LEMMA NextOrdinalIs ==
    ASSUME NEW f, OrdinalsOK(f)
    PROVE  /\ NextOrdinal(f) \in Nat
           /\ \A n \in DOMAIN f : Parses(f[n]) => f[n].ord < NextOrdinal(f)
           /\ NextOrdinal(f) > 0 => At(f, NextOrdinal(f) - 1) # {}
<1>1. CASE \E n \in DOMAIN f : Parses(f[n])
    <2>1. /\ LastOrdinal(f) \in Nat /\ At(f, LastOrdinal(f)) # {}
          /\ \A n \in DOMAIN f : Parses(f[n]) => f[n].ord <= LastOrdinal(f)
        BY <1>1, LastOrdinalIs
    <2>2. NextOrdinal(f) = LastOrdinal(f) + 1
        BY <1>1 DEF NextOrdinal
    <2>3. \A n \in DOMAIN f : f[n].ord \in Nat
        BY FileDomain DEF OrdinalsOK
    <2>4. NextOrdinal(f) - 1 = LastOrdinal(f)
        BY <2>1, <2>2
    <2> QED
        BY <2>1, <2>2, <2>3, <2>4
<1>2. CASE ~\E n \in DOMAIN f : Parses(f[n])
    BY <1>2 DEF NextOrdinal
<1> QED
    BY <1>1, <1>2

LEMMA NextOrdinalUnique ==
    ASSUME NEW f, OrdinalsOK(f), NEW x \in Nat,
           \A n \in DOMAIN f : Parses(f[n]) => f[n].ord < x, x > 0 => At(f, x - 1) # {}
    PROVE  NextOrdinal(f) = x
<1> DEFINE y == NextOrdinal(f)
<1>1. /\ y \in Nat /\ \A n \in DOMAIN f : Parses(f[n]) => f[n].ord < y
      /\ y > 0 => At(f, y - 1) # {}
    BY NextOrdinalIs
<1> HIDE DEF y
<1>2. ~(x < y)
    <2> SUFFICES ASSUME x < y PROVE FALSE
        OBVIOUS
    <2>1. PICK n \in At(f, y - 1) : TRUE
        BY <1>1
    <2> QED
        BY <1>1, <2>1 DEF At
<1>3. ~(y < x)
    <2> SUFFICES ASSUME y < x PROVE FALSE
        OBVIOUS
    <2>1. PICK n \in At(f, x - 1) : TRUE
        BY <1>1
    <2> QED
        BY <1>1, <2>1 DEF At
<1> QED
    BY <1>1, <1>2, <1>3 DEF y

(* An ordinal names one item. *)
LEMMA ItemAtIs ==
    ASSUME NEW f, OrdinalsOK(f), NEW n \in DOMAIN f, Parses(f[n])
    PROVE  ItemAt(f, f[n].ord) = f[n].item
<1>1. n \in At(f, f[n].ord)
    BY DEF At
<1> DEFINE m == CHOOSE m \in At(f, f[n].ord) : TRUE
<1>2. m \in At(f, f[n].ord)
    BY <1>1
<1>3. ItemAt(f, f[n].ord) = f[m].item
    BY <1>1 DEF ItemAt
<1> HIDE DEF m
<1>4. m \in DOMAIN f /\ Parses(f[m]) /\ f[m].ord = f[n].ord
    BY <1>2 DEF At
<1>5. m \in Nat /\ n \in Nat
    BY <1>4, FileDomain DEF OrdinalsOK
<1>6. m = n \/ m < n \/ n < m
    BY <1>5
<1> QED
    BY <1>3, <1>4, <1>6 DEF OrdinalsOK

LEMMA ItemAtCovered ==
    ASSUME NEW f, NEW g, OrdinalsOK(f), OrdinalsOK(g), Covered(f, g), NEW o, At(f, o) # {}
    PROVE  ItemAt(g, o) = ItemAt(f, o)
<1>1. PICK n \in At(f, o) : TRUE
    OBVIOUS
<1>2. n \in DOMAIN f /\ Parses(f[n]) /\ f[n].ord = o
    BY <1>1 DEF At
<1>3. PICK m \in DOMAIN g : g[m].item = f[n].item /\ g[m].ord = o
    BY <1>2 DEF Covered, Has
<1>4. Parses(g[m])
    BY <1>2, <1>3 DEF Parses
<1> QED
    BY <1>2, <1>3, <1>4, ItemAtIs

LEMMA SameHistory ==
    ASSUME NEW f, NEW g, OrdinalsOK(f), OrdinalsOK(g), Covered(f, g), Covered(g, f)
    PROVE  HistoryOf(g) = HistoryOf(f)
<1>1. /\ NextOrdinal(f) \in Nat
      /\ \A n \in DOMAIN f : Parses(f[n]) => f[n].ord < NextOrdinal(f)
      /\ NextOrdinal(f) > 0 => At(f, NextOrdinal(f) - 1) # {}
    BY NextOrdinalIs
<1>2. \A n \in DOMAIN g : Parses(g[n]) => g[n].ord < NextOrdinal(f)
    BY <1>1 DEF Covered, Has, Parses
<1>3. NextOrdinal(f) > 0 => At(g, NextOrdinal(f) - 1) # {}
    BY <1>1, CoveredAt
<1>4. NextOrdinal(g) = NextOrdinal(f)
    BY <1>1, <1>2, <1>3, NextOrdinalUnique
<1>5. ASSUME NEW k \in 1..NextOrdinal(f) PROVE ItemAt(g, k - 1) = ItemAt(f, k - 1)
    <2>1. CASE At(f, k - 1) # {}
        BY <2>1, ItemAtCovered
    <2>2. CASE At(f, k - 1) = {}
        <3>1. At(g, k - 1) = {}
            BY <2>2, CoveredAt
        <3> QED
            BY <2>2, <3>1 DEF ItemAt
    <2> QED
        BY <2>1, <2>2
<1> QED
    BY <1>4, <1>5 DEF HistoryOf

LEMMA HistoryType ==
    ASSUME NEW f, OrdinalsOK(f)
    PROVE  /\ HistoryOf(f) \in Seq(Names) /\ Len(HistoryOf(f)) = NextOrdinal(f)
           /\ DOMAIN HistoryOf(f) = 1..NextOrdinal(f)
           /\ \A k \in 1..NextOrdinal(f) : HistoryOf(f)[k] = ItemAt(f, k - 1)
<1>1. NextOrdinal(f) \in Nat
    BY NextOrdinalIs
<1>2. ASSUME NEW o PROVE ItemAt(f, o) \in Names
    <2>1. CASE At(f, o) = {}
        BY <2>1 DEF ItemAt, Names
    <2>2. CASE At(f, o) # {}
        <3> DEFINE m == CHOOSE m \in At(f, o) : TRUE
        <3>1. m \in At(f, o)
            BY <2>2
        <3>2. ItemAt(f, o) = f[m].item
            BY <2>2 DEF ItemAt
        <3> HIDE DEF m
        <3>3. m \in DOMAIN f
            BY <3>1 DEF At
        <3> QED
            BY <3>2, <3>3, FileDomain DEF OrdinalsOK, Names
    <2> QED
        BY <2>1, <2>2
<1>3. HistoryOf(f) = [k \in 1..NextOrdinal(f) |-> ItemAt(f, k - 1)]
    BY DEF HistoryOf
<1> QED
    BY <1>1, <1>2, <1>3

(* What a reader finds is what the log stores. *)
LEMMA StoredIs ==
    ASSUME NEW f, OrdinalsOK(f)
    PROVE  ItemsIn(f) \subseteq {HistoryOf(f)[n] : n \in 1..Len(HistoryOf(f))}
<1> SUFFICES ASSUME NEW n \in DOMAIN f, Parses(f[n])
             PROVE  \E k \in 1..Len(HistoryOf(f)) : HistoryOf(f)[k] = f[n].item
    BY DEF ItemsIn, Parses
<1> DEFINE k == f[n].ord + 1
<1>1. f[n].ord \in Nat
    BY FileDomain DEF OrdinalsOK
<1>2. f[n].ord < NextOrdinal(f) /\ NextOrdinal(f) \in Nat
    BY NextOrdinalIs
<1>3. k \in 1..NextOrdinal(f) /\ k - 1 = f[n].ord
    BY <1>1, <1>2
<1>4. HistoryOf(f)[k] = f[n].item /\ Len(HistoryOf(f)) = NextOrdinal(f)
    BY <1>3, HistoryType, ItemAtIs
<1> QED
    BY <1>3, <1>4

(* A record under a new ordinal is appended to the history. *)
LEMMA HistoryGrows ==
    ASSUME NEW f, NEW l \in LineType, Parses(l), OrdinalsOK(f), OrdinalsOK(Append(f, l)),
           Contiguous(f), Contiguous(Append(f, l)), At(f, l.ord) = {}
    PROVE  /\ HistoryOf(Append(f, l)) = Append(HistoryOf(f), l.item)
           /\ l.item \notin {HistoryOf(f)[n] : n \in 1..Len(HistoryOf(f))}
           /\ HistoryOf(f) = <<>> => l.item = Meta
           /\ l.item \in Item \cup {Meta}
<1> DEFINE g == Append(f, l)
           N == NextOrdinal(f)
           e == Len(f) + 1
<1>1. f \in Seq(LineType)
    BY DEF OrdinalsOK
<1>2. /\ g \in Seq(LineType) /\ DOMAIN g = (DOMAIN f) \cup {e} /\ Covered(f, g)
      /\ \A n \in DOMAIN f : g[n] = f[n] /\ n < e
      /\ g[e] = l
    BY <1>1, Appended, AppendCovers
<1>3. /\ N \in Nat /\ \A n \in DOMAIN f : Parses(f[n]) => f[n].ord < N
      /\ N > 0 => At(f, N - 1) # {}
    BY NextOrdinalIs
<1>4. l.ord \in Nat /\ \A n \in DOMAIN f : f[n].ord \in Nat
    BY <1>1, FileDomain DEF LineType
<1>5. OrdinalsOK(g) /\ Contiguous(g)
    OBVIOUS
<1> HIDE DEF g, N, e
<1>6. l.ord = N
    <2>1. ~(l.ord < N)
        <3> SUFFICES ASSUME l.ord < N PROVE FALSE
            OBVIOUS
        <3>1. PICK n \in At(f, N - 1) : TRUE
            BY <1>3, <1>4
        <3>2. n \in DOMAIN f /\ Parses(f[n]) /\ f[n].ord = N - 1
            BY <3>1 DEF At
        <3>3. l.ord \in 0..f[n].ord
            BY <1>3, <1>4, <3>2
        <3> QED
            BY <3>2, <3>3 DEF Contiguous
    <2>2. ~(N < l.ord)
        <3> SUFFICES ASSUME N < l.ord PROVE FALSE
            OBVIOUS
        <3>1. At(g, N) # {}
            <4>1. N \in 0..g[e].ord /\ Parses(g[e]) /\ e \in DOMAIN g
                BY <1>2, <1>3, <1>4
            <4> QED
                BY <4>1, <1>5 DEF Contiguous
        <3>2. PICK n \in DOMAIN g : Parses(g[n]) /\ g[n].ord = N
            BY <3>1 DEF At
        <3>3. CASE n = e
            BY <1>2, <1>3, <1>4, <3>2, <3>3
        <3>4. CASE n \in DOMAIN f
            BY <1>2, <1>3, <3>2, <3>4
        <3> QED
            BY <1>2, <3>3, <3>4
    <2> QED
        BY <1>3, <1>4, <2>1, <2>2
<1>7. NextOrdinal(g) = N + 1
    <2>1. \A n \in DOMAIN g : Parses(g[n]) => g[n].ord < N + 1
        BY <1>2, <1>3, <1>4, <1>6
    <2>2. e \in At(g, (N + 1) - 1)
        BY <1>2, <1>3, <1>6 DEF At
    <2>3. N + 1 \in Nat
        BY <1>3
    <2> QED
        BY <1>5, <2>1, <2>2, <2>3, NextOrdinalUnique
<1>8. ASSUME NEW k \in 1..N PROVE At(f, k - 1) # {} /\ ItemAt(g, k - 1) = ItemAt(f, k - 1)
    <2>1. PICK n \in At(f, N - 1) : TRUE
        BY <1>3
    <2>2. n \in DOMAIN f /\ Parses(f[n]) /\ f[n].ord = N - 1
        BY <2>1 DEF At
    <2>3. k - 1 \in 0..f[n].ord
        BY <1>3, <2>2
    <2>4. At(f, k - 1) # {}
        BY <2>2, <2>3 DEF Contiguous
    <2> QED
        BY <1>2, <1>5, <2>4, ItemAtCovered
<1>9. ItemAt(g, N) = l.item
    BY <1>2, <1>5, <1>6, ItemAtIs
<1>10. /\ HistoryOf(f) \in Seq(Names) /\ Len(HistoryOf(f)) = N
       /\ \A k \in 1..N : HistoryOf(f)[k] = ItemAt(f, k - 1)
       /\ HistoryOf(g) \in Seq(Names) /\ Len(HistoryOf(g)) = N + 1
       /\ \A k \in 1..(N + 1) : HistoryOf(g)[k] = ItemAt(g, k - 1)
    BY <1>5, <1>7, HistoryType DEF N
<1>11. l.item \in Names
    BY DEF LineType, Names
<1>12. HistoryOf(g) = Append(HistoryOf(f), l.item)
    <2> DEFINE h == HistoryOf(f)
               hg == HistoryOf(g)
    <2>1. \A k \in 1..N : hg[k] = h[k]
        BY <1>3, <1>8, <1>10
    <2>2. hg[N + 1] = l.item
        BY <1>3, <1>9, <1>10
    <2>3. h \in Seq(Names) /\ Len(h) = N /\ hg \in Seq(Names) /\ Len(hg) = N + 1
        BY <1>10
    <2> HIDE DEF h, hg
    <2>4. hg = Append(h, l.item)
        BY <1>3, <1>11, <2>1, <2>2, <2>3
    <2> QED
        BY <2>4 DEF h, hg
<1>13. l.item \notin {HistoryOf(f)[n] : n \in 1..Len(HistoryOf(f))}
    <2> SUFFICES ASSUME NEW k \in 1..N, HistoryOf(f)[k] = l.item PROVE FALSE
        BY <1>10
    <2>1. PICK n \in At(f, k - 1) : TRUE
        BY <1>8
    <2>2. n \in DOMAIN f /\ Parses(f[n]) /\ f[n].ord = k - 1
        BY <2>1 DEF At
    <2>3. f[n].item = l.item
        BY <1>10, <2>2, ItemAtIs
    <2>4. /\ n \in DOMAIN g /\ e \in DOMAIN g /\ n < e /\ g[n] = f[n] /\ g[e] = l
        BY <1>2, <2>2
    <2>5. f[n].ord = l.ord
        BY <1>5, <2>2, <2>3, <2>4 DEF OrdinalsOK
    <2> QED
        BY <1>3, <1>6, <2>2, <2>5
<1>14. HistoryOf(f) = <<>> => l.item = Meta
    <2> SUFFICES ASSUME HistoryOf(f) = <<>> PROVE l.item = Meta
        OBVIOUS
    <2>1. l.ord = 0
        BY <1>6, <1>10
    <2> QED
        BY <1>2, <1>5, <2>1 DEF OrdinalsOK
<1>15. l.item \in Item \cup {Meta}
    BY DEF LineType, Parses
<1> QED
    BY <1>12, <1>13, <1>14, <1>15 DEF g

(* g has the records of f, or one more at its end. *)
OneMore(f, g) == \/ Covered(f, g) /\ Covered(g, f)
                 \/ \E l \in LineType : Parses(l) /\ g = Append(f, l)

LEMMA OneMoreSelf == ASSUME NEW f PROVE OneMore(f, f)
BY CoveredSelf DEF OneMore

LEMMA PartialOneMore ==
    ASSUME IInv, NEW w \in WriterType, RecordingOK(w), HasTodo(w), plain # None, Terminated(plain),
           NEW nl \in BOOLEAN
    PROVE  /\ OneMore(plain, Write(plain, Line(Todo(w), w.next, nl)))
           /\ \A g \in Partial(plain, Line(Todo(w), w.next, TRUE)) : OneMore(plain, g)
<1>1. /\ plain \in Seq(LineType) /\ FileOK(plain) /\ Lines = plain
      /\ recorded \in Seq(Item) /\ RecordedOnce
    BY LinesAre DEF IInv, FilesOK, TypeOK
<1>2. Bounded(w, plain) /\ PendingOK(w.pending) /\ (w.meta <=> w.next = 0)
    BY <1>1 DEF RecordingOK
<1>3. ASSUME NEW b \in BOOLEAN PROVE OneMore(plain, Write(plain, Line(Todo(w), w.next, b)))
    <2>1. Line(Todo(w), w.next, b) \in LineType /\ Parses(Line(Todo(w), w.next, b))
        BY <1>1, <1>2, AppendFileOK
    <2>2. Write(plain, Line(Todo(w), w.next, b)) = Append(plain, Line(Todo(w), w.next, b))
        BY DEF Write
    <2> QED
        BY <2>1, <2>2 DEF OneMore
<1>4. OneMore(plain, Write(plain, Fragment))
    BY <1>1, FragmentOK DEF Write, OneMore
<1>5. /\ Line(Todo(w), w.next, TRUE).item = Todo(w)
      /\ Line(Todo(w), w.next, TRUE).ord = w.next
    BY DEF Line
<1> QED
    BY <1>3, <1>4, <1>5, OneMoreSelf DEF Partial

LEMMA PartStored ==
    ASSUME IInv, NEW p \in Process, writer[p].pc = "write", HasTodo(writer[p]), ~overlapped,
           StorePart(p, Line(Todo(writer[p]), writer[p].next, TRUE))
    PROVE  plain # None /\ plain' # None /\ OneMore(plain, plain')
<1> DEFINE w == writer[p]
           l == Line(Todo(w), w.next, TRUE)
<1>1. /\ w \in WriterType /\ RecordingOK(w) /\ w.fd = "plain" /\ plain # None /\ Terminated(plain)
    BY WritingIs
<1>2. PICK g \in Partial(plain, l) : plain' = g
    BY <1>1 DEF StorePart, Store
<1>3. OneMore(plain, g)
    BY <1>1, <1>2, PartialOneMore
<1>4. g # None
    BY <1>1, <1>2, PartialOK DEF GrownBy
<1> QED
    BY <1>1, <1>2, <1>3, <1>4

LEMMA PlainSeen ==
    ASSUME plain # None, plain' # None, OneMore(plain, plain')
    PROVE  OneMore(Lines, Lines')
BY DEF Lines, Found

LEMMA SessionLines ==
    ASSUME IInv, NEW p \in Process, Session(p), ~overlapped
    PROVE  OneMore(Lines, Lines')
<1>1. ASSUME UNCHANGED <<plain, zst>> PROVE OneMore(Lines, Lines')
    BY <1>1, OneMoreSelf DEF Lines, Found
<1>2. CASE \/ Create(p) \/ Resume(p) \/ \E items \in Batches : AppendItems(p, items)
           \/ Persist(p) \/ Flush(p) \/ Shutdown(p) \/ DiscardThread(p) \/ IoError(p)
           \/ Acknowledge(p)
    BY <1>1, <1>2 DEF Create, Resume, AppendItems, Persist, Flush, Shutdown, DiscardThread, IoError,
                      Acknowledge
<1>3. CASE Materialize(p) \/ DropZst(p)
    <2>1. Lines' = Lines
        <3>1. CASE Materialize(p)
            BY <3>1 DEF Materialize, Lines, Found
        <3>2. CASE DropZst(p)
            <4>1. plain # None /\ plain' = plain
                BY <3>2 DEF DropZst, IInv, WriterOK
            <4> QED
                BY <4>1 DEF Lines, Found
        <3> QED
            BY <1>3, <3>1, <3>2
    <2> QED
        BY <2>1, OneMoreSelf
<1>4. CASE OpenLogFile(p)
    <2> DEFINE f == IF plain = None THEN <<>> ELSE plain
    <2>1. f = Lines /\ f \in Seq(LineType)
        BY <1>4, LinesAre, EmptyFile DEF OpenLogFile, IInv, WriterOK
    <2>2. plain' = EnsureNewlineTerminated(f)
        BY <1>4 DEF OpenLogFile
    <2> HIDE DEF f
    <2>3. plain' \in Seq(LineType) /\ SameRecords(f, plain')
        BY <2>1, <2>2, Repaired
    <2>4. plain' # None
        BY <2>3, FileDomain
    <2>5. Lines' = plain'
        BY <2>4 DEF Lines, Found
    <2> QED
        BY <2>1, <2>3, <2>5, SameCovered DEF OneMore
<1>5. CASE OpenForAppend(p)
    <2>1. CASE plain = None
        BY <1>1, <1>5, <2>1 DEF OpenForAppend
    <2>2. CASE plain # None
        <3>1. plain \in Seq(LineType)
            BY <2>2, LinesAre DEF IInv
        <3>2. plain' = EnsureNewlineTerminated(plain)
            BY <1>5, <2>2 DEF OpenForAppend
        <3>3. plain' \in Seq(LineType) /\ SameRecords(plain, plain')
            BY <3>1, <3>2, Repaired
        <3>4. plain' # None
            BY <3>3, FileDomain
        <3> QED
            BY <2>2, <3>3, <3>4, SameCovered, PlainSeen DEF OneMore
    <2> QED
        BY <2>1, <2>2
<1>6. CASE WriteItem(p)
    <2> DEFINE w == writer[p]
    <2>1. w.pc = "write" /\ HasTodo(w)
        BY <1>6 DEF WriteItem
    <2>2. /\ w \in WriterType /\ RecordingOK(w) /\ w.fd = "plain" /\ plain # None
          /\ Terminated(plain)
        BY <2>1, WritingIs
    <2>3. plain' = Write(plain, Line(Todo(w), w.next, TRUE))
        BY <1>6, <2>2 DEF WriteItem, Store
    <2>4. OneMore(plain, plain')
        BY <2>1, <2>2, <2>3, PartialOneMore
    <2>5. plain' # None
        BY <2>1, <2>2, <2>3, WholeLine DEF GrownBy
    <2> QED
        BY <2>2, <2>4, <2>5, PlainSeen
<1>7. CASE WriteFails(p)
    BY <1>7, PartStored, PlainSeen DEF WriteFails
<1>8. CASE Crash(p)
    <2>1. CASE writer[p].pc = "write" /\ HasTodo(writer[p])
        BY <1>8, <2>1, PartStored, PlainSeen DEF Crash
    <2>2. CASE ~(writer[p].pc = "write" /\ HasTodo(writer[p]))
        BY <1>1, <1>8, <2>2 DEF Crash
    <2> QED
        BY <2>1, <2>2
<1> QED
    BY <1>2, <1>3, <1>4, <1>5, <1>6, <1>7, <1>8 DEF Session

LEMMA WorkerLines ==
    ASSUME IInv, Worker, ~overlapped'
    PROVE  OneMore(Lines, Lines')
<1>1. ASSUME plain # None, plain' = plain PROVE OneMore(Lines, Lines')
    BY <1>1, OneMoreSelf DEF Lines, Found
<1>2. CASE Age \/ ColdFileState
    BY <1>1, <1>2 DEF Age, ColdFileState
<1>3. CASE EncodeZstd \/ CheckUnchanged \/ PersistZst \/ RecheckUnchanged \/ WorkerStops
    <2>1. worker.pc # "idle" /\ plain' = plain
        BY <1>3 DEF EncodeZstd, CheckUnchanged, PersistZst, RecheckUnchanged, WorkerStops
    <2>2. plain # None
        BY <2>1 DEF IInv, WorkerOK
    <2> QED
        BY <1>1, <2>1, <2>2
<1>4. CASE UnlinkPlain
    <2>1. worker.raced \in BOOLEAN
        BY DEF IInv, TypeOK, WorkerType
    <2>2. ~worker.raced /\ worker.pc = "unlink" /\ plain' = None /\ zst' = zst
        BY <1>4, <2>1 DEF UnlinkPlain
    <2>3. plain # None /\ zst # None /\ Covered(plain, zst) /\ Covered(zst, plain)
        BY <2>2 DEF IInv, WorkerOK
    <2>4. Lines = plain /\ Lines' = zst
        BY <2>2, <2>3 DEF Lines, Found
    <2> QED
        BY <2>3, <2>4 DEF OneMore
<1> QED
    BY <1>2, <1>3, <1>4 DEF Worker

LEMMA AckedGrows ==
    ASSUME Next
    PROVE  /\ acked \subseteq acked' /\ (overlapped => overlapped')
           /\ acked' # acked => UNCHANGED <<plain, zst, overlapped>>
<1>1. ASSUME NEW p \in Process, Session(p)
      PROVE  /\ acked \subseteq acked' /\ overlapped' = overlapped
             /\ acked' # acked => UNCHANGED <<plain, zst, overlapped>>
    BY <1>1 DEF Session, Create, Resume, AppendItems, Persist, Flush, Shutdown, DiscardThread, IoError,
                Materialize, DropZst, OpenLogFile, OpenForAppend, WriteItem, WriteFails, Acknowledge,
                Crash, history
<1>2. CASE Worker
    <2>1. CASE UnlinkPlain
        <3>1. overlapped' = (overlapped \/ worker.raced) /\ acked' = acked
            BY <2>1 DEF UnlinkPlain
        <3>2. overlapped => overlapped'
            BY <3>1, Zenon
        <3> QED
            BY <3>1, <3>2
    <2>2. CASE ~UnlinkPlain
        BY <1>2, <2>2 DEF Worker, Age, ColdFileState, EncodeZstd, CheckUnchanged, PersistZst,
                          RecheckUnchanged, WorkerStops, history
    <2> QED
        BY <2>1, <2>2
<1> QED
    BY <1>1, <1>2 DEF Next

LEMMA LogStep ==
    ASSUME IInv, IInv', [Next]_vars
    PROVE  [Log!Next \/ overlapped']_(Log!vars)
<1>1. CASE UNCHANGED vars
    BY <1>1 DEF vars, Log!vars, History, Lines, Found
<1>2. CASE Next /\ overlapped'
    BY <1>2
<1>3. CASE Next /\ ~overlapped'
    <2>1. overlapped \in BOOLEAN /\ overlapped' \in BOOLEAN
        BY DEF IInv, TypeOK
    <2>2. ~overlapped /\ overlapped' = overlapped /\ acked \subseteq acked'
        BY <1>3, <2>1, AckedGrows
    <2>3. OneMore(Lines, Lines')
        BY <1>3, <2>2, SessionLines, WorkerLines DEF Next
    <2>4. OrdinalsOK(Lines) /\ Contiguous(Lines)
        BY <2>2, LinesAre, EmptyFile, OrdinalsOfFile DEF IInv, FilesOK, PromiseOK
    <2>5. PICK f : f = Lines
        OBVIOUS
    <2>6. PICK g : g = Lines'
        OBVIOUS
    <2>7. Contiguous(g)
        BY <1>3, <2>6 DEF IInv, PromiseOK, Contiguous, At
    <2>8. OrdinalsOK(g)
        <3>1. g = <<>> \/ (g = plain' /\ plain' # None) \/ (g = zst' /\ zst' # None)
            BY <2>6 DEF Lines, Found
        <3>2. plain' # None => OrdinalsOK(plain')
            BY DEF IInv, FilesOK, FileOK, OrdinalsOK
        <3>3. zst' # None => OrdinalsOK(zst')
            BY DEF IInv, FilesOK, FileOK, OrdinalsOK
        <3> QED
            BY <3>1, <3>2, <3>3, EmptyFile, OrdinalsOfFile
    <2>9. History = HistoryOf(f) /\ History' = HistoryOf(g)
        BY <2>5, <2>6 DEF History, HistoryOf, NextOrdinal, LastOrdinal, LastRecord, ItemAt, At
    <2>10. Log!Stored = {HistoryOf(f)[n] : n \in 1..Len(HistoryOf(f))}
        BY <2>9 DEF Log!Stored
    <2>11. CASE acked' = acked
        <3>1. CASE Covered(f, g) /\ Covered(g, f)
            <4>1. History' = History
                BY <2>4, <2>5, <2>8, <2>9, <3>1, SameHistory
            <4> QED
                BY <2>2, <2>11, <4>1 DEF Log!vars
        <3>2. ASSUME NEW l \in LineType, Parses(l), g = Append(f, l)
              PROVE  [Log!Next \/ overlapped']_(Log!vars)
            <4>1. CASE At(f, l.ord) = {}
                <5>1. /\ HistoryOf(g) = Append(HistoryOf(f), l.item)
                      /\ l.item \notin {HistoryOf(f)[n] : n \in 1..Len(HistoryOf(f))}
                      /\ HistoryOf(f) = <<>> => l.item = Meta
                      /\ l.item \in Item \cup {Meta}
                    BY <2>4, <2>5, <2>7, <2>8, <3>2, <4>1, HistoryGrows
                <5>2. Log!Store(l.item)
                    BY <2>2, <2>9, <2>10, <2>11, <5>1 DEF Log!Store
                <5> QED
                    BY <5>1, <5>2 DEF Log!Next
            <4>2. CASE At(f, l.ord) # {}
                <5>1. Covered(f, g)
                    BY <2>4, <2>5, <3>2, AppendCovers DEF OrdinalsOK
                <5>2. Covered(g, f)
                    <6>1. PICK n \in DOMAIN f : Parses(f[n]) /\ f[n].ord = l.ord
                        BY <4>2 DEF At
                    <6>2. /\ DOMAIN g = (DOMAIN f) \cup {Len(f) + 1}
                          /\ \A m \in DOMAIN f : g[m] = f[m] /\ m < Len(f) + 1
                          /\ g[Len(f) + 1] = l
                        BY <2>4, <2>5, <3>2, Appended DEF OrdinalsOK
                    <6>3. f[n].item = l.item
                        BY <2>8, <3>2, <6>1, <6>2 DEF OrdinalsOK
                    <6> QED
                        BY <6>1, <6>2, <6>3 DEF Covered, Has
                <5>3. History' = History
                    BY <2>4, <2>5, <2>8, <2>9, <5>1, <5>2, SameHistory
                <5> QED
                    BY <2>2, <2>11, <5>3 DEF Log!vars
            <4> QED
                BY <4>1, <4>2
        <3> QED
            BY <2>3, <2>5, <2>6, <3>1, <3>2 DEF OneMore
    <2>12. CASE acked' # acked
        <3>1. UNCHANGED <<plain, zst, overlapped>>
            BY <1>3, <2>12, AckedGrows
        <3>2. g = f
            BY <2>5, <2>6, <3>1 DEF Lines, Found
        <3>3. acked' \subseteq ItemsIn(g) /\ acked' \in SUBSET Item
            BY <1>3, <2>6 DEF IInv, PromiseOK, ReadItems, ItemsIn, TypeOK
        <3>4. ItemsIn(f) \subseteq Log!Stored
            BY <2>4, <2>5, <2>10, StoredIs
        <3>5. Log!Acknowledge
            BY <2>2, <2>9, <3>2, <3>3, <3>4 DEF Log!Acknowledge
        <3> QED
            BY <3>5 DEF Log!Next
    <2> QED
        BY <2>11, <2>12
<1> QED
    BY <1>1, <1>2, <1>3

(* The rollout implements DurableLog: what a reader finds, counted by ordinal, only
   grows at its end, by one item at a time, begins with the metadata, and holds every
   item that was acknowledged, until the worker removes a file in use. *)
THEOREM LogImplemented == Spec => ImplementsDurableLog
<1>1. Init => Log!Init
    <2> SUFFICES ASSUME Init PROVE Log!Init
        OBVIOUS
    <2>1. Lines = <<>>
        BY DEF Init, Lines, Found
    <2>2. NextOrdinal(<<>>) = 0
        BY DEF NextOrdinal
    <2>3. History = <<>>
        BY <2>1, <2>2 DEF History, HistoryOf
    <2> QED
        BY <2>3 DEF Init, Log!Init
<1> QED
    BY <1>1, InvariantHolds, LogStep, PTL DEF Spec, ImplementsDurableLog, Log!Spec
=============================================================================
