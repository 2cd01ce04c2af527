------------------------ MODULE TranscriptExport_proofs ------------------------
(***************************************************************************)
(* Theorems about TranscriptExport.  An append is right if the messages    *)
(* that were read before are still there with their flags, and the reader  *)
(* only compares counts, bounds and sums of the sessions; the inductive    *)
(* invariant keeps the ids, sessions and flags of the last reading, which  *)
(* the host can only take from: equal counts are then equal sets.          *)
(***************************************************************************)
EXTENDS TranscriptExport, FiniteSetTheorems, SequenceTheorems, TLAPS

-----------------------------------------------------------------------------
(* The inductive invariant. *)

HostTypes ==
  /\ rows \in [Targets -> Seq([session : Nat, state : {"active", "inactive", "deleted"}])]
  /\ sessions \in [Targets -> Nat] /\ edits \in 0..MaxEdits
ReaderTypes ==
  /\ closed \in BOOLEAN /\ source \in Sources
  /\ mode \in [Targets -> {"pending", "incremental", "full_fallback"}]
  /\ lineage \in [Targets -> Nat] /\ last \in [Targets -> Nat]
  /\ \A t \in Targets : lineage[t] <= sessions[t] /\ last[t] <= Len(rows[t])
  /\ tsig \in [Targets -> Exports] /\ seen \in [Targets -> Transcripts]
FileTypes ==
  /\ active \subseteq known /\ known \subseteq Targets /\ version \in [Targets -> Nat]
  /\ file \in [Targets -> Exports] /\ msig \in [Targets -> Sigs \cup {Nothing}]
  /\ meta \subseteq known /\ clean \subseteq known
ThreadTypes ==
  /\ pc \in [Threads -> Places] /\ todo \in [Threads -> SUBSET known]
  /\ job \in [Threads -> Jobs \cup {Nothing}]
  /\ \A f \in Threads : /\ (pc[f] \in {"reading", "writing"}) <=> (job[f] # Nothing)
                        /\ job[f] # Nothing => job[f].target \in todo[f]
                        /\ pc[f] = "idle" => todo[f] = {}
  /\ stopping \in BOOLEAN /\ failures \in 0..MaxFailures
Types == HostTypes /\ ReaderTypes /\ FileTypes /\ ThreadTypes

(* Messages belong to sessions of the lineage; one thread flushes at a time. *)
HostInv ==
  \A t \in Targets :
    /\ sessions[t] >= 1
    /\ \A i \in DOMAIN rows[t] : rows[t][i].session \in 1 .. sessions[t]
LockInv == \A f, g \in Threads : pc[f] \in Flushing /\ pc[g] \in Flushing => f = g

(* The last incremental reading: the messages it found, with the session    *)
(* and the flag of each, up to its position.  Since then a message may have *)
(* been deactivated or deleted, and what is up to the position was found.   *)
Listing(ids, flag) == [n \in 1 .. Cardinality(ids) |-> <<Nth(ids, n), flag[Nth(ids, n)]>>]
In(ids, home, s) == {i \in ids : home[i] = s}
Flagged(ids, home, flag, s) == {i \in ids : home[i] = s /\ flag[i] = "active"}
ReadAs(t, ids, home, flag) ==
  /\ seen[t] = Listing(ids, flag)
  /\ \A i \in ids : /\ i <= last[t] /\ home[i] = rows[t][i].session
                    /\ rows[t][i].state # "inactive" => flag[i] = "active"
  /\ \A i \in Ids(t, lineage[t]) : i <= last[t] => i \in ids
  /\ \A s \in 1 .. lineage[t] :
       /\ states[t][s][1] = Cardinality(In(ids, home, s))
       /\ states[t][s][4] = Cardinality(Flagged(ids, home, flag, s))
ReaderOf(t) ==
  /\ mode[t] = "pending" => lineage[t] = 0
  /\ mode[t] = "incremental" =>
       /\ lineage[t] # 0 /\ DOMAIN states[t] = 1 .. lineage[t]
       /\ \E ids \in SUBSET DOMAIN rows[t] :
            \E home \in [ids -> 1 .. lineage[t]], flag \in [ids -> {"active", "inactive"}] :
              ReadAs(t, ids, home, flag)
ReaderInv == DOMAIN states = Targets /\ \A t \in Targets : ReaderOf(t)

(* The fallback is for good, and compares with what it found before. *)
FallbackInv ==
  \A t \in Targets : tsig[t] # Nothing => mode[t] = "full_fallback" /\ seen[t] = tsig[t]

(* What a thread is about to write makes the file what was read; the last   *)
(* flush is a rebuild.                                                      *)
JobIs(f, j, t) ==
  /\ j.action # "read"
  /\ j.action = "rebuild" => j.messages = seen[t]
  /\ j.action = "append" /\ t \in clean => Appended(file[t], j.messages) = seen[t]
  /\ j.action = "unchanged" /\ t \in clean => file[t] = seen[t]
  /\ f = Runner /\ stopping /\ mode[t] = "incremental" => j.action = "rebuild"
JobInv == \A f \in Threads : pc[f] = "writing" => JobIs(f, job[f], job[f].target)

FlushInv == JobInv /\ TranscriptIsWhatWasRead
IInv == Types /\ HostInv /\ LockInv /\ ReaderInv /\ FallbackInv /\ FlushInv

LEMMA TypesAreTypeOK == Types <=> TypeOK
<1>1. Types => TypeOK
  BY DEF Types, HostTypes, ReaderTypes, FileTypes, ThreadTypes, TypeOK
<1>2. TypeOK => Types
  BY DEF Types, HostTypes, ReaderTypes, FileTypes, ThreadTypes, TypeOK
<1> QED  BY <1>1, <1>2

-----------------------------------------------------------------------------
(* The nth of a finite set of ids. *)

Below(x, S) == {j \in S : j < x}

LEMMA LaterHasMoreBelow ==
  ASSUME NEW S \in SUBSET Nat, IsFiniteSet(S), NEW a \in S, NEW b \in S, a < b
  PROVE  /\ Cardinality(Below(a, S)) \in Nat /\ Cardinality(Below(b, S)) \in Nat
         /\ Cardinality(Below(a, S)) < Cardinality(Below(b, S))
<1> DEFINE A == Below(a, S)
           B == Below(b, S)
<1>1. /\ A \in SUBSET B /\ B \in SUBSET S /\ a \in B /\ a \notin A
  <2>1. \A j \in S : j < a => j < b
    OBVIOUS
  <2>2. a \notin A
    BY DEF Below
  <2> QED  BY <2>1, <2>2 DEF Below
<1>2. IsFiniteSet(B) /\ IsFiniteSet(A)
  BY <1>1, FS_Subset
<1> HIDE DEF A, B
<1>3. Cardinality(A) \in Nat /\ Cardinality(B) \in Nat
  BY <1>2, FS_CardinalityType
<1>4. Cardinality(A) <= Cardinality(B) /\ Cardinality(A) # Cardinality(B)
  BY <1>1, <1>2, FS_Subset
<1> QED  BY <1>3, <1>4 DEF A, B

LEMMA PlacesDiffer ==
  ASSUME NEW S \in SUBSET Nat, IsFiniteSet(S), NEW a \in S, NEW b \in S, a # b
  PROVE  Cardinality(Below(a, S)) # Cardinality(Below(b, S))
<1>1. a < b \/ b < a
  OBVIOUS
<1> QED  BY <1>1, LaterHasMoreBelow

LEMMA EveryPlaceIsTaken ==
  ASSUME NEW S \in SUBSET Nat, IsFiniteSet(S), NEW n \in 1 .. Cardinality(S)
  PROVE  \E x \in S : Cardinality(Below(x, S)) = n - 1
<1> DEFINE m == Cardinality(S)
           place == [x \in S |-> Cardinality(Below(x, S))]
<1>1. m \in Nat
  BY FS_CardinalityType
<1>2. \A x \in S : place[x] \in 0 .. m - 1
  <2> TAKE x \in S
  <2>1. Below(x, S) \in SUBSET S /\ x \notin Below(x, S)
    BY DEF Below
  <2>2. /\ IsFiniteSet(Below(x, S)) /\ Cardinality(Below(x, S)) <= m
        /\ Cardinality(Below(x, S)) # m
    BY <2>1, FS_Subset
  <2>3. Cardinality(Below(x, S)) \in Nat
    BY <2>2, FS_CardinalityType
  <2> QED  BY <1>1, <2>2, <2>3
<1>3. \A x, y \in S : place[x] = place[y] => x = y
  BY PlacesDiffer
<1>4. place \in [S -> 0 .. m - 1]
  BY <1>2
<1> HIDE DEF place
<1>5. place \in Injection(S, 0 .. m - 1)
  BY <1>3, <1>4 DEF Injection, IsInjective
<1>6. IsFiniteSet(0 .. m - 1) /\ Cardinality(0 .. m - 1) = m
  <2>1. 0 \in Int /\ m - 1 \in Int
    BY <1>1
  <2> QED  BY <1>1, <2>1, FS_Interval
<1>7. place \in Surjection(S, 0 .. m - 1)
  BY <1>5, <1>6, FS_Injection
<1>8. n - 1 \in 0 .. m - 1
  BY <1>1
<1> QED  BY <1>7, <1>8 DEF Surjection, place

LEMMA NthIs ==
  ASSUME NEW S \in SUBSET Nat, IsFiniteSet(S), NEW n \in 1 .. Cardinality(S)
  PROVE  /\ Nth(S, n) \in S /\ Cardinality(Below(Nth(S, n), S)) = n - 1
         /\ \A x \in S : Cardinality(Below(x, S)) = n - 1 => Nth(S, n) = x
<1>1. \E x \in S : Cardinality(Below(x, S)) = n - 1
  BY EveryPlaceIsTaken
<1>2. Nth(S, n) \in S /\ Cardinality(Below(Nth(S, n), S)) = n - 1
  BY <1>1 DEF Nth, Below
<1> QED  BY <1>2, PlacesDiffer

LEMMA Largest ==
  ASSUME NEW S \in SUBSET Nat, IsFiniteSet(S), S # {}
  PROVE  Max(S) \in S /\ \A n \in S : n <= Max(S)
<1> DEFINE m == Cardinality(S)
<1>1. m \in Nat /\ m # 0
  BY FS_CardinalityType, FS_EmptySet
<1>2. m \in 1 .. m
  BY <1>1
<1>3. PICK x \in S : Cardinality(Below(x, S)) = m - 1
  BY <1>2, EveryPlaceIsTaken
<1>4. ASSUME NEW y \in S, x < y PROVE FALSE
  <2>1. Below(x, S) \in SUBSET (S \ {x}) /\ y \in S \ {x} /\ y \notin Below(x, S)
    BY <1>4 DEF Below
  <2>2. IsFiniteSet(S \ {x}) /\ Cardinality(S \ {x}) = m - 1
    BY FS_RemoveElement
  <2> QED  BY <1>3, <2>1, <2>2, FS_Subset
<1>5. \A n \in S : n <= x
  BY <1>4
<1> QED  BY <1>5 DEF Max

LEMMA BothCounted ==
  ASSUME NEW A, NEW B, IsFiniteSet(A), IsFiniteSet(B), A \cap B = {}
  PROVE  /\ IsFiniteSet(A \cup B) /\ Cardinality(A) \in Nat /\ Cardinality(B) \in Nat
         /\ Cardinality(A \cup B) = Cardinality(A) + Cardinality(B)
<1>1. Cardinality(A) \in Nat /\ Cardinality(B) \in Nat /\ Cardinality({}) = 0
  BY FS_CardinalityType, FS_EmptySet
<1>2. /\ IsFiniteSet(A \cup B)
      /\ Cardinality(A \cup B) = Cardinality(A) + Cardinality(B) - Cardinality(A \cap B)
  BY FS_Union
<1>3. Cardinality(A \cap B) = 0
  BY <1>1
<1> QED  BY <1>1, <1>2, <1>3

(* Two sets, one before the other: the nth of one, then the nth of the other. *)
LEMMA NthOfBoth ==
  ASSUME NEW A \in SUBSET Nat, NEW B \in SUBSET Nat, IsFiniteSet(A), IsFiniteSet(B),
         \A a \in A, b \in B : a < b
  PROVE  /\ Cardinality(A) \in Nat /\ Cardinality(B) \in Nat /\ IsFiniteSet(A \cup B)
         /\ Cardinality(A \cup B) = Cardinality(A) + Cardinality(B)
         /\ \A n \in 1 .. Cardinality(A) : Nth(A \cup B, n) = Nth(A, n)
         /\ \A n \in 1 .. Cardinality(B) : Nth(A \cup B, Cardinality(A) + n) = Nth(B, n)
<1> DEFINE S == A \cup B
<1>1. Cardinality(A) \in Nat /\ Cardinality(B) \in Nat
  BY FS_CardinalityType
<1>2. A \cap B = {}
  OBVIOUS
<1>3. IsFiniteSet(S) /\ Cardinality(S) = Cardinality(A) + Cardinality(B)
  BY <1>1, <1>2, BothCounted
<1>4. ASSUME NEW n \in 1 .. Cardinality(A) PROVE Nth(S, n) = Nth(A, n)
  <2> DEFINE x == Nth(A, n)
  <2>1. x \in A /\ Cardinality(Below(x, A)) = n - 1
    BY NthIs
  <2> HIDE DEF x
  <2>2. Below(x, S) = Below(x, A) /\ x \in S
    <3>1. \A j \in B : ~(j < x)
      BY <2>1
    <3> QED  BY <2>1, <3>1 DEF Below
  <2>3. n \in 1 .. Cardinality(S)
    BY <1>1, <1>3
  <2> HIDE DEF S
  <2>4. S \in SUBSET Nat
    BY DEF S
  <2>5. Nth(S, n) = x
    BY <1>3, <2>1, <2>2, <2>3, <2>4, NthIs
  <2> QED  BY <2>5 DEF x
<1>5. ASSUME NEW n \in 1 .. Cardinality(B) PROVE Nth(S, Cardinality(A) + n) = Nth(B, n)
  <2> DEFINE x == Nth(B, n)
             k == Cardinality(A) + n
  <2>1. x \in B /\ Cardinality(Below(x, B)) = n - 1
    BY NthIs
  <2> HIDE DEF x
  <2>2. /\ Below(x, S) = A \cup Below(x, B) /\ A \cap Below(x, B) = {} /\ x \in S
        /\ Below(x, B) \in SUBSET B
    <3>1. (\A j \in A : j < x) /\ \A j \in B : j \notin A
      BY <2>1
    <3> QED  BY <2>1, <3>1 DEF Below
  <2>3. IsFiniteSet(Below(x, B))
    BY <2>2, FS_Subset
  <2>4. Cardinality(Below(x, S)) = k - 1
    <3>1. Cardinality(A \cup Below(x, B)) = Cardinality(A) + Cardinality(Below(x, B))
      BY <2>2, <2>3, BothCounted
    <3>2. Cardinality(Below(x, S)) = Cardinality(A \cup Below(x, B))
      BY <2>2
    <3> HIDE DEF S
    <3> QED  BY <1>1, <2>1, <3>1, <3>2
  <2>5. k \in 1 .. Cardinality(S)
    BY <1>1, <1>3
  <2> HIDE DEF S, k
  <2>6. S \in SUBSET Nat
    BY DEF S
  <2>7. IsFiniteSet(S)
    BY <1>3
  <2>8. \A y \in S : Cardinality(Below(y, S)) = k - 1 => Nth(S, k) = y
    BY <2>5, <2>6, <2>7, NthIs
  <2>9. Nth(S, k) = x
    BY <2>2, <2>4, <2>8
  <2> QED  BY <2>9 DEF x, k
<1> QED  BY <1>1, <1>3, <1>4, <1>5

-----------------------------------------------------------------------------
(* A transcript of a set of ids with their flags. *)

Flags == {"active", "inactive", "torn"}

LEMMA ListingIsTranscript ==
  ASSUME NEW S \in SUBSET Nat, IsFiniteSet(S), NEW flag, \A i \in S : flag[i] \in Flags
  PROVE  Listing(S, flag) \in Transcripts /\ Len(Listing(S, flag)) = Cardinality(S)
<1>1. Cardinality(S) \in Nat
  BY FS_CardinalityType
<1>2. \A n \in 1 .. Cardinality(S) : <<Nth(S, n), flag[Nth(S, n)]>> \in Nat \X Flags
  BY NthIs
<1> QED  BY <1>1, <1>2 DEF Listing, Transcripts, Flags

LEMMA SameListing ==
  ASSUME NEW S \in SUBSET Nat, IsFiniteSet(S), NEW flag, NEW other, \A i \in S : flag[i] = other[i]
  PROVE  Listing(S, flag) = Listing(S, other)
<1>1. \A n \in 1 .. Cardinality(S) : Nth(S, n) \in S
  BY NthIs
<1> QED  BY <1>1 DEF Listing

LEMMA ListingOfBoth ==
  ASSUME NEW A \in SUBSET Nat, NEW B \in SUBSET Nat, IsFiniteSet(A), IsFiniteSet(B),
         \A a \in A, b \in B : a < b, NEW flag, \A i \in A \cup B : flag[i] \in Flags
  PROVE  Listing(A \cup B, flag) = Listing(A, flag) \o Listing(B, flag)
<1> DEFINE S == A \cup B
           both == Listing(S, flag)
           first == Listing(A, flag)
           second == Listing(B, flag)
           a == Cardinality(A)
           b == Cardinality(B)
<1>1. /\ a \in Nat /\ b \in Nat /\ IsFiniteSet(S) /\ Cardinality(S) = a + b
      /\ \A n \in 1 .. a : Nth(S, n) = Nth(A, n)
      /\ \A n \in 1 .. b : Nth(S, a + n) = Nth(B, n)
  BY NthOfBoth
<1>2. first \in Transcripts /\ Len(first) = a /\ second \in Transcripts /\ Len(second) = b
  BY ListingIsTranscript
<1>3. both = [n \in 1 .. a + b |-> <<Nth(S, n), flag[Nth(S, n)]>>]
  BY <1>1 DEF Listing
<1>4. ASSUME NEW n \in 1 .. a PROVE both[n] = first[n]
  <2>1. n \in 1 .. a + b
    BY <1>1
  <2> QED  BY <1>1, <1>3, <2>1 DEF Listing
<1>5. ASSUME NEW n \in 1 .. b PROVE both[a + n] = second[n]
  <2>1. a + n \in 1 .. a + b
    BY <1>1
  <2> QED  BY <1>1, <1>3, <2>1 DEF Listing
<1> HIDE DEF first, second, a, b
<1>6. /\ first \in Seq(Nat \X Flags) /\ second \in Seq(Nat \X Flags)
      /\ Len(first) = a /\ Len(second) = b
  BY <1>2 DEF Transcripts, Flags
<1>7. /\ first \o second \in Seq(Nat \X Flags) /\ Len(first \o second) = a + b
      /\ \A n \in 1 .. a + b : (first \o second)[n] = IF n <= a THEN first[n] ELSE second[n - a]
  BY <1>6, ConcatProperties
<1>8. both \in Seq(Nat \X Flags) /\ Len(both) = a + b
  BY <1>1, ListingIsTranscript DEF Transcripts, Flags
<1>9. \A n \in 1 .. a + b : both[n] = (first \o second)[n]
  <2> TAKE n \in 1 .. a + b
  <2>1. CASE n <= a
    <3>1. n \in 1 .. a
      BY <1>1, <2>1
    <3> QED  BY <1>4, <1>7, <2>1, <3>1
  <2>2. CASE ~(n <= a)
    <3>1. n - a \in 1 .. b /\ a + (n - a) = n
      BY <1>1, <2>2
    <3> QED  BY <1>5, <1>7, <2>2, <3>1
  <2> QED  BY <2>1, <2>2
<1> HIDE DEF both
<1>10. both = first \o second
  BY <1>7, <1>8, <1>9, SeqEqual
<1> QED  BY <1>10 DEF both, first, second

-----------------------------------------------------------------------------
(* What a reading finds. *)

States == {"active", "inactive", "deleted"}
StateOf(t) == [i \in DOMAIN rows[t] |-> rows[t][i].state]
Newer(t, ids) == {i \in ids : i > last[t]}
Older(t, ids) == {i \in ids : i <= last[t]}

LEMMA RowsAre ==
  ASSUME HostTypes, NEW t \in Targets
  PROVE  /\ Len(rows[t]) \in Nat /\ DOMAIN rows[t] = 1 .. Len(rows[t])
         /\ \A i \in DOMAIN rows[t] : rows[t][i].session \in Nat /\ rows[t][i].state \in States
<1>1. rows[t] \in Seq([session : Nat, state : States])
  BY DEF HostTypes, States
<1>2. \A i \in 1 .. Len(rows[t]) : rows[t][i] \in [session : Nat, state : States]
  BY <1>1, ElementOfSeq
<1> QED  BY <1>1, <1>2

LEMMA FewIds ==
  ASSUME HostTypes, NEW t \in Targets, NEW ids \in SUBSET DOMAIN rows[t]
  PROVE  ids \in SUBSET Nat /\ IsFiniteSet(ids)
<1>1. DOMAIN rows[t] = 1 .. Len(rows[t]) /\ 1 \in Int /\ Len(rows[t]) \in Int
  BY RowsAre
<1>2. IsFiniteSet(DOMAIN rows[t])
  BY <1>1, FS_Interval
<1> QED  BY <1>1, <1>2, FS_Subset

LEMMA IdsAre ==
  ASSUME HostTypes, NEW t \in Targets, NEW n
  PROVE  /\ Ids(t, n) \in SUBSET DOMAIN rows[t] /\ Of(t, n) \in SUBSET DOMAIN rows[t]
         /\ \A i \in Ids(t, n) : rows[t][i].state \in {"active", "inactive"}
  BY RowsAre DEF Ids, Of, States

LEMMA RowsAreListed ==
  ASSUME HostTypes, NEW t \in Targets, NEW ids \in SUBSET DOMAIN rows[t]
  PROVE  MessageRows(t, ids) = Listing(ids, StateOf(t))
<1>1. \A n \in 1 .. Cardinality(ids) : Nth(ids, n) \in ids
  BY FewIds, NthIs
<1> QED  BY <1>1 DEF MessageRows, Listing, StateOf

LEMMA RowsAreTranscript ==
  ASSUME HostTypes, NEW t \in Targets, NEW n, NEW ids \in SUBSET Ids(t, n)
  PROVE  MessageRows(t, ids) \in Transcripts /\ (ids = {} => MessageRows(t, ids) = <<>>)
<1>1. ids \in SUBSET DOMAIN rows[t] /\ \A i \in ids : StateOf(t)[i] \in Flags
  BY IdsAre DEF StateOf, Flags
<1>2. ids \in SUBSET Nat /\ IsFiniteSet(ids)
  BY <1>1, FewIds
<1>3. MessageRows(t, ids) \in Transcripts /\ Len(MessageRows(t, ids)) = Cardinality(ids)
  BY <1>1, <1>2, RowsAreListed, ListingIsTranscript
<1>4. ids = {} => Len(MessageRows(t, ids)) = 0
  BY <1>3, FS_EmptySet
<1> QED  BY <1>3, <1>4 DEF Transcripts

LEMMA LastIsLast ==
  ASSUME HostTypes, HostInv, NEW t \in Targets,
         NEW m, m = MaxOf({SessionState(t, s)[3] : s \in 1 .. sessions[t]})
  PROVE  m \in 0 .. Len(rows[t]) /\ \A i \in Ids(t, sessions[t]) : i <= m
<1> DEFINE M == {SessionState(t, s)[3] : s \in 1 .. sessions[t]}
           bound == Len(rows[t])
<1>1. bound \in Nat /\ DOMAIN rows[t] = 1 .. bound
  BY RowsAre
<1>2. ASSUME NEW s PROVE SessionState(t, s)[3] = MaxOf(Of(t, s))
  BY DEF SessionState
<1>3. ASSUME NEW s
      PROVE  MaxOf(Of(t, s)) \in 0 .. bound /\ \A i \in Of(t, s) : i <= MaxOf(Of(t, s))
  <2>1. Of(t, s) \in SUBSET (1 .. bound)
    BY <1>1, IdsAre
  <2>2. Of(t, s) \in SUBSET Nat /\ IsFiniteSet(Of(t, s))
    BY IdsAre, FewIds
  <2>3. CASE Of(t, s) = {}
    BY <1>1, <2>3 DEF MaxOf
  <2>4. CASE Of(t, s) # {}
    BY <1>1, <2>1, <2>2, <2>4, Largest DEF MaxOf
  <2> QED  BY <2>3, <2>4
<1>4. M \in SUBSET (0 .. bound) /\ SessionState(t, 1)[3] \in M
  BY <1>2, <1>3 DEF HostInv, HostTypes
<1>5. M \in SUBSET Nat /\ IsFiniteSet(M) /\ M # {}
  <2>1. 0 \in Int /\ bound \in Int
    BY <1>1
  <2>2. IsFiniteSet(0 .. bound)
    BY <2>1, FS_Interval
  <2>3. 0 .. bound \subseteq Nat
    BY <1>1
  <2> HIDE DEF M, bound
  <2>4. M \subseteq 0 .. bound /\ M # {}
    BY <1>4
  <2>5. IsFiniteSet(M)
    BY <2>2, <2>4, FS_Subset
  <2> QED  BY <2>3, <2>4, <2>5
<1>6. m \in M /\ \A x \in M : x <= m
  <2> HIDE DEF M
  <2> QED  BY <1>5, Largest DEF MaxOf, M
<1>7. ASSUME NEW i \in Ids(t, sessions[t]) PROVE i <= m
  <2> DEFINE s == rows[t][i].session
  <2>1. s \in 1 .. sessions[t] /\ i \in Of(t, s) /\ i \in 1 .. bound
    BY <1>1, IdsAre DEF HostInv, Ids, Of
  <2> HIDE DEF s
  <2>2. i <= MaxOf(Of(t, s)) /\ MaxOf(Of(t, s)) <= m
    BY <1>2, <1>3, <1>6, <2>1
  <2>3. i \in Nat /\ MaxOf(Of(t, s)) \in Nat /\ m \in Nat
    BY <1>1, <1>3, <1>4, <1>6, <2>1
  <2> QED  BY <2>2, <2>3
<1> QED  BY <1>4, <1>6, <1>7

(* Equal counts: what is up to the position is what was read, with the same *)
(* flags.                                                                   *)
LEMMA NothingChanged ==
  ASSUME HostTypes, HostInv, NEW t \in Targets, NEW n, n = sessions[t], lineage[t] = n,
         DOMAIN states[t] = 1 .. n, IsAppendOnly(t), last[t] \in Nat,
         NEW ids \in SUBSET DOMAIN rows[t], NEW home \in [ids -> 1 .. n],
         NEW flag \in [ids -> {"active", "inactive"}], ReadAs(t, ids, home, flag)
  PROVE  /\ ids = Older(t, Ids(t, n))
         /\ \A i \in ids : flag[i] = rows[t][i].state
<1> DEFINE old == Older(t, Ids(t, n))
<1>1. old \in SUBSET ids
  BY DEF ReadAs, Older
<1>2. /\ Ids(t, n) \in SUBSET DOMAIN rows[t] /\ Ids(t, n) \in SUBSET Nat
      /\ IsFiniteSet(Ids(t, n)) /\ IsFiniteSet(ids)
  BY IdsAre, FewIds
<1>3. ASSUME NEW s \in 1 .. n
      PROVE  /\ In(ids, home, s) \in SUBSET old
             /\ \A i \in In(ids, home, s) : IsActive(t, i) <=> flag[i] = "active"
  <2> DEFINE all   == Of(t, s)
             older == Older(t, all)
             newer == Newer(t, all)
             on    == OnlyActive(t, all)
             onOld == OnlyActive(t, older)
             onNew == OnlyActive(t, newer)
             then  == In(ids, home, s)
             flagged == Flagged(ids, home, flag, s)
  <2>1. all \in SUBSET Ids(t, n) /\ s \in Nat /\ n \in Nat
    BY DEF Of, Ids, HostTypes
  <2>2. /\ all = older \cup newer /\ older \cap newer = {}
        /\ on = onOld \cup onNew /\ onOld \cap onNew = {}
    <3>1. \A i \in all : (i <= last[t] \/ i > last[t]) /\ ~(i <= last[t] /\ i > last[t])
      BY <1>2, <2>1
    <3> QED  BY <3>1 DEF Older, Newer, OnlyActive
  <2>3. /\ older \in SUBSET Ids(t, n) /\ newer \in SUBSET Ids(t, n)
        /\ onOld \in SUBSET Ids(t, n) /\ onNew \in SUBSET Ids(t, n)
        /\ then \in SUBSET ids /\ flagged \in SUBSET ids
    BY <2>1 DEF Older, Newer, OnlyActive, In, Flagged
  <2>4. /\ older \in SUBSET then /\ onOld \in SUBSET flagged
        /\ older \in SUBSET old
    <3>1. older \in SUBSET old
      BY <2>1 DEF Older
    <3>2. \A i \in older : i \in ids /\ rows[t][i].session = s /\ home[i] = s
      BY <1>1, <3>1 DEF ReadAs, Older, Of
    <3>3. \A i \in onOld : flag[i] = "active" /\ i \in older
      BY <3>2 DEF ReadAs, OnlyActive, IsActive
    <3> QED  BY <3>1, <3>2, <3>3 DEF In, Flagged
  <2>5. /\ states[t][s][1] = Cardinality(then) /\ states[t][s][4] = Cardinality(flagged)
    BY DEF ReadAs
  <2>6. newer = {i \in Of(t, s) : i > last[t]}
    BY DEF Newer
  <2>7. /\ Cardinality(all) = Cardinality(then) + Cardinality(newer)
        /\ Cardinality(on) = Cardinality(flagged) + Cardinality(onNew)
    <3>1. /\ SessionState(t, s)[1] = states[t][s][1] + Cardinality(newer)
          /\ SessionState(t, s)[4] = states[t][s][4] + Cardinality(onNew)
      BY <2>6 DEF IsAppendOnly
    <3>2. SessionState(t, s)[1] = Cardinality(all) /\ SessionState(t, s)[4] = Cardinality(on)
      BY DEF SessionState
    <3> QED  BY <2>5, <3>1, <3>2
  <2> HIDE DEF all, older, newer, on, onOld, onNew, then, flagged, old
  <2>8. /\ IsFiniteSet(older) /\ IsFiniteSet(newer) /\ IsFiniteSet(onOld)
        /\ IsFiniteSet(onNew) /\ IsFiniteSet(then) /\ IsFiniteSet(flagged)
    BY <1>2, <2>3, FS_Subset
  <2>9. Cardinality(older) = Cardinality(then)
    <3>1. Cardinality(all) = Cardinality(older) + Cardinality(newer)
      BY <2>2, <2>8, BothCounted
    <3>2. Cardinality(older) \in Nat /\ Cardinality(newer) \in Nat /\ Cardinality(then) \in Nat
      BY <2>8, FS_CardinalityType
    <3> QED  BY <2>7, <3>1, <3>2
  <2>10. Cardinality(onOld) = Cardinality(flagged)
    <3>1. Cardinality(on) = Cardinality(onOld) + Cardinality(onNew)
      BY <2>2, <2>8, BothCounted
    <3>2. Cardinality(onOld) \in Nat /\ Cardinality(onNew) \in Nat /\ Cardinality(flagged) \in Nat
      BY <2>8, FS_CardinalityType
    <3> QED  BY <2>7, <3>1, <3>2
  <2>11. older = then /\ onOld = flagged
    BY <2>4, <2>8, <2>9, <2>10, FS_Subset
  <2>12. then \in SUBSET old
    BY <2>4, <2>11
  <2>13. \A i \in then : IsActive(t, i) <=> i \in onOld
    BY <2>11 DEF onOld, OnlyActive
  <2>14. \A i \in then : flag[i] = "active" <=> i \in flagged
    BY DEF then, flagged, In, Flagged
  <2> QED  BY <2>11, <2>12, <2>13, <2>14 DEF then
<1>4. ASSUME NEW i \in ids PROVE i \in old /\ flag[i] = rows[t][i].state
  <2>1. home[i] \in 1 .. n /\ i \in In(ids, home, home[i]) /\ flag[i] \in {"active", "inactive"}
    BY DEF In
  <2>2. i \in old /\ (IsActive(t, i) <=> flag[i] = "active")
    BY <1>3, <2>1
  <2>3. rows[t][i].state \in {"active", "inactive"}
    BY <2>2, IdsAre DEF Older
  <2> QED  BY <2>1, <2>2, <2>3 DEF IsActive
<1> QED  BY <1>1, <1>4

(* So the new messages follow what was read. *)
LEMMA NewRowsFollow ==
  ASSUME HostTypes, HostInv, NEW t \in Targets, NEW n, n = sessions[t], lineage[t] = n,
         IsAppendOnly(t), last[t] \in Nat, mode[t] = "incremental", ReaderOf(t)
  PROVE  MessageRows(t, Ids(t, n)) = seen[t] \o MessageRows(t, Newer(t, Ids(t, n)))
<1> DEFINE old == Older(t, Ids(t, n))
           new == Newer(t, Ids(t, n))
<1>1. PICK ids \in SUBSET DOMAIN rows[t] : \E home \in [ids -> 1 .. n],
        flag \in [ids -> {"active", "inactive"}] : ReadAs(t, ids, home, flag)
  BY DEF ReaderOf
<1>2. PICK home \in [ids -> 1 .. n], flag \in [ids -> {"active", "inactive"}] :
        ReadAs(t, ids, home, flag)
  BY <1>1
<1>3. ids = old /\ \A i \in ids : flag[i] = rows[t][i].state
  <2>1. DOMAIN states[t] = 1 .. n
    BY DEF ReaderOf
  <2> QED  BY <1>2, <2>1, NothingChanged
<1>4. Ids(t, n) \in SUBSET DOMAIN rows[t] /\ Ids(t, n) \in SUBSET Nat
  BY IdsAre, FewIds
<1>5. /\ old \in SUBSET DOMAIN rows[t] /\ new \in SUBSET DOMAIN rows[t]
      /\ Ids(t, n) = old \cup new /\ \A a \in old, b \in new : a < b
  <2>1. \A i \in Ids(t, n) : i \in Nat /\ (i <= last[t] \/ i > last[t])
    BY <1>4
  <2> QED  BY <1>4, <2>1 DEF Older, Newer
<1>6. /\ old \in SUBSET Nat /\ IsFiniteSet(old) /\ new \in SUBSET Nat /\ IsFiniteSet(new)
  BY <1>5, FewIds
<1>7. seen[t] = Listing(old, StateOf(t))
  <2>1. seen[t] = Listing(old, flag)
    BY <1>2, <1>3 DEF ReadAs
  <2>2. \A i \in old : flag[i] = StateOf(t)[i]
    BY <1>3, <1>5 DEF StateOf
  <2> HIDE DEF old
  <2> QED  BY <1>6, <2>1, <2>2, SameListing
<1>8. \A i \in old \cup new : StateOf(t)[i] \in Flags
  BY <1>5, IdsAre DEF StateOf, Flags
<1> HIDE DEF old, new
<1>9. Listing(old \cup new, StateOf(t)) = Listing(old, StateOf(t)) \o Listing(new, StateOf(t))
  <2>1. \A a \in old, b \in new : a < b
    BY <1>5
  <2> QED  BY <1>6, <1>8, <2>1, ListingOfBoth, ZenonT(30)
<1>10. /\ MessageRows(t, Ids(t, n)) = Listing(old \cup new, StateOf(t))
       /\ MessageRows(t, new) = Listing(new, StateOf(t))
  BY <1>4, <1>5, RowsAreListed
<1> QED  BY <1>7, <1>9, <1>10 DEF new

-----------------------------------------------------------------------------
(* The host's steps. *)

HostKeeps(t) ==
  /\ DOMAIN rows[t] \subseteq DOMAIN rows'[t]
  /\ \A i \in DOMAIN rows'[t] : i \in DOMAIN rows[t] \/ (i \in Nat /\ i > Len(rows[t]))
  /\ \A i \in DOMAIN rows[t] :
       /\ rows'[t][i].session = rows[t][i].session
       /\ rows'[t][i].state = rows[t][i].state \/ rows[t][i].state = "active"

(* A reading stays true of what the host makes of the messages. *)
LEMMA ReaderStays ==
  ASSUME HostTypes, ReaderTypes, NEW t \in Targets, ReaderOf(t), HostKeeps(t),
         mode'[t] = mode[t], lineage'[t] = lineage[t], states'[t] = states[t],
         last'[t] = last[t], seen'[t] = seen[t]
  PROVE  ReaderOf(t)'
<1> SUFFICES ASSUME mode'[t] = "incremental" PROVE ReaderOf(t)'
  BY DEF ReaderOf
<1>1. PICK ids \in SUBSET DOMAIN rows[t] : \E home \in [ids -> 1 .. lineage[t]],
        flag \in [ids -> {"active", "inactive"}] : ReadAs(t, ids, home, flag)
  BY DEF ReaderOf
<1>2. PICK home \in [ids -> 1 .. lineage[t]], flag \in [ids -> {"active", "inactive"}] :
        ReadAs(t, ids, home, flag)
  BY <1>1
<1>3. \A i \in ids : /\ i <= last'[t] /\ home[i] = rows'[t][i].session
                     /\ rows'[t][i].state # "inactive" => flag[i] = "active"
  BY <1>2 DEF ReadAs, HostKeeps
<1>4. \A i \in DOMAIN rows'[t] :
        rows'[t][i].session <= lineage'[t] /\ rows'[t][i].state # "deleted" /\ i <= last'[t] => i \in ids
  <2> TAKE i \in DOMAIN rows'[t]
  <2> HAVE rows'[t][i].session <= lineage'[t] /\ rows'[t][i].state # "deleted" /\ i <= last'[t]
  <2>1. last[t] \in Nat /\ last[t] <= Len(rows[t]) /\ Len(rows[t]) \in Nat
    BY RowsAre DEF ReaderTypes
  <2>2. i \in DOMAIN rows[t]
    <3>1. CASE i \in Nat /\ i > Len(rows[t])
      <4>1. i <= last[t]
        OBVIOUS
      <4> QED  BY <2>1, <3>1, <4>1
    <3> QED  BY <3>1 DEF HostKeeps
  <2>3. rows[t][i].session <= lineage[t] /\ rows[t][i].state # "deleted" /\ i <= last[t]
    BY <2>2 DEF HostKeeps
  <2> QED  BY <1>2, <2>2, <2>3 DEF ReadAs, Ids
<1>5. ReadAs(t, ids, home, flag)'
  BY <1>2, <1>3, <1>4 DEF ReadAs, Ids
<1>6. ids \in SUBSET DOMAIN rows'[t]
  BY DEF HostKeeps
<1>7. /\ home \in [ids -> 1 .. lineage'[t]] /\ lineage'[t] # 0
      /\ DOMAIN states'[t] = 1 .. lineage'[t]
  BY DEF ReaderOf
<1> QED  BY <1>5, <1>6, <1>7 DEF ReaderOf

LEMMA NothingHosted ==
  ASSUME rows' = rows, NEW t \in Targets
  PROVE  HostKeeps(t)
  BY DEF HostKeeps

LEMMA ReaderInvStays ==
  ASSUME HostTypes, ReaderTypes, ReaderInv, \A t \in Targets : HostKeeps(t),
         UNCHANGED <<mode, lineage, states, last, seen>>
  PROVE  ReaderInv'
<1>1. ASSUME NEW t \in Targets PROVE ReaderOf(t)'
  BY ReaderStays DEF ReaderInv
<1> QED  BY <1>1 DEF ReaderInv

(* What a thread is to write stays right while it writes. *)
LEMMA FlushInvStays ==
  ASSUME FlushInv, ThreadTypes, UNCHANGED <<seen, mode, job>>, clean' \subseteq clean,
         \A t \in clean' : file'[t] = file[t],
         \A f \in Threads : pc'[f] = "writing" <=> pc[f] = "writing",
         stopping' = stopping \/ pc[Runner] = "idle"
  PROVE  FlushInv'
<1>1. ASSUME NEW f \in Threads, pc'[f] = "writing" PROVE JobIs(f, job[f], job[f].target)'
  <2> DEFINE j == job[f]
             t == job[f].target
  <2>1. pc[f] = "writing" /\ JobIs(f, j, t) /\ job' = job
    BY <1>1 DEF FlushInv, JobInv
  <2>2. f = Runner => stopping' = stopping
    BY <2>1
  <2>3. t \in clean' => t \in clean /\ file'[t] = file[t]
    OBVIOUS
  <2>4. JobIs(f, j, t)'
    BY <2>1, <2>2, <2>3 DEF JobIs, Appended
  <2> QED  BY <2>1, <2>4
<1>2. TranscriptIsWhatWasRead'
  BY DEF FlushInv, TranscriptIsWhatWasRead, NoWriter
<1> QED  BY <1>1, <1>2 DEF FlushInv, JobInv

LEMMA HostKeepsInv ==
  ASSUME IInv, NEW t \in Targets,
         \/ HostAppends(t) \/ HostCompacts(t)
         \/ \E i \in DOMAIN rows[t] : HostEdits(t, i, "inactive") \/ HostEdits(t, i, "deleted")
  PROVE  IInv'
<1> USE DEF IInv, Types
<1>1. UNCHANGED <<readerVars, targetVars, fileVars, threadVars, stopping, failures, seen>>
  BY DEF HostAppends, HostCompacts, HostEdits
<1>2. /\ HostTypes' /\ HostInv' /\ \A u \in Targets : HostKeeps(u)
      /\ \A u \in Targets : lineage[u] <= sessions'[u] /\ last[u] <= Len(rows'[u])
  <2>1. CASE HostAppends(t)
    <3> DEFINE row == [session |-> sessions[t], state |-> "active"]
    <3>1. /\ rows' = [rows EXCEPT ![t] = Append(rows[t], row)]
          /\ sessions' = sessions /\ edits' = edits
      BY <2>1 DEF HostAppends
    <3>2. row \in [session : Nat, state : {"active", "inactive", "deleted"}]
      BY DEF HostTypes
    <3>3. /\ rows[t] \in Seq([session : Nat, state : {"active", "inactive", "deleted"}])
          /\ row.session = sessions[t] /\ sessions[t] \in Nat /\ sessions[t] >= 1
      BY DEF HostTypes, HostInv
    <3> HIDE DEF row
    <3>4. /\ Append(rows[t], row) \in Seq([session : Nat, state : {"active", "inactive", "deleted"}])
          /\ Len(Append(rows[t], row)) = Len(rows[t]) + 1
          /\ \A i \in 1 .. Len(rows[t]) : Append(rows[t], row)[i] = rows[t][i]
          /\ Append(rows[t], row)[Len(rows[t]) + 1] = row
      BY <3>2, <3>3, AppendProperties
    <3>5. /\ DOMAIN rows[t] = 1 .. Len(rows[t]) /\ Len(rows[t]) \in Nat
          /\ DOMAIN Append(rows[t], row) = 1 .. Len(rows[t]) + 1
      BY <3>3, <3>4
    <3>6. \A u \in Targets : rows'[u] = IF u = t THEN Append(rows[t], row) ELSE rows[u]
      BY <3>1 DEF HostTypes
    <3>7. HostTypes'
      BY <3>1, <3>4 DEF HostTypes
    <3>8. \A i \in DOMAIN Append(rows[t], row) : Append(rows[t], row)[i].session \in 1 .. sessions[t]
      BY <3>3, <3>4, <3>5 DEF HostInv
    <3>9. HostInv'
      BY <3>1, <3>6, <3>8 DEF HostInv
    <3>10. ASSUME NEW u \in Targets PROVE HostKeeps(u)
      <4>1. CASE u = t
        <5>1. rows'[u] = Append(rows[t], row)
          BY <3>6, <4>1
        <5>2. \A i \in 1 .. Len(rows[t]) + 1 : i \in 1 .. Len(rows[t]) \/ i > Len(rows[t])
          BY <3>5
        <5>3. \A i \in 1 .. Len(rows[t]) : i \in 1 .. Len(rows[t]) + 1
          BY <3>5
        <5> QED  BY <3>4, <3>5, <4>1, <5>1, <5>2, <5>3 DEF HostKeeps
      <4>2. CASE u # t
        BY <3>6, <4>2 DEF HostKeeps
      <4> QED  BY <4>1, <4>2
    <3>11. ASSUME NEW u \in Targets PROVE last[u] <= Len(rows'[u])
      <4>1. last[u] \in Nat /\ last[u] <= Len(rows[u])
        BY DEF ReaderTypes
      <4>2. CASE u = t
        <5>1. Len(rows'[u]) = Len(rows[t]) + 1
          BY <3>4, <3>6, <4>2
        <5> QED  BY <3>5, <4>1, <4>2, <5>1
      <4>3. CASE u # t
        BY <3>6, <4>1, <4>3
      <4> QED  BY <4>2, <4>3
    <3> QED  BY <3>1, <3>7, <3>9, <3>10, <3>11 DEF ReaderTypes
  <2>2. CASE HostCompacts(t)
    <3>1. sessions' = [sessions EXCEPT ![t] = sessions[t] + 1] /\ rows' = rows /\ edits' = edits
      BY <2>2 DEF HostCompacts
    <3>2. \A u \in Targets : sessions'[u] \in Nat /\ sessions[u] \in Nat /\ sessions'[u] >= sessions[u]
      BY <3>1 DEF HostTypes
    <3>3. HostTypes'
      BY <3>1 DEF HostTypes
    <3>4. \A u \in Targets : \A n \in Nat : n <= sessions[u] => n <= sessions'[u]
      BY <3>2
    <3>5. HostInv'
      BY <3>1, <3>2 DEF HostInv
    <3> QED  BY <3>1, <3>3, <3>4, <3>5, NothingHosted DEF ReaderTypes
  <2>3. ASSUME NEW i \in DOMAIN rows[t], NEW state \in {"inactive", "deleted"}, HostEdits(t, i, state)
        PROVE  /\ HostTypes' /\ HostInv' /\ \A u \in Targets : HostKeeps(u)
               /\ \A u \in Targets : lineage[u] <= sessions'[u] /\ last[u] <= Len(rows'[u])
    <3> DEFINE R == [session : Nat, state : {"active", "inactive", "deleted"}]
               row == [rows[t][i] EXCEPT !.state = state]
               new == [rows[t] EXCEPT ![i] = row]
    <3>1. /\ rows' = [rows EXCEPT ![t] = new] /\ sessions' = sessions
          /\ edits' = edits + 1 /\ edits < MaxEdits /\ rows[t][i].state = "active"
      BY <2>3 DEF HostEdits, IsActive
    <3>2. rows[t] \in Seq(R) /\ i \in 1 .. Len(rows[t]) /\ rows[t][i] \in R
      <4>1. rows[t] \in Seq(R)
        BY DEF HostTypes
      <4>2. i \in 1 .. Len(rows[t])
        BY <4>1
      <4> QED  BY <4>1, <4>2, ElementOfSeq
    <3>3. row \in R /\ row.session = rows[t][i].session
      BY <3>2
    <3> HIDE DEF row, R
    <3>4. /\ new \in Seq(R) /\ Len(new) = Len(rows[t])
          /\ \A k \in 1 .. Len(rows[t]) : new[k] = IF k = i THEN row ELSE rows[t][k]
      BY <3>2, <3>3, ExceptSeq
    <3> HIDE DEF new
    <3>5. DOMAIN rows[t] = 1 .. Len(rows[t]) /\ DOMAIN new = 1 .. Len(rows[t])
      BY <3>2, <3>4
    <3>6. \A u \in Targets : rows'[u] = IF u = t THEN new ELSE rows[u]
      BY <3>1 DEF HostTypes
    <3>7. HostTypes'
      <4>1. edits' \in 0 .. MaxEdits
        BY <3>1, BoundsAssumption DEF HostTypes
      <4>2. rows' \in [Targets -> Seq(R)]
        BY <3>1, <3>4 DEF HostTypes, R
      <4> QED  BY <3>1, <4>1, <4>2 DEF HostTypes, R
    <3>8. HostInv'
      BY <3>1, <3>3, <3>4, <3>5, <3>6 DEF HostInv
    <3>9. \A u \in Targets : HostKeeps(u)
      BY <3>1, <3>3, <3>4, <3>5, <3>6 DEF HostKeeps
    <3> QED  BY <3>1, <3>4, <3>6, <3>7, <3>8, <3>9 DEF ReaderTypes
  <2> QED  BY <2>1, <2>2, <2>3
<1>3. ReaderInv'
  BY <1>1, <1>2, ReaderInvStays DEF readerVars
<1>4. FlushInv'
  BY <1>1, FlushInvStays DEF readerVars, fileVars, threadVars, FlushInv
<1>5. ReaderTypes'
  BY <1>1, <1>2 DEF readerVars, ReaderTypes
<1>6. FileTypes' /\ ThreadTypes' /\ LockInv' /\ FallbackInv'
  BY <1>1 DEF readerVars, targetVars, fileVars, threadVars, FileTypes, ThreadTypes, LockInv, FallbackInv
<1> QED  BY <1>2, <1>3, <1>4, <1>5, <1>6

-----------------------------------------------------------------------------
(* The steps of a thread that has no lock. *)

LEMMA TurnKeepsInv ==
  ASSUME IInv, NEW f \in Threads, NEW p \in Places \ Flushing, NEW T, pc[f] \notin Flushing,
         pc' = [pc EXCEPT ![f] = p], todo' = [todo EXCEPT ![f] = T],
         T \subseteq known', p = "idle" => T = {},
         UNCHANGED <<hostVars, source, mode, lineage, states, last, tsig, seen, fileVars, job>>,
         known \subseteq known', known' \subseteq Targets, active' \subseteq known',
         version' \in [Targets -> Nat], closed' \in BOOLEAN, stopping' \in BOOLEAN,
         failures' \in 0..MaxFailures, stopping' = stopping \/ pc[Runner] = "idle"
  PROVE  IInv'
<1> USE DEF IInv, Types
<1>1. UNCHANGED <<rows, sessions, edits, file, meta, msig, clean>>
  BY DEF hostVars, fileVars
<1>2. \A g \in Threads : pc'[g] = IF g = f THEN p ELSE pc[g]
  BY DEF ThreadTypes
<1>3. \A g \in Threads : /\ pc'[g] \in Flushing <=> pc[g] \in Flushing
                         /\ pc'[g] = "writing" <=> pc[g] = "writing"
                         /\ pc'[g] = "reading" <=> pc[g] = "reading"
  BY <1>2 DEF Flushing
<1>4. ThreadTypes'
  <2>1. pc' \in [Threads -> Places]
    BY DEF ThreadTypes
  <2>2. /\ todo' \in [Threads -> SUBSET known']
        /\ \A g \in Threads : todo'[g] = IF g = f THEN T ELSE todo[g]
    BY DEF ThreadTypes
  <2>3. job[f] = Nothing
    BY DEF ThreadTypes, Flushing
  <2>4. ASSUME NEW g \in Threads
        PROVE  /\ (pc'[g] \in {"reading", "writing"}) <=> (job'[g] # Nothing)
               /\ job'[g] # Nothing => job'[g].target \in todo'[g]
               /\ pc'[g] = "idle" => todo'[g] = {}
    BY <1>2, <1>3, <2>2, <2>3 DEF ThreadTypes
  <2> QED  BY <2>1, <2>2, <2>4 DEF ThreadTypes
<1>5. HostTypes' /\ HostInv' /\ FallbackInv'
  BY <1>1 DEF HostTypes, HostInv, FallbackInv
<1>6. LockInv'
  BY <1>3 DEF LockInv
<1>7. ReaderTypes' /\ FileTypes'
  BY <1>1 DEF ReaderTypes, FileTypes
<1>8. ReaderInv'
  BY <1>1, NothingHosted, ReaderInvStays
<1>9. FlushInv'
  BY <1>1, <1>3, FlushInvStays DEF FlushInv
<1> QED  BY <1>4, <1>5, <1>6, <1>7, <1>8, <1>9

LEMMA ReportKeepsInv ==
  ASSUME IInv, NEW f \in Threads, NEW t \in Targets, NEW on \in BOOLEAN, Report(f, t, on)
  PROVE  IInv'
<1>1. /\ pc[f] = "idle" /\ pc' = [pc EXCEPT ![f] = "waiting"] /\ todo' = [todo EXCEPT ![f] = {t}]
      /\ UNCHANGED <<hostVars, source, mode, lineage, states, last, tsig, seen, fileVars, job>>
      /\ UNCHANGED <<closed, stopping, failures>>
  BY DEF Report, Goto, readerVars
<1>2. /\ known \subseteq known' /\ known' \subseteq Targets /\ active' \subseteq known'
      /\ {t} \subseteq known' /\ version' \in [Targets -> Nat]
  BY DEF Report, IInv, Types, FileTypes
<1>3. closed \in BOOLEAN /\ stopping \in BOOLEAN /\ failures \in 0..MaxFailures
  BY DEF IInv, Types, ReaderTypes, ThreadTypes
<1>4. "waiting" \in Places \ Flushing /\ pc[f] \notin Flushing /\ "waiting" # "idle"
  BY <1>1 DEF Places, Flushing
<1>5. /\ closed' \in BOOLEAN /\ stopping' \in BOOLEAN /\ failures' \in 0..MaxFailures
      /\ stopping' = stopping
  BY <1>1, <1>3
<1> QED  BY <1>1, <1>2, <1>4, <1>5, TurnKeepsInv

LEMMA TickKeepsInv == IInv /\ Tick => IInv'
<1> SUFFICES ASSUME IInv, Tick PROVE IInv'
  OBVIOUS
<1>1. /\ pc[Loop] = "idle" /\ pc' = [pc EXCEPT ![Loop] = "waiting"]
      /\ todo' = [todo EXCEPT ![Loop] = active] /\ Loop \in Threads
      /\ UNCHANGED <<hostVars, source, mode, lineage, states, last, tsig, seen, fileVars, job>>
      /\ UNCHANGED <<closed, stopping, failures, known, active, version>>
  BY DEF Tick, Goto, readerVars, targetVars, Threads
<1>2. /\ known \subseteq Targets /\ active \subseteq known /\ version \in [Targets -> Nat]
      /\ closed \in BOOLEAN /\ stopping \in BOOLEAN /\ failures \in 0..MaxFailures
  BY DEF IInv, Types, FileTypes, ReaderTypes, ThreadTypes
<1> QED  BY <1>1, <1>2, TurnKeepsInv DEF Places, Flushing

LEMMA EndKeepsInv ==
  IInv /\ (Stop \/ StartLastFlush \/ LastFlushTimesOut \/ Close \/ Finish \/ ExportFails) => IInv'
<1> SUFFICES ASSUME IInv, Stop \/ StartLastFlush \/ LastFlushTimesOut \/ Close \/ Finish \/ ExportFails
             PROVE  IInv'
  OBVIOUS
<1>1. /\ known \subseteq Targets /\ active \subseteq known /\ version \in [Targets -> Nat]
      /\ closed \in BOOLEAN /\ stopping \in BOOLEAN /\ failures \in 0..MaxFailures
      /\ todo \in [Threads -> SUBSET known] /\ Runner \in Threads
  BY DEF IInv, Types, FileTypes, ReaderTypes, ThreadTypes, Threads
<1>2. \E p \in Places \ Flushing, T \in SUBSET known :
        /\ pc[Runner] \notin Flushing /\ pc' = [pc EXCEPT ![Runner] = p] /\ p # "idle"
        /\ todo' = [todo EXCEPT ![Runner] = T]
  <2>1. todo = [todo EXCEPT ![Runner] = todo[Runner]] /\ todo[Runner] \in SUBSET known
    BY <1>1
  <2>2. CASE Stop
    BY <2>1, <2>2 DEF Stop, Goto, Places, Flushing
  <2>3. CASE StartLastFlush
    BY <1>1, <2>3 DEF StartLastFlush, Goto, Places, Flushing
  <2>4. CASE LastFlushTimesOut
    BY <1>1, <2>4 DEF LastFlushTimesOut, Goto, Places, Flushing
  <2>5. CASE Close
    BY <1>1, <2>5 DEF Close, Goto, Places, Flushing
  <2>6. CASE Finish
    BY <2>1, <2>6 DEF Finish, Goto, Places, Flushing
  <2>7. CASE ExportFails
    BY <2>1, <2>7 DEF ExportFails, Goto, Places, Flushing
  <2> QED  BY <2>2, <2>3, <2>4, <2>5, <2>6, <2>7
<1>3. /\ UNCHANGED <<hostVars, source, mode, lineage, states, last, tsig, seen, fileVars, job>>
      /\ UNCHANGED <<known, active, version>>
      /\ closed' \in BOOLEAN /\ stopping' \in BOOLEAN /\ failures' \in 0..MaxFailures
      /\ stopping' = stopping \/ pc[Runner] = "idle"
  <2>1. failures' = failures \/ (failures < MaxFailures /\ failures' = failures + 1)
    BY DEF Stop, StartLastFlush, LastFlushTimesOut, Close, Finish, ExportFails
  <2>2. failures' \in 0..MaxFailures
    BY <1>1, <2>1, BoundsAssumption
  <2>3. (stopping' = stopping \/ (pc[Runner] = "idle" /\ stopping' = TRUE)) /\ (closed' = closed \/ closed' = TRUE)
    BY DEF Stop, StartLastFlush, LastFlushTimesOut, Close, Finish, ExportFails, readerVars
  <2>4. /\ UNCHANGED <<hostVars, source, mode, lineage, states, last, tsig, seen, fileVars, job>>
        /\ UNCHANGED <<known, active, version>>
    BY DEF Stop, StartLastFlush, LastFlushTimesOut, Close, Finish, ExportFails, readerVars,
       targetVars, threadVars
  <2> QED  BY <1>1, <2>2, <2>3, <2>4
<1>4. PICK p \in Places \ Flushing, T \in SUBSET known :
        /\ pc[Runner] \notin Flushing /\ pc' = [pc EXCEPT ![Runner] = p] /\ p # "idle"
        /\ todo' = [todo EXCEPT ![Runner] = T]
  BY <1>2
<1>5. T \subseteq known'
  BY <1>3
<1> QED  BY <1>1, <1>3, <1>4, <1>5, TurnKeepsInv

(* An export after the last flush, maybe while a late report's flush writes. *)
LEMMA ExportKeepsInv ==
  ASSUME IInv, NEW t \in Targets, ExportMissing(t)
  PROVE  IInv'
<1> USE DEF IInv, Types
<1>1. /\ UNCHANGED <<hostVars, readerVars, targetVars, msig, pc, job, stopping, failures, seen>>
      /\ pc[Runner] = "exporting" /\ t \in todo[Runner]
      /\ todo' = [todo EXCEPT ![Runner] = todo[Runner] \ {t}]
  BY DEF ExportMissing
<1>2. Runner \in Threads /\ t \in known
  BY <1>1 DEF ThreadTypes, Threads
<1>3. /\ file' \in [Targets -> Exports] /\ meta' \subseteq known /\ clean' \subseteq clean
      /\ \A u \in clean' : file'[u] = file[u]
  <2>1. CASE HasFiles(t)
    BY <2>1 DEF ExportMissing, FileTypes, FlushInv
  <2>2. CASE ~HasFiles(t)
    <3>1. PICK messages \in {MessageRows(t, Ids(t, 1)), <<>>} :
            /\ file' = [file EXCEPT ![t] = messages] /\ meta' = meta \cup {t}
            /\ clean' = clean \ {t}
      BY <2>2 DEF ExportMissing
    <3>2. messages \in Exports
      BY RowsAreTranscript DEF Exports, Transcripts
    <3>3. \A u \in clean' : file'[u] = file[u]
      BY <3>1 DEF FileTypes
    <3> QED  BY <1>2, <3>1, <3>2, <3>3 DEF FileTypes, FlushInv
  <2> QED  BY <2>1, <2>2
<1>4. ThreadTypes'
  <2>1. todo' \in [Threads -> SUBSET known]
    BY <1>1, <1>2 DEF ThreadTypes
  <2>2. job[Runner] = Nothing
    BY <1>1, <1>2 DEF ThreadTypes
  <2>3. \A g \in Threads : g # Runner => todo'[g] = todo[g]
    BY <1>1 DEF ThreadTypes
  <2> QED  BY <1>1, <2>1, <2>2, <2>3 DEF ThreadTypes, targetVars
<1>5. FlushInv'
  BY <1>1, <1>3, FlushInvStays DEF readerVars
<1>6. HostTypes' /\ HostInv' /\ FallbackInv' /\ LockInv' /\ ReaderTypes' /\ FileTypes'
  BY <1>1, <1>3 DEF HostTypes, HostInv, FallbackInv, LockInv, ReaderTypes, FileTypes, hostVars,
     readerVars, targetVars
<1>7. ReaderInv'
  BY <1>1, NothingHosted, ReaderInvStays DEF hostVars, readerVars
<1> QED  BY <1>4, <1>5, <1>6, <1>7

-----------------------------------------------------------------------------
(* The steps of the thread that flushes. *)

Alone(f) == \A g \in Threads : g # f => pc[g] \notin Flushing

LEMMA FlusherIsAlone ==
  ASSUME LockInv, NEW f \in Threads, pc[f] \in Flushing
  PROVE  Alone(f)
  BY DEF LockInv, Alone

LEMMA FlusherMoves ==
  ASSUME ThreadTypes, NEW f \in Threads, Alone(f), NEW p \in Places, NEW T \in SUBSET known,
         NEW j \in Jobs \cup {Nothing}, p \in {"reading", "writing"} <=> j # Nothing,
         j # Nothing => j.target \in T, p = "idle" => T = {},
         pc' = [pc EXCEPT ![f] = p], todo' = [todo EXCEPT ![f] = T], job' = [job EXCEPT ![f] = j],
         known' = known, stopping' = stopping, failures' \in 0..MaxFailures
  PROVE  /\ ThreadTypes' /\ LockInv' /\ pc'[f] = p /\ job'[f] = j
         /\ \A g \in Threads : g # f => pc'[g] \notin Flushing
<1>1. \A g \in Threads : /\ pc'[g] = IF g = f THEN p ELSE pc[g]
                         /\ todo'[g] = IF g = f THEN T ELSE todo[g]
                         /\ job'[g] = IF g = f THEN j ELSE job[g]
  BY DEF ThreadTypes
<1>2. /\ pc' \in [Threads -> Places] /\ todo' \in [Threads -> SUBSET known]
      /\ job' \in [Threads -> Jobs \cup {Nothing}]
  BY DEF ThreadTypes
<1>3. ASSUME NEW g \in Threads
      PROVE  /\ (pc'[g] \in {"reading", "writing"}) <=> (job'[g] # Nothing)
             /\ job'[g] # Nothing => job'[g].target \in todo'[g]
             /\ pc'[g] = "idle" => todo'[g] = {}
  BY <1>1 DEF ThreadTypes
<1>4. ThreadTypes'
  BY <1>2, <1>3 DEF ThreadTypes
<1>5. LockInv' /\ \A g \in Threads : g # f => pc'[g] \notin Flushing
  BY <1>1 DEF LockInv, Alone
<1> QED  BY <1>1, <1>4, <1>5

LEMMA DoneMoves ==
  ASSUME ThreadTypes, LockInv, NEW f \in Threads, pc[f] \in {"reading", "writing"}, TargetDone(f),
         known' = known, stopping' = stopping, failures' \in 0..MaxFailures
  PROVE  ThreadTypes' /\ LockInv' /\ \A g \in Threads : pc'[g] # "writing"
<1> DEFINE T == todo[f] \ {job[f].target}
           p == CASE todo[f] # {job[f].target} -> "flushing"
                  [] todo[f] = {job[f].target} /\ f = Runner /\ stopping -> "closing"
                  [] OTHER -> "idle"
<1>1. /\ pc' = [pc EXCEPT ![f] = p] /\ todo' = [todo EXCEPT ![f] = T]
      /\ job' = [job EXCEPT ![f] = Nothing]
  BY DEF TargetDone, Goto
<1>2. /\ T \in SUBSET known /\ p \in Places \ {"reading", "writing"} /\ (p = "idle" => T = {})
  BY DEF ThreadTypes, Places, Flushing
<1>3. Alone(f)
  BY FlusherIsAlone DEF Flushing
<1> HIDE DEF p, T
<1>4. /\ ThreadTypes' /\ LockInv' /\ pc'[f] = p /\ \A g \in Threads : g # f => pc'[g] \notin Flushing
  BY <1>1, <1>2, <1>3, FlusherMoves
<1> QED  BY <1>2, <1>4 DEF Flushing

LEMMA FilesAreRight ==
  ASSUME FlushInv, NEW f \in Threads, Alone(f), pc[f] # "writing", NEW t \in clean
  PROVE  file[t] = seen[t]
<1>1. NoWriter(t)
  BY DEF NoWriter, Alone, Flushing
<1> QED  BY <1>1 DEF FlushInv, TranscriptIsWhatWasRead

LEMMA StartReadKeepsInv ==
  ASSUME IInv, NEW f \in Threads, NEW t \in Targets, AcquireFlushLock(f, t) \/ NextTarget(f, t)
  PROVE  IInv'
<1> USE DEF IInv, Types
<1> DEFINE j == [target |-> t, action |-> "read", messages |-> <<>>, sig |-> Nothing]
<1>1. /\ t \in todo[f] /\ pc' = [pc EXCEPT ![f] = "reading"] /\ job' = [job EXCEPT ![f] = j]
      /\ UNCHANGED <<hostVars, readerVars, targetVars, fileVars, todo, stopping, failures, seen>>
      /\ pc[f] \in {"waiting", "flushing"}
  BY DEF AcquireFlushLock, NextTarget, StartRead, Goto
<1>2. Alone(f)
  BY FlusherIsAlone DEF AcquireFlushLock, NextTarget, FlushLockFree, Alone, Flushing
<1>3. j \in Jobs /\ j # Nothing /\ j.target = t
  <2>1. <<>> \in Transcripts
    BY DEF Transcripts
  <2>2. j \in Jobs /\ j.target = t
    BY <2>1 DEF Jobs
  <2> HIDE DEF j
  <2> QED  BY <2>2, NothingAssumption
<1>4. /\ todo' = [todo EXCEPT ![f] = todo[f]] /\ todo[f] \in SUBSET known
      /\ failures' \in 0..MaxFailures /\ known' = known /\ stopping' = stopping
  BY <1>1 DEF ThreadTypes, targetVars
<1> HIDE DEF j
<1>5. /\ ThreadTypes' /\ LockInv' /\ pc'[f] = "reading"
      /\ \A g \in Threads : g # f => pc'[g] \notin Flushing
  BY <1>1, <1>2, <1>3, <1>4, FlusherMoves DEF Places, Flushing
<1>6. FlushInv'
  <2>1. \A g \in Threads : pc'[g] # "writing"
    BY <1>5 DEF Flushing
  <2>2. \A u \in clean : file[u] = seen[u]
    BY <1>1, <1>2, FilesAreRight
  <2>3. UNCHANGED <<clean, file, seen>>
    BY <1>1 DEF fileVars
  <2> QED  BY <2>1, <2>2, <2>3 DEF FlushInv, JobInv, TranscriptIsWhatWasRead
<1>7. HostTypes' /\ HostInv' /\ FallbackInv' /\ ReaderTypes' /\ FileTypes'
  BY <1>1 DEF HostTypes, HostInv, FallbackInv, ReaderTypes, FileTypes, hostVars,
     readerVars, targetVars, fileVars
<1>8. ReaderInv'
  BY <1>1, NothingHosted, ReaderInvStays DEF hostVars, readerVars
<1> QED  BY <1>5, <1>6, <1>7, <1>8

LEMMA ReadFailsKeepsInv ==
  ASSUME IInv, NEW f \in Threads, ReadFails(f)
  PROVE  IInv'
<1> USE DEF IInv, Types
<1> DEFINE t == job[f].target
<1>1. /\ pc[f] = "reading" /\ TargetDone(f)
      /\ mode' = [mode EXCEPT ![t] = IF source = "incremental" THEN "full_fallback" ELSE mode[t]]
      /\ UNCHANGED <<hostVars, source, closed, lineage, states, last, tsig, targetVars, fileVars,
                     stopping, seen>>
  BY DEF ReadFails, Reading
<1>2. failures' \in 0..MaxFailures
  <2>1. failures' = failures \/ (failures < MaxFailures /\ failures' = failures + 1)
    BY DEF ReadFails
  <2> QED  BY <2>1, BoundsAssumption DEF ThreadTypes
<1>3. ThreadTypes' /\ LockInv' /\ \A g \in Threads : pc'[g] # "writing"
  BY <1>1, <1>2, DoneMoves DEF targetVars
<1>4. \A u \in Targets : mode'[u] = mode[u] \/ mode'[u] = "full_fallback"
  BY <1>1 DEF ReaderTypes
<1>5. FlushInv'
  <2>1. \A u \in clean : file[u] = seen[u]
    BY <1>1, FilesAreRight, FlusherIsAlone DEF Flushing
  <2>2. UNCHANGED <<clean, file, seen>>
    BY <1>1 DEF fileVars
  <2> QED  BY <1>3, <2>1, <2>2 DEF FlushInv, JobInv, TranscriptIsWhatWasRead
<1>6. HostTypes' /\ HostInv' /\ FileTypes'
  BY <1>1 DEF HostTypes, HostInv, FileTypes, hostVars, targetVars, fileVars
<1>7. ReaderTypes' /\ FallbackInv'
  BY <1>1, <1>4 DEF ReaderTypes, FallbackInv, hostVars
<1>8. ReaderInv'
  <2>1. ASSUME NEW u \in Targets PROVE ReaderOf(u)'
    <3>1. CASE mode'[u] = mode[u]
      BY <1>1, <3>1, NothingHosted, ReaderStays DEF hostVars, ReaderInv
    <3>2. CASE mode'[u] = "full_fallback"
      BY <3>2 DEF ReaderOf
    <3> QED  BY <1>4, <3>1, <3>2
  <2> QED  BY <1>1, <2>1 DEF ReaderInv
<1> QED  BY <1>3, <1>5, <1>6, <1>7, <1>8

-----------------------------------------------------------------------------
(* A reading. *)

LEMMA FoundMoves ==
  ASSUME ThreadTypes, LockInv, NEW f \in Threads, pc[f] = "reading", NEW t, t = job[f].target,
         NEW action \in {"rebuild", "append", "unchanged"}, NEW messages \in Transcripts,
         NEW sig \in Sigs, Found(f, t, action, messages, sig),
         UNCHANGED <<todo, known, stopping>>, failures' \in 0..MaxFailures
  PROVE  /\ t \in Targets /\ ThreadTypes' /\ LockInv' /\ pc'[f] = "writing"
         /\ \A g \in Threads : g # f => pc'[g] \notin Flushing
         /\ job'[f] = [target |-> t, action |-> action, messages |-> messages, sig |-> sig]
<1> DEFINE j == [target |-> t, action |-> action, messages |-> messages, sig |-> sig]
<1>1. job[f] \in Jobs /\ t \in Targets /\ t \in todo[f]
  BY DEF ThreadTypes, Jobs
<1>2. /\ pc' = [pc EXCEPT ![f] = "writing"] /\ job' = [job EXCEPT ![f] = j]
      /\ todo' = [todo EXCEPT ![f] = todo[f]] /\ todo[f] \in SUBSET known
  BY DEF Found, Goto, ThreadTypes
<1>3. j \in Jobs /\ j.target = t
  BY <1>1 DEF Jobs
<1> HIDE DEF j
<1>4. j # Nothing
  BY <1>3, NothingAssumption
<1>5. Alone(f)
  BY FlusherIsAlone DEF Flushing
<1>6. /\ ThreadTypes' /\ LockInv' /\ pc'[f] = "writing" /\ job'[f] = j
      /\ \A g \in Threads : g # f => pc'[g] \notin Flushing
  BY <1>1, <1>2, <1>3, <1>4, <1>5, FlusherMoves DEF Places, Flushing
<1> QED  BY <1>1, <1>6 DEF j

(* It leaves the other targets alone. *)
LEMMA FoundKeepsFiles ==
  ASSUME FlushInv, LockInv, NEW f \in Threads, pc[f] = "reading", NEW t, job'[f].target = t,
         pc'[f] = "writing", \A g \in Threads : g # f => pc'[g] \notin Flushing,
         JobIs(f, job[f], job[f].target)', UNCHANGED <<file, clean>>,
         \A u \in Targets : u # t => seen'[u] = seen[u], clean \subseteq Targets
  PROVE  FlushInv'
<1>1. \A u \in clean : file[u] = seen[u]
  BY FilesAreRight, FlusherIsAlone DEF Flushing
<1>2. JobInv'
  BY DEF JobInv, Flushing
<1>3. ASSUME NEW u \in clean, NoWriter(u)' PROVE file[u] = seen'[u]
  <2>1. u # t
    BY <1>3 DEF NoWriter
  <2> QED  BY <1>1, <2>1
<1> QED  BY <1>2, <1>3 DEF FlushInv, TranscriptIsWhatWasRead

LEMMA FallbackKeepsInv ==
  ASSUME IInv, NEW f \in Threads, ReadFallback(f)
  PROVE  IInv'
<1> USE DEF IInv, Types
<1> DEFINE t == job[f].target
<1>0. PICK messages \in {MessageRows(t, Ids(t, 1)), <<>>} :
        /\ Found(f, t, IF messages = tsig[t] THEN "unchanged" ELSE "rebuild", messages,
                 Signature(t, "full_fallback", 1))
        /\ tsig' = [tsig EXCEPT ![t] = messages]
        /\ seen' = [seen EXCEPT ![t] = messages]
  BY DEF ReadFallback
<1> DEFINE action == IF messages = tsig[t] THEN "unchanged" ELSE "rebuild"
           sig == Signature(t, "full_fallback", 1)
<1>1. /\ pc[f] = "reading" /\ Found(f, t, action, messages, sig)
      /\ tsig' = [tsig EXCEPT ![t] = messages] /\ mode' = [mode EXCEPT ![t] = "full_fallback"]
      /\ lineage' = [lineage EXCEPT ![t] = 1] /\ seen' = [seen EXCEPT ![t] = messages]
      /\ UNCHANGED <<hostVars, source, closed, states, last, targetVars, fileVars, todo, stopping>>
  BY <1>0 DEF ReadFallback, Reading
<1>2. failures' \in 0..MaxFailures
  <2>1. failures' = failures \/ (failures < MaxFailures /\ failures' = failures + 1)
    BY DEF ReadFallback
  <2> QED  BY <2>1, BoundsAssumption DEF ThreadTypes
<1>3. t \in Targets
  BY <1>1 DEF ThreadTypes, Jobs
<1>4. messages \in Transcripts /\ sig \in Sigs /\ action \in {"rebuild", "append", "unchanged"}
  BY <1>3, RowsAreTranscript DEF Signature, Sigs, FileTypes, Transcripts
<1>5. action = "unchanged" => seen[t] = messages
  BY <1>3, <1>4, NothingAssumption DEF FallbackInv
<1>6. action = "rebuild" \/ action = "unchanged"
  OBVIOUS
<1> HIDE DEF action, sig
<1>7. /\ ThreadTypes' /\ LockInv' /\ pc'[f] = "writing"
      /\ \A g \in Threads : g # f => pc'[g] \notin Flushing
      /\ job'[f] = [target |-> t, action |-> action, messages |-> messages, sig |-> sig]
  BY <1>1, <1>2, <1>4, FoundMoves DEF targetVars
<1>8. /\ \A u \in Targets : /\ seen'[u] = IF u = t THEN messages ELSE seen[u]
                            /\ mode'[u] = IF u = t THEN "full_fallback" ELSE mode[u]
                            /\ tsig'[u] = IF u = t THEN messages ELSE tsig[u]
                            /\ lineage'[u] = IF u = t THEN 1 ELSE lineage[u]
  BY <1>1, <1>3 DEF ReaderTypes
<1>9. UNCHANGED <<rows, sessions, edits, file, clean, states, last, stopping>>
  BY <1>1 DEF hostVars, fileVars
<1>10. FlushInv'
  <2>1. t \in clean => file[t] = seen[t]
    BY <1>1, FilesAreRight, FlusherIsAlone DEF Flushing
  <2>2. job'[f].target = t /\ job'[f].action = action /\ job'[f].messages = messages
    BY <1>7
  <2>3. JobIs(f, job[f], job[f].target)'
    BY <1>3, <1>5, <1>6, <1>8, <1>9, <2>1, <2>2 DEF JobIs
  <2>4. clean \subseteq Targets
    BY DEF FileTypes
  <2>5. \A u \in Targets : u # t => seen'[u] = seen[u]
    BY <1>8
  <2> QED  BY <1>1, <1>7, <1>9, <2>2, <2>3, <2>4, <2>5, FoundKeepsFiles
<1>11. HostTypes' /\ HostInv' /\ FileTypes'
  BY <1>1 DEF HostTypes, HostInv, FileTypes, hostVars, targetVars, fileVars
<1>12. ReaderTypes'
  <2>1. \A u \in Targets : lineage'[u] <= sessions[u]
    BY <1>8 DEF ReaderTypes, HostTypes, HostInv
  <2> QED  BY <1>1, <1>4, <1>9, <2>1 DEF ReaderTypes, Exports
<1>13. FallbackInv'
  BY <1>8 DEF FallbackInv
<1>14. ReaderInv'
  <2>1. ASSUME NEW u \in Targets PROVE ReaderOf(u)'
    <3>1. CASE u # t
      BY <1>8, <1>9, <3>1, NothingHosted, ReaderStays DEF ReaderInv
    <3>2. CASE u = t
      BY <1>8, <3>2 DEF ReaderOf
    <3> QED  BY <3>1, <3>2
  <2> QED  BY <1>9, <2>1 DEF ReaderInv
<1> QED  BY <1>7, <1>10, <1>11, <1>12, <1>13, <1>14

(* What an incremental reading finds is a reading. *)
Finds(t, n, home, flag) ==
  /\ MessageRows(t, Ids(t, n)) = Listing(Ids(t, n), flag)
  /\ \A i \in Ids(t, n) : home[i] = rows[t][i].session /\ flag[i] = rows[t][i].state
  /\ \A s \in 1 .. n : /\ SessionState(t, s)[1] = Cardinality(In(Ids(t, n), home, s))
                       /\ SessionState(t, s)[4] = Cardinality(Flagged(Ids(t, n), home, flag, s))

LEMMA FreshReading ==
  ASSUME HostTypes, HostInv, NEW t \in Targets, NEW n, n = sessions[t]
  PROVE  \E home \in [Ids(t, n) -> 1 .. n], flag \in [Ids(t, n) -> {"active", "inactive"}] :
           Finds(t, n, home, flag)
<1> DEFINE ids == Ids(t, n)
           home == [i \in ids |-> rows[t][i].session]
           flag == [i \in ids |-> rows[t][i].state]
<1>1. /\ ids \in SUBSET DOMAIN rows[t] /\ ids \in SUBSET Nat /\ IsFiniteSet(ids)
      /\ \A i \in ids : rows[t][i].state \in {"active", "inactive"}
  BY IdsAre, FewIds
<1>2. home \in [ids -> 1 .. n] /\ flag \in [ids -> {"active", "inactive"}]
  BY <1>1 DEF HostInv
<1>3. MessageRows(t, ids) = Listing(ids, flag)
  <2>1. \A i \in ids : StateOf(t)[i] = flag[i]
    BY <1>1 DEF StateOf
  <2> HIDE DEF ids, flag
  <2> QED  BY <1>1, <2>1, RowsAreListed, SameListing
<1>4. ASSUME NEW s \in 1 .. n
      PROVE  /\ SessionState(t, s)[1] = Cardinality(In(ids, home, s))
             /\ SessionState(t, s)[4] = Cardinality(Flagged(ids, home, flag, s))
  <2>1. n \in Nat /\ \A i \in DOMAIN rows[t] : rows[t][i].session = s => rows[t][i].session <= n
    BY DEF HostTypes
  <2>2. Of(t, s) = In(ids, home, s)
    BY <2>1 DEF Of, In, Ids
  <2>3. OnlyActive(t, Of(t, s)) = Flagged(ids, home, flag, s)
    BY <2>2 DEF OnlyActive, IsActive, In, Flagged
  <2> QED  BY <2>2, <2>3 DEF SessionState
<1>5. \A i \in ids : home[i] = rows[t][i].session /\ flag[i] = rows[t][i].state
  OBVIOUS
<1> HIDE DEF home, flag
<1> QED  BY <1>2, <1>3, <1>4, <1>5 DEF Finds

LEMMA ReadKeepsInv ==
  ASSUME IInv, NEW f \in Threads, ReadIncremental(f)
  PROVE  IInv'
<1> USE DEF IInv, Types
<1> DEFINE t == job[f].target
           n == sessions[t]
           all == Ids(t, n)
           new == Newer(t, all)
           action == IF Rebuilds(f, t) THEN "rebuild" ELSE IF new = {} THEN "unchanged" ELSE "append"
           messages == IF Rebuilds(f, t) THEN MessageRows(t, all) ELSE MessageRows(t, new)
           sig == Signature(t, "incremental", n)
           found == MessageRows(t, all)
           m == MaxOf({SessionState(t, s)[3] : s \in 1 .. n})
<1>1. /\ pc[f] = "reading" /\ mode[t] # "full_fallback"
      /\ Found(f, t, action, messages, sig)
      /\ mode' = [mode EXCEPT ![t] = "incremental"] /\ lineage' = [lineage EXCEPT ![t] = n]
      /\ states' = [states EXCEPT ![t] = SessionStates(t)] /\ last' = [last EXCEPT ![t] = m]
      /\ seen' = [seen EXCEPT ![t] = found]
      /\ UNCHANGED <<hostVars, source, closed, tsig, targetVars, fileVars, todo, stopping, failures>>
  BY DEF ReadIncremental, Reading, Newer
<1>2. t \in Targets
  BY <1>1 DEF ThreadTypes, Jobs
<1>3. n \in Nat /\ n >= 1 /\ SessionStates(t) = [s \in 1 .. n |-> SessionState(t, s)]
  BY <1>2 DEF HostTypes, HostInv, SessionStates
<1>4. m \in Nat /\ m <= Len(rows[t]) /\ \A i \in all : i <= m
  BY <1>2, LastIsLast, RowsAre
<1>5. found \in Transcripts /\ messages \in Transcripts /\ (new = {} => MessageRows(t, new) = <<>>)
  <2>1. new \in SUBSET all
    BY DEF Newer
  <2> QED  BY <1>2, <2>1, RowsAreTranscript
<1>6. ~Rebuilds(f, t) => found = seen[t] \o MessageRows(t, new)
  <2> SUFFICES ASSUME ~Rebuilds(f, t) PROVE found = seen[t] \o MessageRows(t, new)
    OBVIOUS
  <2>1. lineage[t] = n /\ IsAppendOnly(t) /\ last[t] \in Nat /\ ReaderOf(t)
    BY <1>2 DEF Rebuilds, ReaderTypes, ReaderInv
  <2>2. mode[t] = "incremental"
    BY <1>1, <1>2, <1>3, <2>1 DEF ReaderOf, ReaderTypes
  <2> QED  BY <1>2, <2>1, <2>2, NewRowsFollow
<1>7. /\ action = "rebuild" => messages = found
      /\ action = "append" => found = seen[t] \o messages
      /\ action = "unchanged" => found = seen[t]
      /\ action \in {"rebuild", "append", "unchanged"}
      /\ f = Runner /\ stopping => action = "rebuild"
  <2>1. seen[t] \o <<>> = seen[t]
    BY <1>2, ConcatEmptySeq DEF ReaderTypes, Transcripts
  <2>2. CASE Rebuilds(f, t)
    BY <2>2
  <2>3. CASE ~Rebuilds(f, t)
    <3>1. ~(f = Runner /\ stopping)
      BY <2>3 DEF Rebuilds
    <3>2. action = IF new = {} THEN "unchanged" ELSE "append"
      BY <2>3
    <3>3. messages = MessageRows(t, new)
      BY <2>3
    <3> HIDE DEF messages, action, found, new
    <3> QED  BY <1>5, <1>6, <2>1, <2>3, <3>1, <3>2, <3>3
  <2> QED  BY <2>2, <2>3
<1>8. sig \in Sigs
  BY <1>2, <1>3 DEF Signature, Sigs, FileTypes
<1> HIDE DEF action, messages, sig, found, m
<1>9. /\ ThreadTypes' /\ LockInv' /\ pc'[f] = "writing"
      /\ \A g \in Threads : g # f => pc'[g] \notin Flushing
      /\ job'[f] = [target |-> t, action |-> action, messages |-> messages, sig |-> sig]
  <2>1. failures' \in 0..MaxFailures
    BY <1>1 DEF ThreadTypes
  <2> QED  BY <1>1, <1>5, <1>7, <1>8, <2>1, FoundMoves DEF targetVars
<1>10. \A u \in Targets : /\ seen'[u] = IF u = t THEN found ELSE seen[u]
                          /\ mode'[u] = IF u = t THEN "incremental" ELSE mode[u]
                          /\ lineage'[u] = IF u = t THEN n ELSE lineage[u]
                          /\ last'[u] = IF u = t THEN m ELSE last[u]
                          /\ states'[u] = IF u = t THEN SessionStates(t) ELSE states[u]
  BY <1>1 DEF ReaderTypes, ReaderInv
<1>11. UNCHANGED <<rows, sessions, edits, file, clean, stopping, tsig>>
  BY <1>1 DEF hostVars, fileVars
<1>12. FlushInv'
  <2>1. t \in clean => file[t] = seen[t] /\ file[t] # Nothing
    BY <1>1, <1>2, FilesAreRight, FlusherIsAlone, NothingAssumption DEF Flushing, ReaderTypes
  <2>2. job'[f].target = t /\ job'[f].action = action /\ job'[f].messages = messages
    BY <1>9
  <2>3. JobIs(f, job[f], job[f].target)'
    BY <1>2, <1>7, <1>10, <1>11, <2>1, <2>2 DEF JobIs, Appended
  <2>4. clean \subseteq Targets /\ \A u \in Targets : u # t => seen'[u] = seen[u]
    BY <1>10 DEF FileTypes
  <2> QED  BY <1>1, <1>9, <1>11, <2>2, <2>3, <2>4, FoundKeepsFiles
<1>13. HostTypes' /\ HostInv' /\ FileTypes'
  BY <1>1 DEF HostTypes, HostInv, FileTypes, hostVars, targetVars, fileVars
<1>14. ReaderTypes'
  <2>1. /\ lineage' \in [Targets -> Nat] /\ last' \in [Targets -> Nat]
        /\ seen' \in [Targets -> Transcripts] /\ tsig' \in [Targets -> Exports]
        /\ mode' \in [Targets -> {"pending", "incremental", "full_fallback"}]
    BY <1>1, <1>3, <1>4, <1>5, <1>11 DEF ReaderTypes
  <2>2. \A u \in Targets : lineage'[u] <= sessions[u] /\ last'[u] <= Len(rows[u])
    BY <1>3, <1>4, <1>10 DEF ReaderTypes
  <2> QED  BY <1>1, <1>11, <2>1, <2>2 DEF ReaderTypes
<1>15. FallbackInv'
  BY <1>1, <1>10, <1>11 DEF FallbackInv
<1>16. ReaderInv'
  <2>1. ASSUME NEW u \in Targets, u # t PROVE ReaderOf(u)'
    BY <1>10, <1>11, <2>1, NothingHosted, ReaderStays DEF ReaderInv
  <2>2. ASSUME NEW u \in Targets, u = t PROVE ReaderOf(u)'
    <3> DEFINE ids == Ids(u, n)
    <3>1. n = sessions[u] /\ ids \in SUBSET DOMAIN rows[u]
      BY <2>2, IdsAre
    <3>2. PICK home \in [ids -> 1 .. n], flag \in [ids -> {"active", "inactive"}] :
            Finds(u, n, home, flag)
      BY <3>1, FreshReading
    <3>3. /\ seen'[u] = Listing(ids, flag) /\ lineage'[u] = n /\ last'[u] = m
          /\ states'[u] = SessionStates(t) /\ rows' = rows /\ mode'[u] # "pending"
      BY <1>2, <1>10, <1>11, <2>2, <3>2 DEF found, Finds
    <3>4. PICK S \in SUBSET DOMAIN rows[u] : S = ids
      BY <3>1
    <3>5. \A i \in S : /\ i <= last'[u] /\ home[i] = rows'[u][i].session
                       /\ rows'[u][i].state # "inactive" => flag[i] = "active"
      <4>1. \A i \in ids : i <= m /\ rows[u][i].state \in {"active", "inactive"}
        BY <1>4, <2>2, IdsAre
      <4> QED  BY <3>2, <3>3, <3>4, <4>1 DEF Finds
    <3>6. \A i \in DOMAIN rows'[u] :
            rows'[u][i].session <= lineage'[u] /\ rows'[u][i].state # "deleted" => i \in S
      BY <3>3, <3>4 DEF Ids
    <3>7. \A s \in 1 .. lineage'[u] :
            /\ states'[u][s][1] = Cardinality(In(S, home, s))
            /\ states'[u][s][4] = Cardinality(Flagged(S, home, flag, s))
      BY <1>3, <2>2, <3>2, <3>3, <3>4 DEF Finds
    <3>8. seen'[u] = Listing(S, flag)
      BY <3>3, <3>4
    <3>9. ReadAs(u, S, home, flag)'
      BY <3>5, <3>6, <3>7, <3>8 DEF ReadAs, Ids
    <3>10. /\ S \in SUBSET DOMAIN rows'[u] /\ home \in [S -> 1 .. lineage'[u]]
           /\ flag \in [S -> {"active", "inactive"}]
           /\ DOMAIN states'[u] = 1 .. lineage'[u] /\ lineage'[u] # 0 /\ mode'[u] # "pending"
      BY <1>3, <3>3, <3>4
    <3> QED  BY <3>9, <3>10 DEF ReaderOf
  <2>3. DOMAIN states' = Targets
    BY <1>1 DEF ReaderInv
  <2>4. \A u \in Targets : ReaderOf(u)'
    BY <2>1, <2>2
  <2> QED  BY <2>3, <2>4 DEF ReaderInv
<1> QED  BY <1>9, <1>12, <1>13, <1>14, <1>15, <1>16

-----------------------------------------------------------------------------
(* A write. *)

LEMMA AppendedIsTranscript ==
  ASSUME NEW old \in Exports, NEW messages \in Transcripts
  PROVE  Appended(old, messages) \in Transcripts
<1>1. CASE old = Nothing
  BY <1>1 DEF Appended
<1>2. CASE old # Nothing
  BY <1>2, ConcatProperties DEF Appended, Exports, Transcripts
<1> QED  BY <1>1, <1>2

LEMMA TornIsTranscript ==
  ASSUME NEW old \in Exports
  PROVE  Append(Appended(old, <<>>), <<0, "torn">>) \in Transcripts
<1> DEFINE rest == Appended(old, <<>>)
           piece == <<0, "torn">>
<1>1. rest \in Transcripts
  <2>1. <<>> \in Transcripts
    BY DEF Transcripts
  <2> QED  BY <2>1, AppendedIsTranscript
<1>2. piece \in Nat \X {"active", "inactive", "torn"}
  OBVIOUS
<1> HIDE DEF rest, piece
<1>3. Append(rest, piece) \in Transcripts
  BY <1>1, <1>2, AppendProperties DEF Transcripts
<1> QED  BY <1>3 DEF rest, piece

(* The writer's target, and the others, which nobody writes meanwhile. *)
LEMMA WriterHas ==
  ASSUME IInv, NEW f \in Threads, pc[f] = "writing", NEW t, t = job[f].target
  PROVE  /\ job[f] \in Jobs /\ t \in Targets /\ t \in known /\ JobIs(f, job[f], t)
         /\ \A u \in clean : u # t => file[u] = seen[u]
<1> USE DEF IInv, Types
<1>1. job[f] \in Jobs /\ t \in Targets /\ t \in known
  BY DEF ThreadTypes, Jobs, FileTypes
<1>2. JobIs(f, job[f], t)
  BY DEF FlushInv, JobInv
<1>3. Alone(f)
  BY FlusherIsAlone DEF Flushing
<1>4. ASSUME NEW u \in clean, u # t PROVE file[u] = seen[u]
  <2>1. NoWriter(u)
    BY <1>3, <1>4 DEF NoWriter, Alone, Flushing
  <2> QED  BY <2>1 DEF FlushInv, TranscriptIsWhatWasRead
<1> QED  BY <1>1, <1>2, <1>4

(* After a write: the thread has done with its target. *)
LEMMA AfterWriteKeepsInv ==
  ASSUME IInv, NEW f \in Threads, pc[f] = "writing", AfterWrite(f), failures' \in 0..MaxFailures,
         file' \in [Targets -> Exports], msig' \in [Targets -> Sigs \cup {Nothing}],
         meta' \in SUBSET known, clean' \in SUBSET known,
         \A u \in clean' : file'[u] = seen[u]
  PROVE  IInv'
<1> USE DEF IInv, Types
<1>1. TargetDone(f) /\ UNCHANGED <<hostVars, readerVars, targetVars, stopping, seen>>
  BY DEF AfterWrite
<1>2. ThreadTypes' /\ LockInv' /\ \A g \in Threads : pc'[g] # "writing"
  BY <1>1, DoneMoves DEF targetVars
<1>3. FlushInv'
  BY <1>1, <1>2 DEF FlushInv, JobInv, TranscriptIsWhatWasRead
<1>4. HostTypes' /\ HostInv' /\ ReaderTypes' /\ FallbackInv'
  BY <1>1 DEF HostTypes, HostInv, ReaderTypes, FallbackInv, hostVars, readerVars
<1>5. FileTypes'
  BY <1>1 DEF FileTypes, targetVars
<1>6. ReaderInv'
  BY <1>1, NothingHosted, ReaderInvStays DEF hostVars, readerVars
<1> QED  BY <1>2, <1>3, <1>4, <1>5, <1>6

LEMMA WriteKeepsInv ==
  ASSUME IInv, NEW f \in Threads, Write(f)
  PROVE  IInv'
<1> DEFINE j == job[f]
           t == j.target
           text == CASE j.action = "rebuild" -> j.messages
                     [] j.action = "append" -> Appended(file[t], j.messages)
                     [] j.action = "unchanged" -> file[t]
<1>1. /\ pc[f] = "writing" /\ AfterWrite(f) /\ failures' = failures
      /\ file' = [file EXCEPT ![t] = text]
      /\ msig' = [msig EXCEPT ![t] = j.sig]
      /\ meta' = meta \cup {t} \/ meta' = meta
      /\ clean' = IF j.action = "rebuild" THEN clean \cup {t} ELSE clean
  BY DEF Write, Writing
<1>2. /\ j \in Jobs /\ t \in Targets /\ t \in known /\ JobIs(f, j, t)
      /\ \A u \in clean : u # t => file[u] = seen[u]
  BY <1>1, WriterHas
<1>3. /\ file \in [Targets -> Exports] /\ msig \in [Targets -> Sigs \cup {Nothing}]
      /\ meta \subseteq known /\ clean \subseteq known /\ known \subseteq Targets
      /\ failures \in 0..MaxFailures
  BY DEF IInv, Types, FileTypes, ThreadTypes, FlushInv
<1>4. /\ j.messages \in Transcripts /\ j.sig \in Sigs \cup {Nothing}
      /\ j.action \in {"rebuild", "append", "unchanged"}
  BY <1>2 DEF Jobs, JobIs
<1>5. text \in Exports
  <2>1. Appended(file[t], j.messages) \in Transcripts
    BY <1>2, <1>3, <1>4, AppendedIsTranscript
  <2> HIDE DEF j
  <2> QED  BY <1>2, <1>3, <1>4, <2>1 DEF Exports
<1>6. t \in clean' => text = seen[t]
  BY <1>1, <1>2, <1>4 DEF JobIs
<1> HIDE DEF text
<1>7. \A u \in Targets : file'[u] = IF u = t THEN text ELSE file[u]
  BY <1>1, <1>3
<1>8. \A u \in clean' : u \in Targets /\ (u = t \/ u \in clean)
  BY <1>1, <1>2, <1>3
<1>9. \A u \in clean' : file'[u] = seen[u]
  BY <1>2, <1>6, <1>7, <1>8
<1>10. /\ file' \in [Targets -> Exports] /\ msig' \in [Targets -> Sigs \cup {Nothing}]
       /\ meta' \in SUBSET known /\ clean' \in SUBSET known
  BY <1>1, <1>2, <1>3, <1>4, <1>5
<1> QED  BY <1>1, <1>3, <1>9, <1>10, AfterWriteKeepsInv

LEMMA WriteFailsKeepsInv ==
  ASSUME IInv, NEW f \in Threads, WriteFails(f)
  PROVE  IInv'
<1> DEFINE j == job[f]
           t == j.target
           torn == Append(Appended(file[t], <<>>), <<0, "torn">>)
           longer == Appended(file[t], j.messages)
<1>1. /\ pc[f] = "writing" /\ AfterWrite(f)
      /\ failures < MaxFailures /\ failures' = failures + 1
      /\ msig' = msig
      /\ meta' \in {meta, meta \cup {t}}
      /\ \/ clean' = clean \ {t} /\ file' \in {file, [file EXCEPT ![t] = torn]}
         \/ clean' = clean /\ file' = [file EXCEPT ![t] = longer] /\ j.action = "append"
         \/ clean' = clean /\ file' = file /\ j.action = "unchanged"
  BY DEF WriteFails, Writing
<1>2. /\ j \in Jobs /\ t \in Targets /\ t \in known /\ JobIs(f, j, t)
      /\ \A u \in clean : u # t => file[u] = seen[u]
  BY <1>1, WriterHas
<1>3. /\ file \in [Targets -> Exports] /\ msig \in [Targets -> Sigs \cup {Nothing}]
      /\ meta \subseteq known /\ clean \subseteq known /\ known \subseteq Targets
      /\ failures \in 0..MaxFailures
  BY DEF IInv, Types, FileTypes, ThreadTypes, FlushInv
<1>4. torn \in Exports /\ longer \in Exports
  <2>1. j.messages \in Transcripts
    BY <1>2 DEF Jobs
  <2> QED  BY <1>2, <1>3, <2>1, AppendedIsTranscript, TornIsTranscript DEF Exports
<1>5. /\ t \in clean /\ j.action = "append" => longer = seen[t]
      /\ t \in clean /\ j.action = "unchanged" => file[t] = seen[t]
  BY <1>2 DEF JobIs
<1> HIDE DEF torn, longer
<1>6. file' \in [Targets -> Exports] /\ \A u \in Targets : u # t => file'[u] = file[u]
  BY <1>1, <1>2, <1>3, <1>4
<1>7. t \in clean' => file'[t] = seen[t]
  BY <1>1, <1>2, <1>3, <1>5
<1>8. \A u \in clean' : u \in clean /\ u \in Targets
  BY <1>1, <1>3
<1>9. \A u \in clean' : file'[u] = seen[u]
  BY <1>2, <1>6, <1>7, <1>8
<1>10. /\ failures' \in 0..MaxFailures /\ meta' \in SUBSET known /\ clean' \in SUBSET known
       /\ msig' \in [Targets -> Sigs \cup {Nothing}]
  BY <1>1, <1>2, <1>3, BoundsAssumption
<1> QED  BY <1>1, <1>6, <1>9, <1>10, AfterWriteKeepsInv

-----------------------------------------------------------------------------
LEMMA StartsRight == Init => IInv
<1> SUFFICES ASSUME Init PROVE IInv
  OBVIOUS
<1>1. Types
  <2>1. <<>> \in Transcripts /\ \A t \in Targets : rows[t] = <<>>
    BY DEF Init, Transcripts
  <2>2. HostTypes
    BY BoundsAssumption DEF Init, HostTypes
  <2>3. ReaderTypes /\ FileTypes
    <3>1. closed \in BOOLEAN /\ source \in Sources
      BY DEF Init
    <3>2. /\ lineage \in [Targets -> Nat] /\ last \in [Targets -> Nat]
          /\ \A t \in Targets : lineage[t] = 0 /\ sessions[t] = 1 /\ last[t] = 0 /\ Len(rows[t]) = 0
      BY <2>1 DEF Init
    <3>3. /\ mode \in [Targets -> {"pending", "incremental", "full_fallback"}]
          /\ tsig \in [Targets -> Exports] /\ seen \in [Targets -> Transcripts]
      BY <2>1 DEF Init, Exports
    <3>4. FileTypes
      BY DEF Init, FileTypes, Exports
    <3> QED  BY <3>1, <3>2, <3>3, <3>4 DEF ReaderTypes
  <2>4. ThreadTypes
    <3>1. stopping \in BOOLEAN /\ failures \in 0..MaxFailures
      <4>1. MaxFailures \in Nat
        BY BoundsAssumption
      <4>2. failures = 0 /\ stopping \in BOOLEAN
        BY DEF Init
      <4> QED  BY <4>1, <4>2
    <3>2. /\ pc \in [Threads -> Places] /\ todo \in [Threads -> SUBSET known]
          /\ job \in [Threads -> Jobs \cup {Nothing}]
      BY DEF Init, Places
    <3>3. \A f \in Threads : pc[f] = "idle" /\ job[f] = Nothing /\ todo[f] = {}
      BY DEF Init
    <3> QED  BY <3>1, <3>2, <3>3 DEF ThreadTypes
  <2> QED  BY <2>2, <2>3, <2>4 DEF Types
<1>2. HostInv /\ LockInv
  BY DEF Init, HostInv, LockInv, Flushing
<1>3. ReaderInv /\ FallbackInv
  BY DEF Init, ReaderInv, ReaderOf, FallbackInv
<1>4. FlushInv
  BY DEF Init, FlushInv, JobInv, TranscriptIsWhatWasRead
<1> QED  BY <1>1, <1>2, <1>3, <1>4 DEF IInv

LEMMA StepsKeepInv == IInv /\ [Next]_vars => IInv'
<1> SUFFICES ASSUME IInv, [Next]_vars PROVE IInv'
  OBVIOUS
<1>1. CASE HostStep
  <2>1. PICK t \in Targets :
          \/ HostAppends(t) \/ HostCompacts(t)
          \/ \E i \in DOMAIN rows[t] : HostEdits(t, i, "inactive") \/ HostEdits(t, i, "deleted")
    BY <1>1, Zenon DEF HostStep
  <2> QED  BY <2>1, HostKeepsInv
<1>2. CASE Tick
  BY <1>2, TickKeepsInv
<1>3. CASE EndStep
  BY <1>3, EndKeepsInv, ExportKeepsInv DEF EndStep
<1>4. ASSUME NEW f \in Threads, ReportStep(f) PROVE IInv'
  BY <1>4, ReportKeepsInv DEF ReportStep
<1>5. ASSUME NEW f \in Threads, FlushStep(f) PROVE IInv'
  BY <1>5, StartReadKeepsInv DEF FlushStep
<1>6. ASSUME NEW f \in Threads, ReadStep(f) PROVE IInv'
  BY <1>6, ReadKeepsInv, FallbackKeepsInv, ReadFailsKeepsInv DEF ReadStep
<1>7. ASSUME NEW f \in Threads, WriteStep(f) PROVE IInv'
  BY <1>7, WriteKeepsInv, WriteFailsKeepsInv DEF WriteStep
<1>8. CASE UNCHANGED vars
  <2>1. /\ UNCHANGED <<rows, sessions, edits, source, closed, mode, lineage, states, last, tsig>>
        /\ UNCHANGED <<known, active, version, file, meta, msig, clean>>
        /\ UNCHANGED <<pc, todo, job, stopping, failures, seen>>
    BY <1>8 DEF vars, hostVars, readerVars, targetVars, fileVars, threadVars
  <2>2. HostTypes' /\ HostInv' /\ ReaderTypes' /\ FallbackInv' /\ FileTypes'
    BY <2>1 DEF IInv, Types, HostTypes, HostInv, ReaderTypes, FallbackInv, FileTypes
  <2>3. ThreadTypes' /\ LockInv'
    BY <2>1 DEF IInv, Types, ThreadTypes, LockInv
  <2>4. ReaderInv'
    BY <2>1, NothingHosted, ReaderInvStays DEF IInv, Types
  <2>5. FlushInv'
    <3>1. FlushInv /\ ThreadTypes
      BY DEF IInv, Types, FlushInv
    <3> QED  BY <2>1, <3>1, FlushInvStays
  <2> QED  BY <2>2, <2>3, <2>4, <2>5 DEF IInv, Types
<1> QED  BY <1>1, <1>2, <1>3, <1>4, <1>5, <1>6, <1>7, <1>8 DEF Next

LEMMA Invariance == Spec => []IInv
  BY StartsRight, StepsKeepInv, PTL DEF Spec

(* The variables hold what the code's fields can hold, and a thread has a   *)
(* job exactly while it reads or writes.                                    *)
THEOREM TypeCorrect == Spec => []TypeOK
<1>1. IInv => TypeOK
  BY TypesAreTypeOK DEF IInv
<1> QED  BY <1>1, Invariance, PTL

(* A transcript that missed no write holds exactly the messages that were   *)
(* read, in order, once and with their flags, for any number of messages,   *)
(* compactions, edits and threads (transcripts.py:130-186, 291-320,         *)
(* 477-489).                                                                *)
THEOREM TranscriptsAreWhatWasRead == Spec => []TranscriptIsWhatWasRead
<1>1. IInv => TranscriptIsWhatWasRead
  BY DEF IInv, FlushInv
<1> QED  BY <1>1, Invariance, PTL

(* What the last flush has read incrementally, it writes whole, whatever    *)
(* was lost or torn before (transcripts.py:177, 505).                       *)
THEOREM TheLastFlushRepairs == Spec => LastFlushRepairs
<1>1. ASSUME IInv, NEW t \in Targets, stopping, Write(Runner), job[Runner].target = t,
             mode[t] = "incremental"
      PROVE  file'[t] = seen[t] /\ t \in clean'
  <2>1. Runner \in Threads /\ pc[Runner] = "writing"
    BY <1>1 DEF Threads, Write, Writing
  <2>2. JobIs(Runner, job[Runner], t)
    BY <1>1, <2>1 DEF IInv, FlushInv, JobInv
  <2>3. job[Runner].action = "rebuild" /\ job[Runner].messages = seen[t]
    BY <1>1, <2>2 DEF JobIs
  <2>4. file \in [Targets -> Exports]
    BY <1>1 DEF IInv, Types, FileTypes
  <2> QED  BY <1>1, <2>3, <2>4 DEF Write
<1>2. IInv /\ [Next]_vars =>
        [\A t \in Targets :
           stopping /\ Write(Runner) /\ job[Runner].target = t /\ mode[t] = "incremental"
             => file'[t] = seen[t] /\ t \in clean']_vars
  BY <1>1
<1> QED  BY <1>2, Invariance, PTL DEF Spec, LastFlushRepairs

-----------------------------------------------------------------------------
(* The run's thread.  StopIsNeverStuck speaks of ENABLED; this is the same  *)
(* with the guards of the thread's steps written out.                       *)

RunnerCanGo ==
  \/ pc[Runner] \in {"joined", "closing", "exporting"}
  \/ pc[Runner] = "waiting" /\ (FlushLockFree => todo[Runner] # {})
  \/ pc[Runner] = "flushing" /\ todo[Runner] # {}
  \/ pc[Runner] = "writing" /\ job[Runner].action \in {"rebuild", "append", "unchanged"}
RunnerIsNeverStuck == stopping /\ LockFree /\ pc[Runner] # "done" => RunnerCanGo

(* A thread that waits for the flush lock, or holds it between two targets, *)
(* has targets left; after the stop the run's thread is never idle.         *)
RunnerInv ==
  /\ \A f \in Threads : pc[f] \in {"waiting", "flushing"} => todo[f] # {}
  /\ stopping => pc[Runner] # "idle"
  /\ pc[Runner] = "joined" => known # {}

(* One thread moves, to a place where it has what it needs. *)
MovesRightly(f) ==
  /\ pc' = [pc EXCEPT ![f] = pc'[f]] /\ todo' = [todo EXCEPT ![f] = todo'[f]]
  /\ pc'[f] \in {"waiting", "flushing"} => todo'[f] # {}
  /\ f = Runner /\ stopping' => pc'[f] # "idle"
  /\ f = Runner /\ pc'[f] = "joined" => known # {}
  /\ known \subseteq known' /\ (stopping' = stopping \/ f = Runner)

LEMMA MovesKeepRunnerInv ==
  ASSUME ThreadTypes, RunnerInv, NEW f \in Threads, MovesRightly(f)
  PROVE  RunnerInv'
<1>1. \A g \in Threads : g # f => pc'[g] = pc[g] /\ todo'[g] = todo[g]
  BY DEF MovesRightly, ThreadTypes
<1>2. Runner \in Threads
  BY DEF Threads
<1> QED  BY <1>1, <1>2 DEF MovesRightly, RunnerInv

LEMMA TargetDoneMovesRightly ==
  ASSUME ThreadTypes, NEW f \in Threads, pc[f] \in {"reading", "writing"}, TargetDone(f),
         known' = known, stopping' = stopping
  PROVE  MovesRightly(f)
<1>1. job[f].target \in todo[f]
  BY DEF ThreadTypes
<1>2. pc'[f] \in {"flushing", "closing", "idle"} /\ pc' = [pc EXCEPT ![f] = pc'[f]]
  BY DEF TargetDone, Goto, ThreadTypes
<1>3. todo' = [todo EXCEPT ![f] = todo'[f]] /\ todo'[f] = todo[f] \ {job[f].target}
  BY DEF TargetDone, ThreadTypes
<1>4. pc'[f] = "flushing" => todo[f] # {job[f].target}
  BY DEF TargetDone, Goto, ThreadTypes
<1>5. f = Runner /\ stopping => pc'[f] # "idle"
  BY DEF TargetDone, Goto, ThreadTypes
<1> QED  BY <1>1, <1>2, <1>3, <1>4, <1>5 DEF MovesRightly

LEMMA StepsMoveRightly ==
  ASSUME ThreadTypes, RunnerInv, Next
  PROVE  UNCHANGED <<pc, todo, stopping, known>> \/ \E f \in Threads : MovesRightly(f)
<1> USE DEF targetVars, threadVars
<1> DEFINE Right == UNCHANGED <<pc, todo, stopping, known>> \/ \E f \in Threads : MovesRightly(f)
<1>1. /\ pc \in [Threads -> Places] /\ todo \in [Threads -> SUBSET known]
      /\ Runner \in Threads /\ Loop \in Threads /\ Loop # Runner
  BY ThreadsAssumption DEF ThreadTypes, Threads
<1>2. CASE HostStep
  BY <1>2 DEF HostStep, HostAppends, HostEdits, HostCompacts
<1>3. CASE Tick
  <2>1. MovesRightly(Loop)
    BY <1>1, <1>3 DEF Tick, Goto, MovesRightly
  <2> QED  BY <1>1, <2>1
<1>4. CASE EndStep
  <2>1. CASE Stop
    BY <1>1, <2>1 DEF Stop, Goto, MovesRightly
  <2>2. CASE StartLastFlush
    BY <1>1, <2>2 DEF StartLastFlush, Goto, MovesRightly, RunnerInv
  <2>3. CASE LastFlushTimesOut
    BY <1>1, <2>3 DEF LastFlushTimesOut, Goto, MovesRightly
  <2>4. CASE Close
    BY <1>1, <2>4 DEF Close, Goto, MovesRightly
  <2>5. CASE Finish
    BY <1>1, <2>5 DEF Finish, Goto, MovesRightly
  <2>6. CASE ExportFails
    BY <1>1, <2>6 DEF ExportFails, Goto, MovesRightly
  <2>7. ASSUME NEW t \in Targets, ExportMissing(t) PROVE Right
    <3>1. pc' = [pc EXCEPT ![Runner] = pc'[Runner]] /\ pc'[Runner] = "exporting"
      BY <1>1, <2>7 DEF ExportMissing
    <3>2. /\ todo' = [todo EXCEPT ![Runner] = todo'[Runner]]
          /\ known' = known /\ stopping' = stopping
      BY <1>1, <2>7 DEF ExportMissing
    <3> QED  BY <1>1, <3>1, <3>2 DEF MovesRightly
  <2> QED  BY <1>4, <2>1, <2>2, <2>3, <2>4, <2>5, <2>6, <2>7 DEF EndStep
<1>5. ASSUME NEW f \in Threads, ReportStep(f) PROVE MovesRightly(f)
  <2>1. PICK t \in Targets, on \in BOOLEAN : Report(f, t, on)
    BY <1>5 DEF ReportStep
  <2> QED  BY <1>1, <2>1 DEF Report, Goto, MovesRightly
<1>6. ASSUME NEW f \in Threads, FlushStep(f) PROVE MovesRightly(f)
  <2>1. PICK t \in Targets : StartRead(f, t)
    BY <1>6 DEF FlushStep, AcquireFlushLock, NextTarget
  <2> QED  BY <1>1, <2>1 DEF StartRead, Goto, MovesRightly
<1>7. ASSUME NEW f \in Threads, ReadStep(f) PROVE MovesRightly(f)
  <2>1. CASE ReadFails(f)
    BY <2>1, TargetDoneMovesRightly DEF ReadFails, Reading
  <2>2. CASE ReadIncremental(f) \/ ReadFallback(f)
    <3>1. /\ pc' = [pc EXCEPT ![f] = "writing"] /\ todo' = todo /\ known' = known
          /\ stopping' = stopping
      <4>1. CASE ReadIncremental(f)
        BY <4>1 DEF ReadIncremental, Found, Goto
      <4>2. CASE ReadFallback(f)
        BY <4>2 DEF ReadFallback, Found, Goto
      <4> QED  BY <2>2, <4>1, <4>2
    <3> QED  BY <1>1, <3>1 DEF MovesRightly
  <2> QED  BY <1>7, <2>1, <2>2 DEF ReadStep
<1>8. ASSUME NEW f \in Threads, WriteStep(f) PROVE MovesRightly(f)
  <2>1. pc[f] = "writing" /\ AfterWrite(f)
    BY <1>8 DEF WriteStep, Write, WriteFails, Writing
  <2> QED  BY <2>1, TargetDoneMovesRightly DEF AfterWrite
<1> QED  BY <1>2, <1>3, <1>4, <1>5, <1>6, <1>7, <1>8 DEF Next

LEMMA RunnerInvariance == Spec => []RunnerInv
<1>1. Init => RunnerInv
  <2>1. Init => \A f \in Threads : pc[f] = "idle" /\ ~stopping
    BY DEF Init
  <2>2. Runner \in Threads
    BY DEF Threads
  <2> QED  BY <2>1, <2>2 DEF RunnerInv
<1>2. IInv /\ RunnerInv /\ [Next]_vars => RunnerInv'
  <2> SUFFICES ASSUME IInv, RunnerInv, [Next]_vars PROVE RunnerInv'
    OBVIOUS
  <2>1. ThreadTypes
    BY DEF IInv, Types
  <2>2. CASE UNCHANGED <<pc, todo, stopping, known>>
    BY <2>2 DEF RunnerInv
  <2>3. CASE Next
    BY <2>1, <2>2, <2>3, StepsMoveRightly, MovesKeepRunnerInv
  <2>4. CASE UNCHANGED vars
    BY <2>2, <2>4 DEF vars, targetVars, threadVars
  <2> QED  BY <2>3, <2>4
<1> QED  BY <1>1, <1>2, Invariance, PTL DEF Spec

(* The run's thread gets past stop() and to its end: wherever it is after   *)
(* the stop, unless a reading is under way, the guard of one of its steps   *)
(* holds, a hung flush of another thread or not (transcripts.py:412-414).   *)
THEOREM TheRunnerCanGoOn == Spec => []RunnerIsNeverStuck
<1>1. IInv /\ RunnerInv => RunnerIsNeverStuck
  <2> SUFFICES ASSUME IInv, RunnerInv, stopping, LockFree, pc[Runner] # "done"
               PROVE  RunnerCanGo
    BY DEF RunnerIsNeverStuck
  <2>1. Runner \in Threads
    BY DEF Threads
  <2>2. pc[Runner] \in Places \ {"idle", "reading", "done"}
    BY <2>1 DEF IInv, Types, ThreadTypes, RunnerInv, LockFree
  <2>3. CASE pc[Runner] \in {"waiting", "flushing"}
    BY <2>1, <2>3 DEF RunnerInv, RunnerCanGo
  <2>4. CASE pc[Runner] = "writing"
    <3>1. job[Runner] \in Jobs /\ JobIs(Runner, job[Runner], job[Runner].target)
      BY <2>1, <2>4 DEF IInv, Types, ThreadTypes, FlushInv, JobInv
    <3> QED  BY <2>4, <3>1 DEF Jobs, JobIs, RunnerCanGo
  <2>5. CASE pc[Runner] \in {"joined", "closing", "exporting"}
    BY <2>5 DEF RunnerCanGo
  <2> QED  BY <2>2, <2>3, <2>4, <2>5 DEF Places, Flushing
<1> QED  BY <1>1, Invariance, RunnerInvariance, PTL
=============================================================================
