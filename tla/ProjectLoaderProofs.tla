------------------------- MODULE ProjectLoaderProofs -------------------------
(***************************************************************************)
(* That a load keeps to its budgets and that a complete one lost nothing,  *)
(* for every set of files, every import between them and every limit.      *)
(* What is queued, in the wave, read and analyzed accounts for all that    *)
(* was ever seen until something cuts the load short (QueueInv, KeptInv);  *)
(* the bytes counted cover the sources admitted until a wave is deferred   *)
(* (BytesInv); the requests counted are the answered and the open ones     *)
(* (RequestInv); and an importer's answers go through one table            *)
(* (AnswerInv).  For these, of discovery nothing is needed but that it is  *)
(* over.  What discovery reports rests on the walk over the references:    *)
(* the active configurations are a path of references from the selection,  *)
(* the stack holds the exit of each of them below what they still refer    *)
(* to, and what a configuration left leads to has been left too, unless a  *)
(* cycle was reported (WalkInv); a chain of "extends" is as far as it was  *)
(* read (ChainInv), and each configuration has had its say (ToldInv).      *)
(***************************************************************************)
EXTENDS ProjectLoader, SequenceTheorems, Counting

Distinct(q) == \A m, n \in DOMAIN q : q[m] = q[n] => m = n
Keys == {a.key : a \in byKey}

(* Nothing has been loaded while files are discovered.                     *)
StartInv ==
  pc = "discover" =>
    /\ queue = <<>> /\ seen = {} /\ accepted = {} /\ wave = <<>> /\ read = {} /\ ~deferred
    /\ todo = {} /\ admitted = {} /\ byKey = {} /\ bySpecifier = {}
    /\ bytes = 0 /\ requestCount = 0

(* A path is in the queue or in the wave, once, before it is accepted.     *)
QueueInv ==
  /\ Distinct(queue) /\ Distinct(wave)
  /\ Range(queue) \cup Range(wave) \subseteq seen
  /\ Range(queue) \cap Range(wave) = {}
  /\ pc = "read" => Range(wave) \cap accepted = {}

(* Until the load is cut short, what was seen is in one of four places.    *)
KeptInv ==
  /\ pc \notin {"finish", "done"} => reason = "none"
  /\ pc \in {"wave", "read"} => ~deferred
  /\ (reason = "none" /\ ~deferred) => seen = Range(queue) \cup Range(wave) \cup read \cup analyzed
  /\ (pc \in {"wave", "analyze", "resolve", "enqueue"} /\ ~deferred) => wave = <<>>
  /\ pc \in {"wave", "resolve", "enqueue"} => read \subseteq analyzed
  /\ (pc = "finish" /\ reason = "none") => seen = analyzed /\ todo = {}
  /\ outcome = "complete" => pc = "done"

(* The bytes counted are those of the sources admitted and read, at least. *)
BytesInv ==
  /\ TotalBytes(admitted \cup read) <= MaxProjectBytes
  /\ ~deferred => TotalBytes(admitted \cup read) <= bytes /\ bytes <= MaxProjectBytes

(* A request is counted once, and answered or open.                        *)
RequestInv ==
  /\ IsFiniteSet(byKey) /\ IsFiniteSet(Keys)
  /\ requestCount = Cardinality(Keys) + Cardinality(todo)
  /\ requestCount = Cardinality(byKey) + Cardinality(todo)
  /\ Keys \cap todo = {}
  /\ \A r \in Keys \cup todo : r[1] \in analyzed
  /\ pc \in {"wave", "read", "analyze", "enqueue"} => todo = {}
  /\ Cardinality(byKey) <= MaxRequests
  /\ pc = "resolve" => requestCount <= MaxRequests

(* What an importer was answered for a specifier, it is answered always.   *)
AnswerInv ==
  /\ \A a \in byKey :
       [importer |-> a.key[1], specifier |-> Specifier(a.key), target |-> a.target] \in bySpecifier
  /\ \A b, c \in bySpecifier :
       (b.importer = c.importer /\ b.specifier = c.specifier) => b = c

IInv ==
  /\ TypeOK /\ StartInv /\ QueueInv /\ KeptInv /\ BytesInv /\ RequestInv /\ AnswerInv
  /\ BudgetsHold /\ CompleteIsClosed

----------------------------------------------------------------------------
(* Sequences and what they hold.                                           *)

LEMMA RangeMeaning ==
  ASSUME NEW f
  PROVE  \A x : x \in Range(f) <=> \E i \in DOMAIN f : f[i] = x
BY DEF Range

LEMMA PlacesOf ==
  ASSUME NEW S, NEW q \in Seq(S)
  PROVE  /\ Len(q) \in Nat /\ DOMAIN q = 1 .. Len(q) /\ Range(q) \subseteq S
         /\ \A x : x \in Range(q) <=> \E i \in 1 .. Len(q) : q[i] = x
<1>1. Len(q) \in Nat /\ DOMAIN q = 1 .. Len(q) /\ q \in [1 .. Len(q) -> S]
  BY LenProperties
<1>2. \A x : x \in Range(q) <=> \E i \in 1 .. Len(q) : q[i] = x
  BY <1>1, RangeMeaning, Zenon
<1>3. Range(q) \subseteq S
  BY <1>1, <1>2
<1> QED  BY <1>1, <1>2, <1>3, Zenon

LEMMA RangeOfEmpty == Range(<<>>) = {} /\ Distinct(<<>>)
BY DEF Range, Distinct

LEMMA RangeOfAppend ==
  ASSUME NEW S, NEW q \in Seq(S), NEW x \in S
  PROVE  /\ Append(q, x) \in Seq(S)
         /\ Range(Append(q, x)) = Range(q) \cup {x}
         /\ (Distinct(q) /\ x \notin Range(q)) => Distinct(Append(q, x))
<1> DEFINE p == Append(q, x)
<1>1. /\ p \in Seq(S) /\ Len(p) = Len(q) + 1
      /\ \A i \in 1 .. Len(q) : p[i] = q[i]
      /\ p[Len(q) + 1] = x
  OBVIOUS
<1>2. /\ Len(q) \in Nat /\ DOMAIN q = 1 .. Len(q) /\ DOMAIN p = 1 .. Len(p)
      /\ \A y : y \in Range(q) <=> \E i \in 1 .. Len(q) : q[i] = y
      /\ \A y : y \in Range(p) <=> \E i \in 1 .. Len(p) : p[i] = y
  <2> HIDE DEF p
  <2>1. Len(q) \in Nat /\ DOMAIN q = 1 .. Len(q) /\ DOMAIN p = 1 .. Len(p)
    BY <1>1, PlacesOf, Zenon
  <2> QED  BY <1>1, <2>1, PlacesOf, Zenon
<1>3. \A i : i \in DOMAIN p <=> i \in DOMAIN q \/ i = Len(q) + 1
  <2> HIDE DEF p
  <2> QED  BY <1>1, <1>2
<1>4. Range(p) = Range(q) \cup {x}
  <2> HIDE DEF p
  <2> QED  BY <1>1, <1>2, <1>3
<1>5. ASSUME Distinct(q), x \notin Range(q) PROVE Distinct(p)
  <2> HIDE DEF p
  <2> SUFFICES ASSUME NEW m \in DOMAIN p, NEW n \in DOMAIN p, p[m] = p[n] PROVE m = n
    BY DEF Distinct
  <2>1. \A i \in DOMAIN q : p[i] = q[i] /\ q[i] # x
    BY <1>1, <1>2, <1>5
  <2> QED  BY <1>1, <1>3, <1>5, <2>1 DEF Distinct
<1> QED  BY <1>1, <1>4, <1>5

LEMMA RangeOfTail ==
  ASSUME NEW S, NEW q \in Seq(S), q # <<>>
  PROVE  /\ Head(q) \in S /\ Tail(q) \in Seq(S) /\ Len(Tail(q)) <= Len(q)
         /\ Range(q) = Range(Tail(q)) \cup {Head(q)}
         /\ Distinct(q) => Distinct(Tail(q)) /\ Head(q) \notin Range(Tail(q))
<1> DEFINE t == Tail(q)
<1>1. /\ Head(q) \in S /\ t \in Seq(S) /\ Len(t) = Len(q) - 1
      /\ \A i \in 1 .. Len(t) : t[i] = q[i + 1]
  BY HeadTailProperties
<1>2. /\ Len(q) \in Nat /\ Len(q) # 0 /\ Head(q) = q[1]
      /\ DOMAIN q = 1 .. Len(q) /\ DOMAIN t = 1 .. Len(t)
      /\ \A y : y \in Range(q) <=> \E i \in 1 .. Len(q) : q[i] = y
      /\ \A y : y \in Range(t) <=> \E i \in 1 .. Len(t) : t[i] = y
  <2>1. Len(q) # 0 /\ Head(q) = q[1]
    OBVIOUS
  <2> HIDE DEF t
  <2>2. Len(q) \in Nat /\ DOMAIN q = 1 .. Len(q) /\ DOMAIN t = 1 .. Len(t)
    BY <1>1, PlacesOf, Zenon
  <2> QED  BY <1>1, <2>1, <2>2, PlacesOf, Zenon
<1> HIDE DEF t
<1>3. Len(t) \in Nat /\ Len(t) <= Len(q)
  BY <1>1, <1>2
<1>4. /\ \A i \in DOMAIN t : i + 1 \in DOMAIN q /\ i + 1 # 1 /\ t[i] = q[i + 1]
      /\ \A i \in DOMAIN q : i = 1 \/ (i - 1 \in DOMAIN t /\ q[i] = t[i - 1])
      /\ 1 \in DOMAIN q
  BY <1>1, <1>2
<1>5. Range(q) = Range(t) \cup {Head(q)}
  <2>1. ASSUME NEW y \in Range(q) PROVE y \in Range(t) \cup {Head(q)}
    <3>1. PICK i \in DOMAIN q : q[i] = y
      BY <1>2
    <3> QED  BY <1>2, <1>4, <3>1
  <2>2. ASSUME NEW y \in Range(t) PROVE y \in Range(q)
    BY <1>2, <1>4
  <2>3. Head(q) \in Range(q)
    BY <1>2, <1>4
  <2> QED  BY <2>1, <2>2, <2>3
<1>6. ASSUME Distinct(q) PROVE Distinct(t) /\ Head(q) \notin Range(t)
  <2>1. Head(q) \notin Range(t)
    BY <1>2, <1>4, <1>6 DEF Distinct
  <2>2. ASSUME NEW m \in DOMAIN t, NEW n \in DOMAIN t, t[m] = t[n] PROVE m = n
    <3>1. m + 1 = n + 1
      BY <1>4, <1>6, <2>2 DEF Distinct
    <3>2. m \in Int /\ n \in Int
      BY <1>2, <1>3
    <3> QED  BY <3>1, <3>2
  <2> QED  BY <2>1, <2>2 DEF Distinct
<1> QED  BY <1>1, <1>3, <1>5, <1>6 DEF t

(* A sequence is cut in two parts that share nothing.                      *)
LEMMA RangeOfParts ==
  ASSUME NEW S, NEW q \in Seq(S), NEW k \in 0 .. Len(q)
  PROVE  /\ SubSeq(q, 1, k) \in Seq(S) /\ Len(SubSeq(q, 1, k)) = k
         /\ SubSeq(q, k + 1, Len(q)) \in Seq(S)
         /\ Range(q) = Range(SubSeq(q, 1, k)) \cup Range(SubSeq(q, k + 1, Len(q)))
         /\ Distinct(q) => /\ Distinct(SubSeq(q, 1, k)) /\ Distinct(SubSeq(q, k + 1, Len(q)))
                           /\ Range(SubSeq(q, 1, k)) \cap Range(SubSeq(q, k + 1, Len(q))) = {}
<1> DEFINE s == SubSeq(q, 1, k)
           t == SubSeq(q, k + 1, Len(q))
<1>1. Len(q) \in Nat /\ k \in Nat /\ k <= Len(q) /\ DOMAIN q = 1 .. Len(q)
  BY PlacesOf
<1>2. \A i \in 1 .. Len(q) : q[i] \in S
  BY LenProperties
<1>3. /\ s \in Seq(S) /\ Len(s) = k /\ \A i \in 1 .. k : s[i] = q[i]
  <2>1. \A i \in 1 .. k : q[i] \in S
    BY <1>1, <1>2
  <2>2. /\ s \in Seq(S) /\ Len(s) = IF 1 <= k THEN k - 1 + 1 ELSE 0
        /\ \A i \in 1 .. k - 1 + 1 : s[i] = q[1 + i - 1]
    BY <1>1, <2>1, SubSeqProperties
  <2> HIDE DEF s
  <2>3. k - 1 + 1 = k /\ \A i \in 1 .. k : 1 + i - 1 = i
    BY <1>1
  <2> QED  BY <1>1, <2>2, <2>3
<1>4. /\ t \in Seq(S) /\ Len(t) = Len(q) - k /\ \A i \in 1 .. Len(q) - k : t[i] = q[k + i]
  <2>1. \A i \in k + 1 .. Len(q) : q[i] \in S
    BY <1>1, <1>2
  <2>2. /\ t \in Seq(S) /\ Len(t) = IF k + 1 <= Len(q) THEN Len(q) - (k + 1) + 1 ELSE 0
        /\ \A i \in 1 .. Len(q) - (k + 1) + 1 : t[i] = q[k + 1 + i - 1]
    BY <1>1, <2>1, SubSeqProperties
  <2> HIDE DEF t
  <2>3. Len(q) - (k + 1) + 1 = Len(q) - k /\ \A i \in 1 .. Len(q) - k : k + 1 + i - 1 = k + i
    BY <1>1
  <2>4. Len(t) = Len(q) - k
    <3>1. \A a, b \in Nat :
            b <= a => (IF b + 1 <= a THEN a - (b + 1) + 1 ELSE 0) = a - b
      OBVIOUS
    <3>2. (IF k + 1 <= Len(q) THEN Len(q) - (k + 1) + 1 ELSE 0) = Len(q) - k
      BY <1>1, <3>1
    <3>3. Len(t) = IF k + 1 <= Len(q) THEN Len(q) - (k + 1) + 1 ELSE 0
      BY <2>2
    <3> QED  BY <3>2, <3>3
  <2>5. \A i \in 1 .. Len(q) - k : t[i] = q[k + 1 + i - 1]
    BY <2>2, <2>3
  <2>6. \A i \in 1 .. Len(q) - k : t[i] = q[k + i]
    BY <2>3, <2>5
  <2> QED  BY <2>2, <2>4, <2>6
<1> HIDE DEF s, t
<1>5. /\ DOMAIN s = 1 .. k /\ DOMAIN t = 1 .. Len(q) - k
      /\ \A y : y \in Range(q) <=> \E i \in DOMAIN q : q[i] = y
      /\ \A y : y \in Range(s) <=> \E i \in DOMAIN s : s[i] = y
      /\ \A y : y \in Range(t) <=> \E i \in DOMAIN t : t[i] = y
  <2>1. DOMAIN s = 1 .. Len(s) /\ DOMAIN t = 1 .. Len(t)
    BY <1>3, <1>4, PlacesOf, Zenon
  <2>2. DOMAIN s = 1 .. k /\ DOMAIN t = 1 .. Len(q) - k
    BY <1>3, <1>4, <2>1
  <2> QED  BY <2>2, RangeMeaning, Zenon
<1>6. /\ \A i \in DOMAIN q : i \in DOMAIN s \/ (i - k \in DOMAIN t /\ k + (i - k) = i)
      /\ \A i \in DOMAIN s : i \in DOMAIN q
      /\ \A i \in DOMAIN t : k + i \in DOMAIN q /\ k + i \notin DOMAIN s
      /\ \A i, j \in DOMAIN t : k + i = k + j => i = j
  BY <1>1, <1>5
<1>7. Range(q) = Range(s) \cup Range(t)
  <2>1. \A i \in DOMAIN s : s[i] = q[i]
    BY <1>3, <1>5
  <2>2. \A i \in DOMAIN t : t[i] = q[k + i]
    BY <1>4, <1>5
  <2>3. ASSUME NEW y \in Range(q) PROVE y \in Range(s) \cup Range(t)
    <3>1. PICK i \in DOMAIN q : q[i] = y
      BY <1>5
    <3>2. CASE i \in DOMAIN s
      BY <1>5, <2>1, <3>1, <3>2
    <3>3. CASE i - k \in DOMAIN t /\ k + (i - k) = i
      BY <1>5, <2>2, <3>1, <3>3
    <3> QED  BY <1>6, <3>2, <3>3
  <2>4. Range(s) \subseteq Range(q)
    BY <1>5, <1>6, <2>1
  <2>5. Range(t) \subseteq Range(q)
    BY <1>5, <1>6, <2>2
  <2> QED  BY <2>3, <2>4, <2>5
<1>8. ASSUME Distinct(q) PROVE Distinct(s) /\ Distinct(t) /\ Range(s) \cap Range(t) = {}
  <2>1. Distinct(s)
    BY <1>3, <1>5, <1>6, <1>8 DEF Distinct
  <2>2. ASSUME NEW i \in DOMAIN t, NEW j \in DOMAIN t, t[i] = t[j] PROVE i = j
    <3>1. t[i] = q[k + i] /\ t[j] = q[k + j]
      BY <1>4, <1>5
    <3>2. k + i \in DOMAIN q /\ k + j \in DOMAIN q
      BY <1>6
    <3>3. k + i = k + j
      BY <1>8, <2>2, <3>1, <3>2 DEF Distinct
    <3> QED  BY <1>6, <3>3
  <2>3. ASSUME NEW i \in DOMAIN s, NEW j \in DOMAIN t PROVE s[i] # t[j]
    <3>1. s[i] = q[i] /\ t[j] = q[k + j]
      BY <1>3, <1>4, <1>5
    <3>2. i # k + j /\ i \in DOMAIN q /\ k + j \in DOMAIN q
      BY <1>6
    <3> QED  BY <1>8, <3>1, <3>2 DEF Distinct
  <2> QED  BY <1>5, <2>1, <2>2, <2>3 DEF Distinct
<1> QED  BY <1>3, <1>4, <1>7, <1>8 DEF s, t

----------------------------------------------------------------------------
(* Bytes of sets of files, and how many requests there are.                *)

LEMMA FilesAreFinite ==
  ASSUME NEW S \in SUBSET Files
  PROVE  /\ IsFiniteSet(S) /\ Cardinality(S) \in Nat
         /\ TotalBytes(S) = Cardinality(Units(S, Bytes)) /\ TotalBytes(S) \in Nat
<1>1. IsFiniteSet(S) /\ \A f \in S : Bytes[f] \in Nat
  BY LoaderAssumption, FS_Subset
<1>2. TotalBytes(S) = Cardinality(Units(S, Bytes))
  BY DEF TotalBytes, Units
<1> QED  BY <1>1, <1>2, UnitsFinite, FS_CardinalityType

LEMMA TotalAdds ==
  ASSUME NEW S \in SUBSET Files, NEW T \in SUBSET Files, S \cap T = {}
  PROVE  TotalBytes(S \cup T) = TotalBytes(S) + TotalBytes(T)
<1>1. IsFiniteSet(S) /\ IsFiniteSet(T)
  BY FilesAreFinite
<1>2. \A f \in S \cup T : Bytes[f] \in Nat
  BY LoaderAssumption
<1>3. Cardinality(Units(S \cup T, Bytes))
        = Cardinality(Units(S, Bytes)) + Cardinality(Units(T, Bytes))
  <2>1. CanBeAdded(S, T, Bytes)
    BY <1>1, <1>2 DEF CanBeAdded
  <2> QED  BY <2>1, UnitsAdd
<1>4. S \cup T \in SUBSET Files
  OBVIOUS
<1> QED  BY <1>3, <1>4, FilesAreFinite

LEMMA TotalOfOneMore ==
  ASSUME NEW S \in SUBSET Files, NEW f \in Files, f \notin S
  PROVE  TotalBytes(S \cup {f}) = TotalBytes(S) + Bytes[f]
<1>1. TotalBytes(S \cup {f}) = TotalBytes(S) + TotalBytes({f})
  <2>1. {f} \in SUBSET Files /\ S \cap {f} = {}
    OBVIOUS
  <2> QED  BY <2>1, TotalAdds
<1>2. TotalBytes({f}) = Bytes[f]
  <2>1. Bytes[f] \in Nat
    BY LoaderAssumption
  <2>2. Cardinality(Units({f}, Bytes)) = Bytes[f]
    BY <2>1, UnitsOfOne
  <2>3. {f} \in SUBSET Files
    OBVIOUS
  <2> QED  BY <2>2, <2>3, FilesAreFinite
<1> QED  BY <1>1, <1>2

LEMMA TotalGrows ==
  ASSUME NEW T \in SUBSET Files, NEW S \in SUBSET T
  PROVE  TotalBytes(S) <= TotalBytes(T)
<1>1. S \in SUBSET Files /\ T \ S \in SUBSET Files /\ S \cap (T \ S) = {} /\ S \cup (T \ S) = T
  OBVIOUS
<1>2. TotalBytes(S \cup (T \ S)) = TotalBytes(S) + TotalBytes(T \ S)
  BY <1>1, TotalAdds
<1>3. TotalBytes(S) \in Nat /\ TotalBytes(T \ S) \in Nat
  BY <1>1, FilesAreFinite
<1>4. TotalBytes(T) = TotalBytes(S) + TotalBytes(T \ S)
  BY <1>1, <1>2, Zenon
<1>5. \A k, m, n : k \in Nat /\ m \in Nat /\ n = k + m => k <= n
  OBVIOUS
<1> QED  BY <1>3, <1>4, <1>5

LEMMA RequestsAreFinite == IsFiniteSet(Requests)
<1> DEFINE size == [f \in Files |-> Len(Imports[f])]
<1>1. \A f \in Files : size[f] \in Nat /\ DOMAIN Imports[f] = 1 .. size[f]
  <2>1. \A f \in Files : Imports[f] \in Seq(Files \cup {External})
    BY LoaderAssumption
  <2> QED  BY <2>1, LenProperties
<1>2. Requests = Units(Files, size)
  <2> HIDE DEF size
  <2> QED  BY <1>1 DEF Requests, RequestsOf, Units
<1>3. IsFiniteSet(Files)
  BY LoaderAssumption
<1> HIDE DEF size
<1> QED  BY <1>1, <1>2, <1>3, UnitsFinite

----------------------------------------------------------------------------
(* The steps that only move the load from one phase to another.            *)

Contents == <<queue, seen, accepted, metrics, wave, read, deferred, admitted, analyzed, todo, answers>>
Quiet ==
  /\ UNCHANGED Contents
  /\ \/ UNCHANGED <<pc, reason, outcome>>
     \/ /\ pc' = "done" /\ reason' = reason
        /\ outcome' = "complete" => pc = "finish" /\ reason = "none"
     \/ /\ pc' = "finish" /\ outcome' = outcome /\ outcome # "complete"
        /\ reason' = "none" => pc = "wave" /\ queue = <<>>
     \/ pc = "read" /\ wave = <<>> /\ pc' = "analyze" /\ UNCHANGED <<reason, outcome>>
     \/ pc = "analyze" /\ read = {} /\ ~deferred /\ pc' = "wave" /\ UNCHANGED <<reason, outcome>>
     \/ pc = "resolve" /\ todo = {} /\ pc' = "enqueue" /\ UNCHANGED <<reason, outcome>>
     \/ pc = "enqueue" /\ ~deferred /\ pc' = "wave" /\ UNCHANGED <<reason, outcome>>

LEMMA StepsOfALoad ==
  ASSUME IInv, [Next]_vars
  PROVE  \/ Quiet \/ Discovered \/ StartWave \/ ReadFails \/ ByteLimit \/ Read
         \/ WorkerPanics \/ Analyzed
         \/ (\E r \in Requests : Resolve(r)) \/ \E f \in Files : Enqueue(f)
<1> USE DEF Quiet, Contents, metrics, frontier, answers, disk, session, waveVars, Stop
<1>0. pc # "done" => outcome # "complete"
  BY DEF IInv, KeptInv
<1>1. CASE TimeOut
  BY <1>1 DEF TimeOut
<1>2. CASE FrontierClosed
  BY <1>0, <1>2 DEF FrontierClosed
<1>3. CASE FileLimit
  BY <1>0, <1>3 DEF FileLimit, Reading
<1>4. CASE WaveRead
  BY <1>4 DEF WaveRead
<1>5. CASE SessionRejects
  BY <1>0, <1>5 DEF SessionRejects, Submit
<1>6. CASE NothingRead
  BY <1>0, <1>6 DEF NothingRead
<1>7. CASE \E r \in Requests : ResolverFails(r)
  BY <1>0, <1>7 DEF ResolverFails, Resolving
<1>8. CASE Resolved
  BY <1>8 DEF Resolved
<1>9. CASE \E f \in Files : TargetGone(f)
  BY <1>0, <1>9 DEF TargetGone, Target
<1>10. CASE EndWave
  BY <1>0, <1>10 DEF EndWave
<1>11. CASE Finish
  BY <1>11 DEF Finish
<1>12. CASE Select
  BY <1>12 DEF Select, loader
<1>13. CASE NotDiscovered
  BY <1>13 DEF NotDiscovered
<1>14. CASE Expire
  BY <1>14 DEF Expire, loader
<1>15. CASE FileRemoved
  BY <1>15 DEF FileRemoved
<1>16. CASE UNCHANGED vars
  BY <1>16 DEF vars
<1> QED
  BY <1>1, <1>2, <1>3, <1>4, <1>5, <1>6, <1>7, <1>8, <1>9, <1>10, <1>11, <1>12, <1>13, <1>14,
     <1>15, <1>16 DEF Next, Load, Returned

----------------------------------------------------------------------------
(* The invariant holds when the load begins.                               *)

LEMMA NothingInSequence == <<>> \in Seq(Files) /\ Len(<<>>) = 0
BY EmptySeq

LEMMA InitIInv == ASSUME Init PROVE IInv
<1> USE DEF Init
<1>1. TypeOK /\ StartInv
  <2>1. StartInv
    BY DEF StartInv
  <2>2. WaveSize \in Nat
    BY LoaderAssumption
  <2>3. <<>> \in Seq(Files) /\ Len(<<>>) <= WaveSize /\ Range(<<>>) = {}
    BY <2>2, NothingInSequence, RangeOfEmpty
  <2> HIDE DEF Init
  <2>4. queue \in Seq(Files) /\ wave \in Seq(Files) /\ Len(wave) <= WaveSize /\ targets \in Seq(Files)
    BY <2>3 DEF Init
  <2>5. Range(queue) \cap accepted = {}
    BY DEF Init
  <2>6. /\ present \subseteq Files /\ expired \in BOOLEAN /\ deferred \in BOOLEAN
        /\ pc \in {"discover", "wave", "read", "analyze", "resolve", "enqueue", "finish", "done"}
        /\ reason \in Reasons
        /\ outcome \in {"running", "complete", "partial", "timeout", "incomplete",
                       "invalid target", "refused"}
    BY DEF Init, Reasons
  <2>7. bytes \in Nat /\ requestCount \in Nat
    BY DEF Init
  <2> QED  BY <2>1, <2>4, <2>5, <2>6, <2>7 DEF Init, TypeOK
<1>2. QueueInv /\ KeptInv
  BY RangeOfEmpty DEF QueueInv, KeptInv
<1>3. TotalBytes({}) = 0 /\ Cardinality({}) = 0 /\ IsFiniteSet({})
  BY NoUnits, FilesAreFinite, FS_EmptySet
<1>4. BytesInv
  <2>1. admitted \cup read = {}
    OBVIOUS
  <2> QED  BY <1>3, <2>1, LoaderAssumption DEF BytesInv
<1>5. Keys = {}
  BY DEF Keys
<1>6. RequestInv /\ AnswerInv
  BY <1>3, <1>5, LoaderAssumption DEF RequestInv, AnswerInv
<1>7. BudgetsHold /\ CompleteIsClosed
  BY <1>3, LoaderAssumption DEF BudgetsHold, CompleteIsClosed
<1> QED  BY <1>1, <1>2, <1>4, <1>6, <1>7 DEF IInv

----------------------------------------------------------------------------
(* Every step keeps the types.                                             *)

(* What is taken off the queue for one wave.                               *)
LEMMA WaveFacts ==
  ASSUME TypeOK, QueueInv, pc = "wave", NEW k, k = WaveLength
  PROVE  /\ k \in 0 .. Len(queue) /\ k <= WaveSize
         /\ SubSeq(queue, 1, k) \in Seq(Files) /\ Len(SubSeq(queue, 1, k)) = k
         /\ SubSeq(queue, k + 1, Len(queue)) \in Seq(Files)
         /\ Range(queue) = Range(SubSeq(queue, 1, k)) \cup Range(SubSeq(queue, k + 1, Len(queue)))
         /\ Distinct(SubSeq(queue, 1, k)) /\ Distinct(SubSeq(queue, k + 1, Len(queue)))
         /\ Range(SubSeq(queue, 1, k)) \cap Range(SubSeq(queue, k + 1, Len(queue))) = {}
         /\ NewPaths(SubSeq(queue, 1, k)) = SubSeq(queue, 1, k)
<1>1. queue \in Seq(Files) /\ Len(queue) \in Nat /\ WaveSize \in Nat
  <2>1. queue \in Seq(Files)
    BY DEF TypeOK
  <2>2. WaveSize \in Nat
    BY LoaderAssumption
  <2> QED  BY <2>1, <2>2, LenProperties
<1>2. k \in 0 .. Len(queue) /\ k <= WaveSize
  BY <1>1 DEF WaveLength
<1>3. Distinct(queue) /\ Range(queue) \cap accepted = {}
  BY DEF QueueInv, TypeOK
<1>4. /\ SubSeq(queue, 1, k) \in Seq(Files) /\ Len(SubSeq(queue, 1, k)) = k
      /\ SubSeq(queue, k + 1, Len(queue)) \in Seq(Files)
      /\ Range(queue) = Range(SubSeq(queue, 1, k)) \cup Range(SubSeq(queue, k + 1, Len(queue)))
      /\ Distinct(queue) =>
           /\ Distinct(SubSeq(queue, 1, k)) /\ Distinct(SubSeq(queue, k + 1, Len(queue)))
           /\ Range(SubSeq(queue, 1, k)) \cap Range(SubSeq(queue, k + 1, Len(queue))) = {}
  BY <1>1, <1>2, RangeOfParts
<1>5. Range(SubSeq(queue, 1, k)) \cap accepted = {}
  BY <1>3, <1>4
<1>6. NewPaths(SubSeq(queue, 1, k)) = SubSeq(queue, 1, k)
  BY <1>5 DEF NewPaths
<1> QED  BY <1>2, <1>3, <1>4, <1>6

(* The files found are queued once each.                                   *)
LEMMA FoundFacts ==
  ASSUME NEW S \in SUBSET Files, NEW q \in InPathOrder(S)
  PROVE  q \in Seq(Files) /\ Range(q) = S /\ Distinct(q)
<1>1. /\ S \in SUBSET Nat /\ IsFiniteSet(S) /\ Cardinality(S) \in Nat
  BY FilesAreFinite, LoaderAssumption
<1>2. /\ q \in [1 .. Cardinality(S) -> S] /\ DOMAIN q = 1 .. Cardinality(S)
      /\ \A m, n \in DOMAIN q : m < n => q[m] < q[n]
  BY DEF InPathOrder
<1>3. /\ \A x \in S : \E n \in DOMAIN q : q[n] = x
      /\ \A m, n \in DOMAIN q : q[m] = q[n] => m = n
  BY <1>1, <1>2, IncreasingIsOnto
<1>4. q \in Seq(Files)
  <2>1. \A n \in Nat : \A p \in [1 .. n -> Files] : p \in Seq(Files)
    OBVIOUS
  <2>2. q \in [1 .. Cardinality(S) -> Files]
    BY <1>2
  <2> QED  BY <1>1, <2>1, <2>2
<1>5. Range(q) = S
  <2>1. \A x \in Range(q) : x \in S
    BY <1>2, RangeMeaning, ZenonT(60)
  <2>2. \A x \in S : x \in Range(q)
    BY <1>3, RangeMeaning, Zenon
  <2> QED  BY <2>1, <2>2
<1> QED  BY <1>3, <1>4, <1>5 DEF Distinct

(* The path that is read next.                                             *)
LEMMA NextInWave ==
  ASSUME TypeOK, QueueInv, Reading
  PROVE  /\ Head(wave) \in Files /\ Head(wave) \in seen /\ Head(wave) \notin accepted
         /\ Head(wave) \notin Range(queue)
         /\ Tail(wave) \in Seq(Files) /\ Len(Tail(wave)) <= WaveSize
         /\ Distinct(Tail(wave)) /\ Range(wave) = Range(Tail(wave)) \cup {Head(wave)}
         /\ Head(wave) \notin Range(Tail(wave))
<1>1. wave \in Seq(Files) /\ wave # <<>> /\ Len(wave) <= WaveSize /\ pc = "read"
  BY DEF Reading, TypeOK
<1>2. /\ Head(wave) \in Files /\ Tail(wave) \in Seq(Files) /\ Len(Tail(wave)) <= Len(wave)
      /\ Range(wave) = Range(Tail(wave)) \cup {Head(wave)}
      /\ Distinct(wave) => Distinct(Tail(wave)) /\ Head(wave) \notin Range(Tail(wave))
  BY <1>1, RangeOfTail
<1>3. Len(Tail(wave)) <= WaveSize
  <2>1. Len(Tail(wave)) \in Nat /\ Len(wave) \in Nat /\ WaveSize \in Nat
    BY <1>1, <1>2, LenProperties, LoaderAssumption
  <2> QED  BY <1>1, <1>2, <2>1
<1> QED  BY <1>1, <1>2, <1>3 DEF QueueInv

LEMMA RequestFacts ==
  ASSUME NEW r \in Requests
  PROVE  r[1] \in Files /\ Specifier(r) \in Files \cup {External}
<1>1. PICK f \in Files : r \in {f} \X DOMAIN Imports[f]
  BY DEF Requests, RequestsOf
<1>2. r[1] = f /\ r[2] \in DOMAIN Imports[f]
  BY <1>1
<1>3. Imports[f] \in Seq(Files \cup {External})
  BY LoaderAssumption
<1>4. \A i \in DOMAIN Imports[f] : Imports[f][i] \in Files \cup {External}
  BY <1>3, LenProperties
<1> QED  BY <1>2, <1>4 DEF Specifier

LEMMA TypeNext == ASSUME IInv, [Next]_vars PROVE TypeOK'
<1>1. TypeOK /\ QueueInv /\ StartInv
  BY DEF IInv
<1>2. expired' \in BOOLEAN
  <2>1. expired \in BOOLEAN
    BY <1>1 DEF TypeOK
  <2> QED
    BY <2>1 DEF Next, Load, TimeOut, StartWave, FrontierClosed, FileLimit, ReadFails, ByteLimit,
         Read, WaveRead, SessionRejects, WorkerPanics, Analyzed, NothingRead, Resolve,
         ResolverFails, Resolved, Enqueue, TargetGone, EndWave, Finish, Select, Discovered,
         NotDiscovered, Returned, Expire, FileRemoved, disk, vars
<1> USE <1>1, <1>2 DEF frontier, answers, session, waveVars, metrics, disk, Stop, Reasons, Boundaries
<1>3. CASE TimeOut \/ FrontierClosed \/ WaveRead \/ NothingRead \/ Resolved \/ EndWave \/ Finish
  BY <1>3, ZenonT(60) DEF TypeOK, TimeOut, FrontierClosed, WaveRead, NothingRead, Resolved, EndWave, Finish
<1>4. CASE FileLimit \/ ByteLimit \/ ReadFails
  BY <1>4, NextInWave, ZenonT(60) DEF TypeOK, FileLimit, ByteLimit, ReadFails, Accept
<1>5. CASE StartWave
  <2> USE <1>5
  <2>1. /\ WaveLength \in 0 .. Len(queue) /\ WaveLength <= WaveSize
        /\ SubSeq(queue, 1, WaveLength) \in Seq(Files)
        /\ Len(SubSeq(queue, 1, WaveLength)) = WaveLength
        /\ SubSeq(queue, WaveLength + 1, Len(queue)) \in Seq(Files)
        /\ Range(queue) = Range(SubSeq(queue, 1, WaveLength))
                            \cup Range(SubSeq(queue, WaveLength + 1, Len(queue)))
        /\ NewPaths(SubSeq(queue, 1, WaveLength)) = SubSeq(queue, 1, WaveLength)
    BY WaveFacts DEF StartWave
  <2>2. /\ wave' = SubSeq(queue, 1, WaveLength)
        /\ queue' = SubSeq(queue, WaveLength + 1, Len(queue))
        /\ pc' = "read" /\ read' = {} /\ deferred' = FALSE
    BY <2>1 DEF StartWave
  <2> HIDE <1>5 DEF WaveLength
  <2>3. wave' \in Seq(Files) /\ Len(wave') <= WaveSize /\ queue' \in Seq(Files)
    BY <2>1, <2>2
  <2>4. Range(queue') \cap accepted = {}
    BY <2>1, <2>2 DEF TypeOK
  <2>5. UNCHANGED <<disk, seen, accepted, known, metrics, todo, targets, session, answers, reason,
                    outcome>>
    BY <1>5 DEF StartWave
  <2> QED  BY <2>2, <2>3, <2>4, <2>5 DEF TypeOK
<1>6. CASE Read
  <2>1. bytes' \in Nat
    <3>1. \A f \in Files : Bytes[f] \in Nat /\ Bytes[f] + Growth \in Nat
      BY LoaderAssumption
    <3>2. bytes \in Nat /\ Head(wave) \in Files
      BY <1>6, NextInWave DEF TypeOK, Read, Accept
    <3>3. PICK size \in {Bytes[Head(wave)], Bytes[Head(wave)] + Growth} : bytes' = bytes + size
      BY <1>6 DEF Read
    <3>4. size \in Nat
      BY <3>1, <3>2
    <3> QED  BY <3>2, <3>3, <3>4
  <2>2. /\ wave' \in {wave, Tail(wave)} /\ read' \subseteq read \cup {Head(wave)}
        /\ pc' \in {pc, "analyze"} /\ deferred' \in {deferred, TRUE}
        /\ accepted' = accepted \cup {Head(wave)}
    BY <1>6 DEF Read, Accept
  <2>3. /\ Head(wave) \in seen /\ Head(wave) \notin Range(queue)
        /\ Tail(wave) \in Seq(Files) /\ Len(Tail(wave)) <= WaveSize
    BY <1>6, NextInWave DEF Read, Accept
  <2>4. wave' \in Seq(Files) /\ Len(wave') <= WaveSize
    BY <2>2, <2>3 DEF TypeOK
  <2>5. Range(queue) \cap accepted' = {} /\ accepted' \subseteq seen /\ read' \subseteq accepted'
    BY <2>2, <2>3 DEF TypeOK
  <2>6. UNCHANGED <<disk, queue, seen, known, requestCount, todo, targets, session, answers, reason,
                    outcome>>
    BY <1>6 DEF Read
  <2> QED  BY <2>1, <2>2, <2>4, <2>5, <2>6, ZenonT(60) DEF TypeOK
<1>7. CASE SessionRejects \/ WorkerPanics
  BY <1>7 DEF TypeOK, SessionRejects, WorkerPanics, SessionAdmits, Submit
<1>8. CASE Analyzed
  <2>1. todo' \in SUBSET Requests
    BY <1>8 DEF Analyzed, Requests, TypeOK
  <2>2. requestCount' \in Nat
    <3>1. IsFiniteSet(todo')
      BY <2>1, RequestsAreFinite, FS_Subset
    <3>2. Cardinality(todo') \in Nat
      BY <3>1, FS_CardinalityType
    <3>3. requestCount' = requestCount + Cardinality(todo')
      BY <1>8 DEF Analyzed
    <3>4. requestCount \in Nat
      BY DEF TypeOK
    <3> QED  BY <3>2, <3>3, <3>4
  <2>3. /\ loaded' = loaded \cup read /\ admitted' = admitted \cup read
        /\ analyzed' = analyzed \cup read
        /\ pc' \in {"finish", "resolve"} /\ reason' \in {reason, "TooManyRequests"}
        /\ UNCHANGED <<disk, frontier, bytes, wave, read, deferred, targets, answers, outcome>>
    BY <1>8 DEF Analyzed, SessionAdmits, Submit
  <2> QED  BY <2>1, <2>2, <2>3 DEF TypeOK
<1>9. CASE \E r \in Requests : Resolve(r)
  <2>1. PICK r \in Requests, t \in Targets : Answer(r, t)
    <3>1. PICK r \in Requests : Resolve(r)
      BY <1>9
    <3>2. CASE Answer(r, FromDisk(Specifier(r)))
      <4>1. FromDisk(Specifier(r)) \in Targets
        BY RequestFacts DEF FromDisk, Targets, TypeOK
      <4> QED  BY <3>2, <4>1
    <3>3. CASE \E b \in Answered(r[1], Specifier(r)) : Answer(r, b.target)
      BY <3>3 DEF Answered, TypeOK
    <3> QED  BY <3>1, <3>2, <3>3 DEF Resolve
  <2>2. /\ byKey' \subseteq [key : Requests, target : Targets]
        /\ bySpecifier' \subseteq
             [importer : Files, specifier : Files \cup {External}, target : Targets]
        /\ todo' \subseteq Requests
    <3>1. r[1] \in Files /\ Specifier(r) \in Files \cup {External}
      BY RequestFacts
    <3>2. /\ [key |-> r, target |-> t] \in [key : Requests, target : Targets]
          /\ [importer |-> r[1], specifier |-> Specifier(r), target |-> t] \in
               [importer : Files, specifier : Files \cup {External}, target : Targets]
      BY <3>1
    <3>3. /\ byKey \subseteq [key : Requests, target : Targets]
          /\ bySpecifier \subseteq
               [importer : Files, specifier : Files \cup {External}, target : Targets]
          /\ todo \subseteq Requests
      BY DEF TypeOK
    <3> QED  BY <2>1, <3>2, <3>3 DEF Answer
  <2>3. targets' \in Seq(Files)
    <3>1. Internal(t) \in Seq(Files) /\ targets \in Seq(Files)
      <4>1. <<>> \in Seq(Files) /\ \A f \in Files : <<f>> \in Seq(Files)
        OBVIOUS
      <4> QED  BY <4>1 DEF Internal, TypeOK
    <3>2. targets' = targets \o Internal(t)
      BY <2>1 DEF Answer
    <3> HIDE DEF Internal
    <3> QED  BY <3>1, <3>2, ConcatProperties
  <2>4. UNCHANGED <<disk, pc, frontier, metrics, wave, read, deferred, session, reason, outcome>>
    BY <1>9 DEF Resolve
  <2> QED  BY <2>2, <2>3, <2>4, ZenonT(60) DEF TypeOK
<1>10. CASE \E r \in Requests : ResolverFails(r)
  BY <1>10 DEF TypeOK, ResolverFails
<1>11. CASE \E f \in Files : Enqueue(f)
  <2>1. PICK f \in Files : Enqueue(f)
    BY <1>11
  <2>2. targets' \in Seq(Files)
    <3>1. targets \in Seq(Files) /\ targets # <<>>
      BY <2>1 DEF Enqueue, Target, TypeOK
    <3> QED  BY <2>1, <3>1, HeadTailProperties DEF Enqueue, Target
  <2>3. queue' \in Seq(Files) /\ Range(queue') \cap accepted = {}
    <3>1. queue \in Seq(Files) /\ Range(queue) \cap accepted = {} /\ accepted \subseteq seen
      BY DEF TypeOK
    <3>2. /\ Append(queue, f) \in Seq(Files)
          /\ Range(Append(queue, f)) = Range(queue) \cup {f}
      BY <3>1, RangeOfAppend
    <3>3. queue' = IF f \in seen THEN queue ELSE Append(queue, f)
      BY <2>1 DEF Enqueue, Push
    <3> QED  BY <3>1, <3>2, <3>3
  <2>4. /\ seen' = seen \cup {f} /\ known' = known \cup {f}
        /\ UNCHANGED <<disk, pc, accepted, metrics, wave, read, deferred, todo, session, answers,
                       reason, outcome>>
    BY <2>1 DEF Enqueue, Push
  <2> QED  BY <2>2, <2>3, <2>4, ZenonT(60) DEF TypeOK
<1>12. CASE \E f \in Files : TargetGone(f)
  <2>1. PICK f \in Files : TargetGone(f)
    BY <1>12
  <2>2. targets' \in Seq(Files)
    <3>1. targets \in Seq(Files) /\ targets # <<>>
      BY <2>1 DEF TargetGone, Target, TypeOK
    <3> QED  BY <2>1, <3>1, HeadTailProperties DEF TargetGone, Target
  <2>3. pc' \in {pc, "finish"} /\ reason' \in {reason, "Io"}
    BY <2>1 DEF TargetGone
  <2>4. UNCHANGED <<disk, frontier, metrics, wave, read, deferred, todo, session, answers, outcome>>
    BY <2>1 DEF TargetGone
  <2> QED  BY <2>2, <2>3, <2>4, ZenonT(60) DEF TypeOK
<1>13. CASE Select \/ NotDiscovered \/ Expire \/ FileRemoved
  <2>1. CASE Select
    BY <2>1 DEF TypeOK, Select, loader
  <2>2. CASE NotDiscovered
    BY <2>2 DEF TypeOK, NotDiscovered
  <2>3. CASE Expire
    <3>1. UNCHANGED <<present, pc, frontier, metrics, waveVars, session, answers, reason, outcome>>
      BY <2>3 DEF Expire, loader
    <3> QED  BY <3>1, ZenonT(60) DEF TypeOK
  <2>4. CASE FileRemoved
    <3>1. present' \subseteq Files
      BY <2>4 DEF TypeOK, FileRemoved
    <3>2. UNCHANGED <<pc, frontier, metrics, waveVars, session, answers, reason, outcome>>
      BY <2>4 DEF FileRemoved
    <3> QED  BY <3>1, <3>2, ZenonT(60) DEF TypeOK
  <2> QED  BY <1>13, <2>1, <2>2, <2>3, <2>4
<1>14. CASE Discovered
  <2>1. seen' \in SUBSET Files /\ queue' \in InPathOrder(seen')
    BY <1>14 DEF Discovered
  <2>2. queue' \in Seq(Files)
    BY <2>1, FoundFacts
  <2>3. accepted = {} /\ known = {}
    BY <1>14 DEF Discovered, StartInv, TypeOK
  <2>4. /\ pc' = "wave"
        /\ UNCHANGED <<disk, accepted, known, metrics, waveVars, session, answers, reason, outcome>>
    BY <1>14 DEF Discovered
  <2> QED  BY <2>1, <2>2, <2>3, <2>4 DEF TypeOK
<1>15. CASE UNCHANGED vars
  BY <1>15, ZenonT(60) DEF TypeOK, vars
<1> QED
  BY <1>3, <1>4, <1>5, <1>6, <1>7, <1>8, <1>9, <1>10, <1>11, <1>12, <1>13, <1>14, <1>15
  DEF Next, Load, Returned

----------------------------------------------------------------------------
(* Every step keeps account of what was seen.                              *)

LEMMA FrontierNext ==
  ASSUME IInv, [Next]_vars PROVE StartInv' /\ QueueInv' /\ KeptInv'
<1>1. TypeOK /\ StartInv /\ QueueInv /\ KeptInv
  BY DEF IInv
<1> USE <1>1 DEF frontier, answers, session, waveVars, metrics, disk, Stop
<1>2. CASE Quiet
  <2>1. UNCHANGED Contents
    BY <1>2 DEF Quiet
  <2>2. StartInv'
    BY <1>2, <2>1 DEF Quiet, Contents, StartInv
  <2>3. QueueInv'
    BY <1>2, <2>1 DEF Quiet, Contents, QueueInv, Distinct
  <2>4. KeptInv'
    <3> USE <2>1 DEF Contents
    <3>1. CASE UNCHANGED <<pc, reason, outcome>>
      BY <3>1 DEF KeptInv
    <3>2. CASE pc' = "done" /\ reason' = reason
      BY <3>2 DEF KeptInv
    <3>3. CASE /\ pc' = "finish" /\ outcome' = outcome /\ outcome # "complete"
               /\ reason' = "none" => pc = "wave" /\ queue = <<>>
      <4>1. CASE reason' # "none"
        BY <3>3, <4>1 DEF KeptInv
      <4>2. CASE pc = "wave" /\ queue = <<>>
        <5>1. wave = <<>> /\ ~deferred /\ reason = "none" /\ read \subseteq analyzed
          BY <4>2 DEF KeptInv
        <5>2. Range(queue) = {} /\ Range(wave) = {}
          BY <4>2, <5>1, RangeOfEmpty
        <5>3. seen = analyzed /\ todo = {}
          BY <4>2, <5>1, <5>2 DEF KeptInv, IInv, RequestInv
        <5> QED  BY <3>3, <4>2, <5>1, <5>2, <5>3 DEF KeptInv
      <4> QED  BY <3>3, <4>1, <4>2
    <3>4. CASE pc = "read" /\ wave = <<>> /\ pc' = "analyze" /\ UNCHANGED <<reason, outcome>>
      BY <3>4 DEF KeptInv
    <3>5. CASE pc = "analyze" /\ read = {} /\ ~deferred /\ pc' = "wave" /\ UNCHANGED <<reason, outcome>>
      BY <3>5 DEF KeptInv
    <3>6. CASE pc = "resolve" /\ pc' = "enqueue" /\ UNCHANGED <<reason, outcome>>
      BY <3>6 DEF KeptInv
    <3>7. CASE pc = "enqueue" /\ ~deferred /\ pc' = "wave" /\ UNCHANGED <<reason, outcome>>
      BY <3>7 DEF KeptInv
    <3> QED  BY <1>2, <3>1, <3>2, <3>3, <3>4, <3>5, <3>6, <3>7 DEF Quiet
  <2> QED  BY <2>2, <2>3, <2>4
<1>3. CASE Discovered
  <2>1. /\ seen' \in SUBSET Files /\ queue' \in InPathOrder(seen') /\ pc = "discover"
        /\ pc' = "wave"
        /\ UNCHANGED <<accepted, metrics, waveVars, session, answers, reason, outcome>>
    BY <1>3 DEF Discovered
  <2>2. Range(queue') = seen' /\ Distinct(queue')
    BY <2>1, FoundFacts
  <2>3. wave = <<>> /\ read = {} /\ ~deferred /\ accepted = {} /\ analyzed = {}
    BY <2>1 DEF StartInv, TypeOK
  <2>4. Distinct(wave) /\ Range(wave) = {}
    BY <2>3, RangeOfEmpty
  <2>5. QueueInv'
    BY <2>1, <2>2, <2>3, <2>4 DEF QueueInv, Distinct
  <2>6. StartInv' /\ KeptInv'
    BY <2>1, <2>2, <2>3, <2>4 DEF StartInv, KeptInv
  <2> QED  BY <2>5, <2>6
<1>4. CASE StartWave
  <2>1. pc = "wave"
    BY <1>4 DEF StartWave
  <2>2. /\ Range(queue) = Range(SubSeq(queue, 1, WaveLength))
                            \cup Range(SubSeq(queue, WaveLength + 1, Len(queue)))
        /\ Distinct(SubSeq(queue, 1, WaveLength))
        /\ Distinct(SubSeq(queue, WaveLength + 1, Len(queue)))
        /\ Range(SubSeq(queue, 1, WaveLength))
             \cap Range(SubSeq(queue, WaveLength + 1, Len(queue))) = {}
        /\ NewPaths(SubSeq(queue, 1, WaveLength)) = SubSeq(queue, 1, WaveLength)
    BY <2>1, WaveFacts
  <2>3. /\ wave' = SubSeq(queue, 1, WaveLength)
        /\ queue' = SubSeq(queue, WaveLength + 1, Len(queue))
        /\ pc' = "read" /\ read' = {} /\ deferred' = FALSE
        /\ UNCHANGED <<seen, accepted, analyzed, todo, reason, outcome>>
    BY <1>4, <2>2 DEF StartWave
  <2> HIDE DEF WaveLength
  <2>4. /\ Range(queue) = Range(wave') \cup Range(queue') /\ Distinct(wave') /\ Distinct(queue')
        /\ Range(wave') \cap Range(queue') = {}
    BY <2>2, <2>3
  <2>5. wave = <<>> /\ Range(wave) = {} /\ read \subseteq analyzed /\ Range(queue) \cap accepted = {}
    BY <2>1, RangeOfEmpty DEF KeptInv, TypeOK
  <2>6. QueueInv'
    BY <2>3, <2>4, <2>5 DEF QueueInv, Distinct
  <2>7. seen = Range(queue) \cup analyzed /\ reason = "none" /\ outcome # "complete"
    BY <2>1, <2>5 DEF KeptInv
  <2>8. StartInv' /\ KeptInv'
    BY <2>3, <2>4, <2>7 DEF StartInv, KeptInv
  <2> QED  BY <2>6, <2>8
<1>5. CASE ReadFails \/ ByteLimit
  <2>1. /\ Reading /\ accepted' = accepted \cup {Head(wave)}
        /\ \/ pc' = "finish" /\ reason' # "none"
           \/ pc' = "analyze" /\ deferred' = TRUE /\ UNCHANGED reason
        /\ UNCHANGED <<queue, seen, wave, read, todo, analyzed, outcome>>
    BY <1>5 DEF ReadFails, ByteLimit, Accept
  <2>2. Head(wave) \notin Range(queue) /\ pc = "read"
    BY <2>1, NextInWave DEF Reading
  <2>3. QueueInv'
    BY <2>1, <2>2 DEF QueueInv, Distinct
  <2>4. StartInv' /\ KeptInv'
    BY <2>1, <2>2 DEF StartInv, KeptInv
  <2> QED  BY <2>3, <2>4
<1>6. CASE Read
  <2>1. /\ Reading /\ pc = "read" /\ accepted' = accepted \cup {Head(wave)}
        /\ \/ read' = read \cup {Head(wave)} /\ wave' = Tail(wave) /\ UNCHANGED <<pc, deferred>>
           \/ deferred' = TRUE /\ pc' = "analyze" /\ UNCHANGED <<read, wave>>
        /\ UNCHANGED <<queue, seen, todo, analyzed, reason, outcome>>
    BY <1>6 DEF Read, Accept, Reading
  <2>2. /\ Head(wave) \notin Range(queue) /\ Head(wave) \notin accepted
        /\ Distinct(Tail(wave)) /\ Range(wave) = Range(Tail(wave)) \cup {Head(wave)}
        /\ Head(wave) \notin Range(Tail(wave))
    BY <2>1, NextInWave
  <2>3. CASE read' = read \cup {Head(wave)} /\ wave' = Tail(wave) /\ UNCHANGED <<pc, deferred>>
    <3>1. QueueInv'
      BY <2>1, <2>2, <2>3 DEF QueueInv, Distinct
    <3>2. reason = "none" /\ ~deferred /\ outcome # "complete"
          /\ seen = Range(queue) \cup Range(wave) \cup read \cup analyzed
      BY <2>1 DEF KeptInv
    <3>3. seen' = Range(queue') \cup Range(wave') \cup read' \cup analyzed'
      BY <2>1, <2>2, <2>3, <3>2
    <3>4. StartInv' /\ KeptInv'
      BY <2>1, <2>3, <3>2, <3>3 DEF StartInv, KeptInv
    <3> QED  BY <3>1, <3>4
  <2>4. CASE deferred' = TRUE /\ pc' = "analyze" /\ UNCHANGED <<read, wave>>
    <3>1. QueueInv'
      BY <2>1, <2>2, <2>4 DEF QueueInv, Distinct
    <3>2. StartInv' /\ KeptInv'
      BY <2>1, <2>4 DEF StartInv, KeptInv
    <3> QED  BY <3>1, <3>2
  <2> QED  BY <2>1, <2>3, <2>4
<1>7. CASE WorkerPanics \/ Analyzed
  <2>1. /\ pc = "analyze"
        /\ \/ pc' = "finish" /\ reason' # "none"
           \/ pc' = "resolve" /\ analyzed' = analyzed \cup read /\ UNCHANGED reason
        /\ UNCHANGED <<queue, seen, accepted, wave, read, deferred, outcome>>
    BY <1>7 DEF WorkerPanics, Analyzed, SessionAdmits, Submit
  <2>2. QueueInv'
    BY <2>1 DEF QueueInv, Distinct
  <2>3. StartInv' /\ KeptInv'
    BY <2>1 DEF StartInv, KeptInv
  <2> QED  BY <2>2, <2>3
<1>8. CASE \E r \in Requests : Resolve(r)
  <2>1. /\ pc = "resolve"
        /\ UNCHANGED <<pc, queue, seen, accepted, wave, read, deferred, analyzed, reason, outcome>>
    BY <1>8 DEF Resolve, Resolving
  <2>2. QueueInv'
    BY <2>1 DEF QueueInv, Distinct
  <2>3. StartInv' /\ KeptInv'
    BY <2>1 DEF StartInv, KeptInv
  <2> QED  BY <2>2, <2>3
<1>9. CASE \E f \in Files : Enqueue(f)
  <2>1. PICK f \in Files : Enqueue(f)
    BY <1>9
  <2>2. /\ pc = "enqueue" /\ seen' = seen \cup {f}
        /\ queue' = IF f \in seen THEN queue ELSE Append(queue, f)
        /\ UNCHANGED <<pc, accepted, wave, read, deferred, todo, analyzed, reason, outcome>>
    BY <2>1 DEF Enqueue, Target, Push
  <2>3. f \notin seen => f \notin Range(queue) \cup Range(wave)
    BY DEF QueueInv
  <2>4. Range(queue') = Range(queue) \cup (IF f \in seen THEN {} ELSE {f}) /\ Distinct(queue')
    <3>1. queue \in Seq(Files) /\ Distinct(queue)
      BY DEF TypeOK, QueueInv
    <3> QED  BY <2>2, <2>3, <3>1, RangeOfAppend
  <2>5. QueueInv'
    BY <2>2, <2>3, <2>4 DEF QueueInv, Distinct
  <2>6. StartInv' /\ KeptInv'
    BY <2>2, <2>4 DEF StartInv, KeptInv
  <2> QED  BY <2>5, <2>6
<1> QED  BY <1>2, <1>3, <1>4, <1>5, <1>6, <1>7, <1>8, <1>9, StepsOfALoad

----------------------------------------------------------------------------
(* Every step keeps the budgets.                                           *)

LEMMA AcceptedNext ==
  ASSUME IInv, [Next]_vars PROVE Cardinality(accepted') <= MaxFiles
<1>1. TypeOK /\ Cardinality(accepted) <= MaxFiles
  BY DEF IInv, BudgetsHold
<1>2. CASE accepted' = accepted
  BY <1>1, <1>2
<1>3. CASE Accept
  <2>1. /\ accepted \in SUBSET Files
        /\ Cardinality(accepted) < MaxFiles /\ accepted' = accepted \cup {Head(wave)}
    BY <1>1, <1>3 DEF Accept, WithinFileLimit, TypeOK
  <2>2. IsFiniteSet(accepted) /\ Cardinality(accepted) \in Nat /\ MaxFiles \in Nat
    BY <2>1, FilesAreFinite, LoaderAssumption
  <2>3. Cardinality(accepted \cup {Head(wave)}) \in {Cardinality(accepted), Cardinality(accepted) + 1}
    BY <2>2, FS_AddElement
  <2>4. \A i, j, m \in Nat : (i < m /\ j \in {i, i + 1}) => j <= m
    OBVIOUS
  <2>5. Cardinality(accepted) + 1 \in Nat
    BY <2>2
  <2> QED  BY <2>1, <2>2, <2>3, <2>4, <2>5
<1>4. accepted' = accepted \/ Accept
  BY StepsOfALoad DEF Quiet, Contents, Discovered, StartWave, ReadFails, ByteLimit, Read,
       WorkerPanics, Analyzed, Resolve, Enqueue, frontier
<1> QED  BY <1>2, <1>3, <1>4

LEMMA BytesNext == ASSUME IInv, [Next]_vars PROVE BytesInv'
<1>1. TypeOK /\ KeptInv /\ QueueInv /\ BytesInv
  BY DEF IInv
<1>2. /\ admitted \cup read \in SUBSET Files /\ TotalBytes(admitted \cup read) \in Nat
      /\ bytes \in Nat /\ MaxProjectBytes \in Nat
  <2>1. admitted \cup read \in SUBSET Files
    BY <1>1 DEF TypeOK
  <2> QED  BY <1>1, <2>1, FilesAreFinite, LoaderAssumption DEF TypeOK
<1>3. CASE /\ admitted' \cup read' = admitted \cup read
           /\ bytes' = bytes /\ (deferred' = deferred \/ deferred')
  BY <1>1, <1>3 DEF BytesInv
<1>4. CASE StartWave
  <2>1. /\ admitted' = admitted /\ read' = {} /\ bytes' = bytes /\ pc = "wave"
    BY <1>4 DEF StartWave, session, metrics
  <2>2. ~deferred
    BY <1>1, <2>1 DEF KeptInv
  <2>3. TotalBytes(admitted) <= TotalBytes(admitted \cup read) /\ TotalBytes(admitted) \in Nat
    <3>1. admitted \in SUBSET (admitted \cup read) /\ admitted \in SUBSET Files
      BY <1>2
    <3> QED  BY <1>2, <3>1, TotalGrows, FilesAreFinite
  <2>4. TotalBytes(admitted) <= bytes /\ bytes <= MaxProjectBytes /\ TotalBytes(admitted) <= MaxProjectBytes
    BY <1>1, <1>2, <2>2, <2>3 DEF BytesInv
  <2>5. admitted' \cup read' = admitted
    BY <2>1
  <2> QED  BY <2>1, <2>4, <2>5 DEF BytesInv
<1>5. CASE Read
  <2>1. /\ Reading /\ pc = "read" /\ admitted' = admitted
    BY <1>5 DEF Read, Accept, Reading, session
  <2>2. /\ ~deferred /\ TotalBytes(admitted \cup read) <= bytes /\ bytes <= MaxProjectBytes
    BY <1>1, <2>1 DEF KeptInv, BytesInv
  <2>3. Head(wave) \in Files /\ Head(wave) \notin admitted \cup read
    BY <1>1, <2>1, NextInWave DEF TypeOK
  <2>4. PICK size \in {Bytes[Head(wave)], Bytes[Head(wave)] + Growth} :
          /\ bytes' = bytes + size
          /\ \/ bytes + size <= MaxProjectBytes /\ read' = read \cup {Head(wave)}
             \/ deferred' = TRUE /\ read' = read
    BY <1>5 DEF Read
  <2>5. Bytes[Head(wave)] \in Nat /\ size \in Nat /\ Bytes[Head(wave)] <= size
    <3>1. Bytes[Head(wave)] \in Nat /\ Growth \in Nat
      BY <2>3, LoaderAssumption
    <3> QED  BY <3>1
  <2>6. CASE bytes + size <= MaxProjectBytes /\ read' = read \cup {Head(wave)}
    <3>1. TotalBytes((admitted \cup read) \cup {Head(wave)})
            = TotalBytes(admitted \cup read) + Bytes[Head(wave)]
      BY <1>2, <2>3, TotalOfOneMore
    <3>2. admitted' \cup read' = (admitted \cup read) \cup {Head(wave)}
      BY <2>1, <2>6
    <3>3. \A t, b, k, z, m \in Nat : (t <= b /\ k <= z /\ b + z <= m) => t + k <= b + z /\ t + k <= m
      OBVIOUS
    <3>4. /\ TotalBytes(admitted \cup read) + Bytes[Head(wave)] <= bytes + size
          /\ TotalBytes(admitted \cup read) + Bytes[Head(wave)] <= MaxProjectBytes
      BY <1>2, <2>2, <2>5, <2>6, <3>3
    <3> QED  BY <2>4, <2>6, <3>1, <3>2, <3>4 DEF BytesInv
  <2>7. CASE deferred' = TRUE /\ read' = read
    BY <1>1, <2>1, <2>7 DEF BytesInv
  <2> QED  BY <2>4, <2>6, <2>7
<1>6. \/ /\ admitted' \cup read' = admitted \cup read
         /\ bytes' = bytes /\ (deferred' = deferred \/ deferred')
      \/ StartWave \/ Read
  <2> USE DEF metrics, session, waveVars
  <2>1. CASE Quiet
    BY <2>1 DEF Quiet, Contents
  <2>2. CASE Discovered \/ ReadFails \/ ByteLimit
    BY <2>2 DEF Discovered, ReadFails, ByteLimit
  <2>3. CASE WorkerPanics \/ Analyzed
    <3>1. admitted' = admitted \cup read /\ UNCHANGED <<read, bytes, deferred>>
      BY <2>3 DEF WorkerPanics, Analyzed, SessionAdmits
    <3> QED  BY <3>1
  <2>4. CASE (\E r \in Requests : Resolve(r)) \/ \E f \in Files : Enqueue(f)
    BY <2>4 DEF Resolve, Enqueue
  <2> QED  BY <2>1, <2>2, <2>3, <2>4, StepsOfALoad
<1> QED  BY <1>3, <1>4, <1>5, <1>6

----------------------------------------------------------------------------
(* Every step keeps account of the requests.                               *)

(* Answering a request adds one answer and one answered request.           *)
LEMMA AnswerStep ==
  ASSUME IInv, NEW r \in Requests, Resolve(r)
  PROVE  \E t \in Targets :
           /\ byKey' = byKey \cup {[key |-> r, target |-> t]} /\ Keys' = Keys \cup {r}
           /\ r \in todo /\ r \notin Keys /\ todo' = todo \ {r}
           /\ bySpecifier' = bySpecifier \cup
                {[importer |-> r[1], specifier |-> Specifier(r), target |-> t]}
           /\ \/ Answered(r[1], Specifier(r)) = {}
              \/ \E b \in Answered(r[1], Specifier(r)) : b.target = t
<1>1. r \in todo /\ r \notin Keys
  BY DEF IInv, RequestInv, Resolve, Resolving, IsFirst
<1>2. PICK t \in Targets :
        /\ Answer(r, t)
        /\ \/ Answered(r[1], Specifier(r)) = {}
           \/ \E b \in Answered(r[1], Specifier(r)) : b.target = t
  <2>1. CASE Answered(r[1], Specifier(r)) = {} /\ Answer(r, FromDisk(Specifier(r)))
    <3>1. FromDisk(Specifier(r)) \in Targets
      BY RequestFacts DEF FromDisk, Targets, TypeOK, IInv
    <3> QED  BY <2>1, <3>1
  <2>2. CASE \E b \in Answered(r[1], Specifier(r)) : Answer(r, b.target)
    <3>1. PICK b \in Answered(r[1], Specifier(r)) : Answer(r, b.target)
      BY <2>2
    <3>2. b.target \in Targets
      BY DEF Answered, TypeOK, IInv
    <3> QED  BY <3>1, <3>2
  <2> QED  BY <2>1, <2>2 DEF Resolve
<1>3. byKey' = byKey \cup {[key |-> r, target |-> t]}
  BY <1>2 DEF Answer
<1>4. Keys' = Keys \cup {r}
  <2>1. \A a \in byKey' : a.key \in Keys \cup {r}
    BY <1>3 DEF Keys
  <2>2. \A k \in Keys \cup {r} : \E a \in byKey' : a.key = k
    <3>1. \A k \in Keys : \E a \in byKey' : a.key = k
      BY <1>3 DEF Keys
    <3>2. [key |-> r, target |-> t] \in byKey' /\ [key |-> r, target |-> t].key = r
      BY <1>3
    <3> QED  BY <3>1, <3>2
  <2>3. Keys' = {a.key : a \in byKey'}
    BY DEF Keys
  <2> QED  BY <2>1, <2>2, <2>3
<1> QED  BY <1>1, <1>2, <1>3, <1>4 DEF Answer

LEMMA RequestNext == ASSUME IInv, [Next]_vars PROVE RequestInv'
<1>1. TypeOK /\ StartInv /\ KeptInv /\ RequestInv
  BY DEF IInv
<1>2. \A S \in SUBSET Requests : IsFiniteSet(S) /\ Cardinality(S) \in Nat
  BY RequestsAreFinite, FS_Subset, FS_CardinalityType
<1>3. /\ Cardinality(byKey) \in Nat /\ Cardinality(Keys) \in Nat /\ Cardinality(todo) \in Nat
      /\ MaxRequests \in Nat /\ IsFiniteSet(todo) /\ todo \in SUBSET Requests
  BY <1>1, <1>2, FS_CardinalityType, LoaderAssumption DEF RequestInv, TypeOK
<1>4. CASE Analyzed
  <2>1. /\ pc = "analyze" /\ read \cap admitted = {} /\ analyzed' = analyzed \cup read
        /\ todo' \in SUBSET Requests
        /\ \A r \in todo' : r[1] \in read
        /\ requestCount' = requestCount + Cardinality(todo')
        /\ \/ requestCount' > MaxRequests /\ pc' = "finish"
           \/ requestCount' <= MaxRequests /\ pc' = "resolve"
        /\ UNCHANGED byKey
    <3>1. PICK parsed \in SUBSET read : todo' = UNION {RequestsOf(f) : f \in parsed}
      BY <1>4 DEF Analyzed
    <3>2. todo' \in SUBSET Requests
      BY <1>1, <3>1 DEF Requests, TypeOK
    <3>3. \A r \in todo' : r[1] \in read
      BY <3>1 DEF RequestsOf
    <3> QED  BY <1>4, <3>2, <3>3 DEF Analyzed, SessionAdmits, Submit, Admissible, Stop, answers
  <2>2. todo = {} /\ requestCount = Cardinality(Keys) /\ requestCount = Cardinality(byKey)
    <3>1. todo = {}
      BY <1>1, <2>1 DEF RequestInv
    <3>2. Cardinality(todo) = 0
      BY <3>1, FS_EmptySet
    <3> QED  BY <1>1, <1>3, <3>1, <3>2 DEF RequestInv
  <2>3. Keys' = Keys
    BY <2>1 DEF Keys
  <2>4. IsFiniteSet(todo')
    BY <1>2, <2>1
  <2>5. Keys \cap todo' = {} /\ \A r \in Keys \cup todo' : r[1] \in analyzed'
    <3>1. \A r \in Keys : r[1] \in analyzed /\ analyzed \subseteq admitted
      BY <1>1 DEF RequestInv, TypeOK
    <3> QED  BY <2>1, <3>1
  <2> QED  BY <1>1, <2>1, <2>2, <2>3, <2>4, <2>5 DEF RequestInv
<1>5. CASE \E r \in Requests : Resolve(r)
  <2>1. PICK r \in Requests : Resolve(r)
    BY <1>5
  <2>2. PICK t \in Targets :
          /\ byKey' = byKey \cup {[key |-> r, target |-> t]} /\ Keys' = Keys \cup {r}
          /\ r \in todo /\ r \notin Keys /\ todo' = todo \ {r}
    BY <2>1, AnswerStep
  <2>3. pc = "resolve" /\ pc' = pc /\ requestCount' = requestCount /\ analyzed' = analyzed
    BY <2>1 DEF Resolve, Resolving, metrics, session
  <2>4. [key |-> r, target |-> t] \notin byKey
    BY <2>2 DEF Keys
  <2>5. /\ IsFiniteSet(byKey') /\ Cardinality(byKey') = Cardinality(byKey) + 1
        /\ IsFiniteSet(Keys') /\ Cardinality(Keys') = Cardinality(Keys) + 1
    BY <1>1, <2>2, <2>4, FS_AddElement DEF RequestInv
  <2>6. Cardinality(todo') = Cardinality(todo) - 1 /\ Cardinality(todo') \in Nat
    <3>1. todo' \in SUBSET Requests
      BY <1>3, <2>2
    <3> QED  BY <1>2, <1>3, <2>2, <3>1, FS_RemoveElement
  <2>7. /\ requestCount' = Cardinality(Keys') + Cardinality(todo')
        /\ requestCount' = Cardinality(byKey') + Cardinality(todo')
        /\ Cardinality(byKey') <= MaxRequests /\ requestCount' <= MaxRequests
    BY <1>1, <1>3, <2>3, <2>5, <2>6 DEF RequestInv
  <2>8. Keys' \cap todo' = {} /\ \A q \in Keys' \cup todo' : q[1] \in analyzed'
    BY <1>1, <2>2, <2>3 DEF RequestInv
  <2>9. pc' = "resolve"
    BY <2>3
  <2> QED  BY <2>5, <2>7, <2>8, <2>9 DEF RequestInv
<1>6. CASE /\ UNCHANGED <<byKey, todo, requestCount>> /\ analyzed \subseteq analyzed'
           /\ pc' = "resolve" => pc = "resolve"
           /\ pc' \in {"wave", "read", "analyze", "enqueue"} => todo = {}
  <2>1. Keys' = Keys
    BY <1>6 DEF Keys
  <2> QED  BY <1>1, <1>6, <2>1 DEF RequestInv
<1>7. \/ /\ UNCHANGED <<byKey, todo, requestCount>> /\ analyzed \subseteq analyzed'
         /\ pc' = "resolve" => pc = "resolve"
         /\ pc' \in {"wave", "read", "analyze", "enqueue"} => todo = {}
      \/ Analyzed \/ \E r \in Requests : Resolve(r)
  <2> USE DEF metrics, session, waveVars, answers, Stop
  <2>1. CASE Quiet
    BY <1>1, <2>1 DEF Quiet, Contents, RequestInv
  <2>2. CASE Discovered
    BY <1>1, <2>2 DEF Discovered, StartInv
  <2>3. CASE StartWave
    BY <1>1, <2>3 DEF StartWave, RequestInv
  <2>4. CASE ReadFails \/ ByteLimit
    BY <1>1, <2>4 DEF ReadFails, ByteLimit, Accept, Reading, RequestInv
  <2>5. CASE Read
    BY <1>1, <2>5 DEF Read, Accept, Reading, RequestInv
  <2>6. CASE WorkerPanics
    BY <1>1, <2>6 DEF WorkerPanics, SessionAdmits, Submit, RequestInv
  <2>7. CASE \E f \in Files : Enqueue(f)
    BY <1>1, <2>7 DEF Enqueue, Target, RequestInv
  <2> QED  BY <2>1, <2>2, <2>3, <2>4, <2>5, <2>6, <2>7, StepsOfALoad
<1> QED  BY <1>4, <1>5, <1>6, <1>7

(* Every step keeps one answer for an importer and a specifier.            *)
LEMMA AnswerNext == ASSUME IInv, [Next]_vars PROVE AnswerInv'
<1>1. TypeOK /\ AnswerInv
  BY DEF IInv
<1>2. CASE UNCHANGED answers
  BY <1>1, <1>2 DEF AnswerInv, answers
<1>3. CASE \E r \in Requests : Resolve(r)
  <2>1. PICK r \in Requests : Resolve(r)
    BY <1>3
  <2>2. PICK t \in Targets :
          /\ byKey' = byKey \cup {[key |-> r, target |-> t]}
          /\ bySpecifier' = bySpecifier \cup
               {[importer |-> r[1], specifier |-> Specifier(r), target |-> t]}
          /\ \/ Answered(r[1], Specifier(r)) = {}
             \/ \E b \in Answered(r[1], Specifier(r)) : b.target = t
    BY <2>1, AnswerStep
  <2> DEFINE new == [importer |-> r[1], specifier |-> Specifier(r), target |-> t]
  <2>3. \A b \in bySpecifier :
          (b.importer = r[1] /\ b.specifier = Specifier(r)) => b.target = t
    <3>1. SUFFICES ASSUME NEW b \in bySpecifier, b.importer = r[1], b.specifier = Specifier(r)
                   PROVE  b.target = t
      OBVIOUS
    <3>2. b \in Answered(r[1], Specifier(r))
      BY <3>1 DEF Answered
    <3>3. PICK c \in Answered(r[1], Specifier(r)) : c.target = t
      BY <2>2, <3>2
    <3>4. c \in bySpecifier /\ c.importer = r[1] /\ c.specifier = Specifier(r)
      BY DEF Answered
    <3> QED  BY <1>1, <3>1, <3>3, <3>4 DEF AnswerInv
  <2>4. \A b \in bySpecifier : b = [importer |-> b.importer, specifier |-> b.specifier, target |-> b.target]
    <3>1. \A b \in [importer : Files, specifier : Files \cup {External}, target : Targets] :
            b = [importer |-> b.importer, specifier |-> b.specifier, target |-> b.target]
      OBVIOUS
    <3>2. bySpecifier \subseteq
             [importer : Files, specifier : Files \cup {External}, target : Targets]
      BY <1>1 DEF TypeOK
    <3> QED  BY <3>1, <3>2
  <2>5. \A b \in bySpecifier :
          (b.importer = new.importer /\ b.specifier = new.specifier) => b = new
    BY <2>3, <2>4
  <2>6. \A b, c \in bySpecifier' :
          (b.importer = c.importer /\ b.specifier = c.specifier) => b = c
    <3> HIDE DEF new
    <3>1. bySpecifier' = bySpecifier \cup {new}
      BY <2>2 DEF new
    <3> QED  BY <1>1, <2>5, <3>1 DEF AnswerInv
  <2>7. \A a \in byKey' :
          [importer |-> a.key[1], specifier |-> Specifier(a.key), target |-> a.target] \in bySpecifier'
    <3>1. SUFFICES ASSUME NEW a \in byKey'
                   PROVE  [importer |-> a.key[1], specifier |-> Specifier(a.key), target |-> a.target]
                            \in bySpecifier'
      OBVIOUS
    <3>2. CASE a \in byKey
      BY <1>1, <2>2, <3>2 DEF AnswerInv
    <3>3. CASE a = [key |-> r, target |-> t]
      BY <2>2, <3>3
    <3> QED  BY <2>2, <3>2, <3>3
  <2>8. \A a : Specifier(a)' = Specifier(a)
    BY DEF Specifier
  <2> QED  BY <2>6, <2>7, <2>8 DEF AnswerInv
<1>4. UNCHANGED answers \/ \E r \in Requests : Resolve(r)
  BY StepsOfALoad DEF Quiet, Contents, Discovered, StartWave, ReadFails, ByteLimit, Read,
       WorkerPanics, Analyzed, Enqueue
<1> QED  BY <1>2, <1>3, <1>4

(* Every step leaves a complete load with nothing lost.                    *)
LEMMA CompleteNext ==
  ASSUME IInv, [Next]_vars, AnswerInv', TypeOK'
  PROVE  CompleteIsClosed'
<1>1. TypeOK /\ KeptInv /\ RequestInv /\ CompleteIsClosed
  BY DEF IInv
<1>2. ASSUME outcome' = "complete", Quiet
      PROVE  analyzed' = seen' /\ Cardinality({a.key : a \in byKey'}) = requestCount'
  <2>1. UNCHANGED <<analyzed, seen, byKey, requestCount>>
    BY <1>2 DEF Quiet, Contents, metrics, answers
  <2>2. analyzed = seen /\ Cardinality(Keys) = requestCount
    <3>1. CASE pc = "finish" /\ reason = "none"
      <4>1. seen = analyzed /\ todo = {}
        BY <1>1, <3>1 DEF KeptInv
      <4>2. Cardinality(todo) = 0
        BY <4>1, FS_EmptySet
      <4>3. Cardinality(Keys) \in Nat
        BY <1>1, FS_CardinalityType DEF RequestInv
      <4> QED  BY <1>1, <4>1, <4>2, <4>3 DEF RequestInv
    <3>2. CASE outcome = "complete"
      BY <1>1, <3>2 DEF CompleteIsClosed, Keys
    <3>3. (pc = "finish" /\ reason = "none") \/ outcome = "complete"
      BY <1>2 DEF Quiet
    <3> QED  BY <3>1, <3>2, <3>3
  <2> QED  BY <2>1, <2>2 DEF Keys
<1>3. outcome' = "complete" => Quiet
  <2>1. outcome = "complete" => pc = "done"
    BY <1>1 DEF KeptInv
  <2> QED
    BY <2>1, StepsOfALoad DEF Discovered, StartWave, ReadFails, ByteLimit, Read, Accept, Reading,
       WorkerPanics, Analyzed, SessionAdmits, Submit, Resolve, Resolving, Enqueue, Target
<1>4. outcome' = "complete" => analyzed' = seen' /\ Cardinality({a.key : a \in byKey'}) = requestCount'
  BY <1>2, <1>3
<1>5. ASSUME NEW a \in byKey', NEW b \in byKey',
             a.key[1] = b.key[1], Specifier(a.key) = Specifier(b.key)
      PROVE  a.target = b.target
  <2> DEFINE entry(c) == [importer |-> c.key[1], specifier |-> Specifier(c.key), target |-> c.target]
  <2>1. entry(a) \in bySpecifier' /\ entry(b) \in bySpecifier'
    BY DEF AnswerInv, Specifier
  <2>2. entry(a).importer = entry(b).importer /\ entry(a).specifier = entry(b).specifier
    BY <1>5
  <2>3. entry(a) = entry(b)
    <3> HIDE DEF entry
    <3> QED  BY <2>1, <2>2 DEF AnswerInv
  <2>4. entry(a).target = a.target /\ entry(b).target = b.target
    OBVIOUS
  <2> QED  BY <2>3, <2>4
<1> QED  BY <1>4, <1>5 DEF CompleteIsClosed, Specifier

----------------------------------------------------------------------------
(* The invariant holds in every state of every load.                       *)

LEMMA BudgetsNext ==
  ASSUME IInv, [Next]_vars, TypeOK', KeptInv', BytesInv', RequestInv'
  PROVE  BudgetsHold'
<1>1. Cardinality(accepted') <= MaxFiles
  BY AcceptedNext
<1>2. TotalBytes(admitted') <= MaxProjectBytes
  <2>1. /\ admitted' \cup read' \in SUBSET Files /\ admitted' \in SUBSET (admitted' \cup read')
    BY DEF TypeOK
  <2>2. TotalBytes(admitted') <= TotalBytes(admitted' \cup read')
    BY <2>1, TotalGrows
  <2>3. TotalBytes(admitted' \cup read') <= MaxProjectBytes
    BY DEF BytesInv, TotalBytes
  <2>4. /\ TotalBytes(admitted') \in Nat /\ TotalBytes(admitted' \cup read') \in Nat
        /\ MaxProjectBytes \in Nat
    <3>1. admitted' \in SUBSET Files
      BY <2>1
    <3> QED  BY <2>1, <3>1, FilesAreFinite, LoaderAssumption
  <2> QED  BY <2>2, <2>3, <2>4
<1>3. bytes' > MaxProjectBytes => deferred'
  <2>1. bytes' \in Nat /\ MaxProjectBytes \in Nat /\ (~deferred' => bytes' <= MaxProjectBytes)
    BY LoaderAssumption DEF TypeOK, BytesInv
  <2> QED  BY <2>1
<1>4. Cardinality(byKey') <= MaxRequests
  BY DEF RequestInv
<1> QED  BY <1>1, <1>2, <1>3, <1>4 DEF BudgetsHold, TotalBytes

(* In every state the queue and the wave hold what was seen and not yet    *)
(* accepted, the bytes and requests counted are those of the sources and   *)
(* requests at hand, and every answer agrees with the table of answers.    *)
THEOREM LoaderInvariant == Spec => []IInv
<1>1. Init => IInv
  BY InitIInv
<1>2. IInv /\ [Next]_vars => IInv'
  <2> SUFFICES ASSUME IInv, [Next]_vars PROVE IInv'
    OBVIOUS
  <2>1. TypeOK' /\ StartInv' /\ QueueInv' /\ KeptInv'
    BY TypeNext, FrontierNext
  <2>2. BytesInv' /\ RequestInv' /\ AnswerInv'
    BY BytesNext, RequestNext, AnswerNext
  <2>3. BudgetsHold' /\ CompleteIsClosed'
    BY <2>1, <2>2, BudgetsNext, CompleteNext
  <2> QED  BY <2>1, <2>2, <2>3 DEF IInv
<1> QED  BY <1>1, <1>2, PTL DEF Spec

(* The loader's tables keep their types: paths in the queue are not        *)
(* accepted yet, sources are admitted before they have an outcome.         *)
THEOREM LoaderTypeCorrect == Spec => []TypeOK
<1>1. IInv => TypeOK
  BY DEF IInv
<1> QED  BY <1>1, LoaderInvariant, PTL

(* No more files are accepted, bytes admitted and requests resolved than   *)
(* the options allow, whatever the files, their growth and the order in    *)
(* which waves, removals and the deadline come.                            *)
THEOREM LoaderKeepsBudgets == Spec => []BudgetsHold
<1>1. IInv => BudgetsHold
  BY DEF IInv
<1> QED  BY <1>1, LoaderInvariant, PTL

(* A load that reports completion has admitted and analyzed every path it  *)
(* ever queued and answered every request; one importer has one answer     *)
(* for a specifier, even if files disappear meanwhile.                     *)
THEOREM LoaderCompleteIsClosed == Spec => []CompleteIsClosed
<1>1. IInv => CompleteIsClosed
  BY DEF IInv
<1> QED  BY <1>1, LoaderInvariant, PTL

----------------------------------------------------------------------------
(* Discovery, which a load begins with.                                    *)

(* What the references of a configuration lead to, and a set that they do   *)
(* not leave.                                                               *)
Refs(s, c) == Range(ReferenceTargets(s, c))
Closed(s, X) == \A c \in X : Refs(s, c) \subseteq X

(* A configuration that its references lead back to.                        *)
Returns(s, c) == \A X : Closed(s, X) /\ Refs(s, c) \subseteq X => c \in X

(* The n-th item of a stack, counted from its bottom.                       *)
At(stk, n) == stk[Len(stk) + 1 - n]

(* The active configurations form a path of references from the selection.  *)
IsPath(s, A, V) ==
  /\ A \in Seq(Nodes) /\ Distinct(A) /\ Range(A) \subseteq V
  /\ A # <<>> => A[1] = Real(s.path)
  /\ \A i \in 1 .. Len(A) : i > 1 => A[i] \in Refs(s, A[i - 1])

(* An item lies above the exits of the configurations it is reached from,   *)
(* and below those of the others.                                           *)
Lies(s, A, exit, item, n) ==
  /\ item.depth \in 0 .. Len(A)
  /\ item.depth = 0 => item.config = Real(s.path)
  /\ item.depth > 0 => item.config \in Refs(s, A[item.depth]) /\ exit[item.depth] < n
  /\ item.depth < Len(A) => n < exit[item.depth + 1]

(* Each active configuration has its exit on the stack.                     *)
Exits(s, stk, A, exit) ==
  /\ exit \in [1 .. Len(A) -> 1 .. Len(stk)]
  /\ \A i, j \in 1 .. Len(A) : i < j => exit[i] < exit[j]
  /\ \A n \in 1 .. Len(stk) :
       /\ At(stk, n).op = "exit" => \E i \in 1 .. Len(A) : exit[i] = n
       /\ At(stk, n).op = "enter" => Lies(s, A, exit, At(stk, n), n)
  /\ \A i \in 1 .. Len(A) : At(stk, exit[i]).op = "exit"

Items == {ExitReference} \cup {Enter(c, d) : c \in Nodes, d \in Nat}

Layered(s, stk, A) ==
  /\ stk \in Seq(Items)
  /\ \E exit \in [1 .. Len(A) -> 1 .. Len(stk)] : Exits(s, stk, A, exit)

Pending(stk, c, depth) ==
  \E n \in 1 .. Len(stk) : At(stk, n) = Enter(c, depth)

(* What the references of an active configuration have led to: another that *)
(* is left, one that is still to be entered, or a cycle that was reported.  *)
Handled(s, stk, A, V, rep) ==
  \A i \in 1 .. Len(A) : \A t \in Refs(s, A[i]) :
    \/ t \in V \ Range(A)
    \/ Pending(stk, t, i)
    \/ i < Len(A) /\ t = A[i + 1]
    \/ rep /\ t \in V

(* What was left is closed, until a cycle is reported.                      *)
Left(s, A, V, rep) ==
  \A c \in V \ Range(A) :
    /\ \A t \in Refs(s, c) : t \in V \ Range(A) \/ (rep /\ t \in V)
    /\ ~rep => ~Returns(s, c)

Begun(s, stk, V) ==
  /\ Real(s.path) \in V \/ Pending(stk, Real(s.path), 0)
  /\ \A X : Closed(s, X) /\ Real(s.path) \in X => V \subseteq X

Walks(s, stk, A, V, rep) ==
  /\ IsPath(s, A, V) /\ Layered(s, stk, A) /\ Handled(s, stk, A, V, rep)
  /\ Left(s, A, V, rep) /\ Begun(s, stk, V) /\ V \subseteq DOMAIN s.configs
  /\ rep => \E c \in V : Returns(s, c)

(* A configuration that has been entered and is being read is not counted.  *)
Building == stage \in {"open", "merge"}
Reported == \E d \in diagnostics : d.kind = "reference cycle"
Walked   == IF Building THEN Front(active) ELSE active
Built    == IF Building THEN visited \ {Last(active)} ELSE visited

WalkInv ==
  /\ Walks(selected, refStack, Walked, Built, Reported)
  /\ Building => /\ active \in Seq(Nodes) /\ active # <<>> /\ Last(active) \in visited
                 /\ Last(active) \notin Range(Front(active))
                 /\ refStack # <<>> /\ Head(refStack).op = "enter"
                 /\ Head(refStack).config = Last(active)
  /\ stage \in {"sources", "found"} => refStack = <<>>

----------------------------------------------------------------------------
(* A configuration and what it extends, as far as it has been read.         *)
Extending(s, c, line) ==
  /\ line # <<>> /\ line[1] = c /\ Distinct(line)
  /\ \A i \in 1 .. Len(line) : i > 1 => ExtendsTarget(s, line[i - 1]) = <<line[i]>>

Readable(s, c) == c \in DOMAIN s.configs /\ s.configs[c] # Garbage

ChainInv ==
  /\ \A i \in DOMAIN chain : Readable(selected, chain[i])
  /\ stage = "references" => chain = <<>>
  /\ stage = "open" => chain \in Seq(Nodes) /\ opening \in Nodes
                         /\ Extending(selected, Last(active), Append(chain, opening))
  /\ stage = "merge" => chain \in Seq(Nodes) /\ chain # <<>> /\ chain[1] = Last(active)

FileDiagnostics(s, c) == FieldDiagnostics(s, c) \cup ExtendsDiagnostics(s, c)
FilesDiagnostics(s, line) == UNION {FileDiagnostics(s, d) : d \in Range(line)}
CutDiagnostics(s, d) == {Diagnostic("extends cycle", d, target) : target \in Range(ExtendsTarget(s, d))}

(* What has been said of a configuration and of those that it extends.      *)
Said(s, c) == FilesDiagnostics(s, Lineage(s, c)) \cup CutDiagnostics(s, Last(Lineage(s, c)))

(* The diagnostics that name what was left out, one by one.                 *)
Counted(D) == {d \in D : d.kind \notin {"reference cycle", "pattern"}}

(* What has been said of all that was read and its references.              *)
SaidOf(s, C) == UNION {Said(s, c) \cup ReferenceDiagnostics(s, c) : c \in C}

(* What has been said of the configuration c that is being read.            *)
SaidSoFar(where, s, c, line) ==
  CASE where = "open" -> FilesDiagnostics(s, line)
    [] where = "merge" -> Said(s, c)
    [] OTHER -> {}
ToldInv ==
  Counted(diagnostics) = SaidOf(selected, Built)
      \cup SaidSoFar(stage, selected, Last(active), chain)

DiscoveryInv ==
  /\ stage # "dropped" => selected \in Selections
  /\ stage = "select" => diagnostics = {} /\ active = <<>> /\ visited = {} /\ chain = <<>>
  /\ stage \in {"references", "open", "merge"} => selected.kind = "tsconfig"
  /\ (stage \in {"references", "open", "merge", "sources", "found"} /\ selected.kind = "tsconfig") =>
       WalkInv /\ ChainInv /\ ToldInv

----------------------------------------------------------------------------
(* The stack of the walk.                                                   *)

LEMMA ItemKinds ==
  ASSUME NEW item \in Items
  PROVE  \/ item.op = "exit" /\ item = ExitReference
         \/ /\ item.op = "enter" /\ item.config \in Nodes /\ item.depth \in Nat
            /\ item = Enter(item.config, item.depth)
BY DEF Items, ExitReference, Enter

LEMMA EntersDiffer ==
  ASSUME NEW c, NEW d
  PROVE  /\ Enter(c, d).op = "enter" /\ Enter(c, d).config = c /\ Enter(c, d).depth = d
         /\ Enter(c, d) # ExitReference
BY DEF ExitReference, Enter

LEMMA TopOfStack ==
  ASSUME NEW stk \in Seq(Items), stk # <<>>
  PROVE  /\ Head(stk) \in Items /\ Tail(stk) \in Seq(Items)
         /\ Len(stk) \in Nat \ {0} /\ Len(Tail(stk)) = Len(stk) - 1
         /\ At(stk, Len(stk)) = Head(stk)
         /\ \A n \in 1 .. Len(Tail(stk)) : At(Tail(stk), n) = At(stk, n)
<1> DEFINE t == Tail(stk)
<1>1. /\ Head(stk) \in Items /\ t \in Seq(Items) /\ Len(t) = Len(stk) - 1
      /\ \A i \in 1 .. Len(t) : t[i] = stk[i + 1]
  BY HeadTailProperties
<1>2. Len(stk) \in Nat \ {0} /\ Head(stk) = stk[1]
  OBVIOUS
<1>3. ASSUME NEW n \in 1 .. Len(t) PROVE At(t, n) = At(stk, n)
  <2>1. Len(t) + 1 - n \in 1 .. Len(t) /\ (Len(t) + 1 - n) + 1 = Len(stk) + 1 - n
    BY <1>1, <1>2
  <2> HIDE DEF t
  <2> QED  BY <1>1, <2>1 DEF At
<1>4. At(stk, Len(stk)) = Head(stk)
  BY <1>2 DEF At
<1> HIDE DEF t
<1> QED  BY <1>1, <1>2, <1>3, <1>4 DEF t

LEMMA FrontOf ==
  ASSUME NEW S, NEW A \in Seq(S), A # <<>>
  PROVE  /\ Front(A) \in Seq(S) /\ Len(Front(A)) = Len(A) - 1 /\ Len(A) \in Nat \ {0}
         /\ \A i \in 1 .. Len(A) - 1 : Front(A)[i] = A[i]
         /\ Last(A) = A[Len(A)] /\ Last(A) \in S
<1>1. Len(A) \in Nat \ {0}
  OBVIOUS
<1>2. Front(A) = SubSeq(A, 1, Len(A) - 1)
  BY DEF Front
<1>3. /\ Front(A) \in Seq(S) /\ Len(Front(A)) = Len(A) - 1
      /\ \A i \in 1 .. Len(A) - 1 : Front(A)[i] = A[i]
  <2>1. 1 \in Int /\ Len(A) - 1 \in Int /\ \A i \in 1 .. Len(A) - 1 : A[i] \in S
    BY <1>1
  <2>2. /\ Front(A) \in Seq(S)
        /\ Len(Front(A)) = IF 1 <= Len(A) - 1 THEN Len(A) - 1 - 1 + 1 ELSE 0
        /\ \A i \in 1 .. Len(A) - 1 - 1 + 1 : Front(A)[i] = A[1 + i - 1]
    BY <1>2, <2>1, SubSeqProperties
  <2>3. Len(A) - 1 - 1 + 1 = Len(A) - 1 /\ \A i \in 1 .. Len(A) - 1 : 1 + i - 1 = i
    BY <1>1
  <2>4. Len(Front(A)) = Len(A) - 1
    <3>1. \A n \in Nat \ {0} : (IF 1 <= n - 1 THEN n - 1 - 1 + 1 ELSE 0) = n - 1
      OBVIOUS
    <3> QED  BY <1>1, <2>2, <3>1, Zenon
  <2>5. \A i \in 1 .. Len(A) - 1 : Front(A)[i] = A[i]
    BY <2>2, <2>3
  <2> QED  BY <2>2, <2>4, <2>5
<1> QED  BY <1>1, <1>3 DEF Last

LEMMA AppendOf ==
  ASSUME NEW S, NEW A \in Seq(S), NEW c \in S
  PROVE  /\ Append(A, c) \in Seq(S) /\ Len(Append(A, c)) = Len(A) + 1 /\ Len(A) \in Nat
         /\ \A i \in 1 .. Len(A) : Append(A, c)[i] = A[i]
         /\ Append(A, c)[Len(A) + 1] = c
OBVIOUS

(* An exit on top belongs to the last active configuration.                 *)
LEMMA ExitOnTop ==
  ASSUME NEW s, NEW stk, NEW A \in Seq(Nodes), Layered(s, stk, A), stk # <<>>,
         Head(stk).op = "exit"
  PROVE  /\ A # <<>> /\ Layered(s, Tail(stk), Front(A))
         /\ \A t : ~Pending(stk, t, Len(A))
         /\ \A t, i : Pending(stk, t, i) => Pending(Tail(stk), t, i)
<1> DEFINE rest == Tail(stk)
           B == Front(A)
<1>1. stk \in Seq(Items)
  BY DEF Layered
<1>2. /\ Head(stk) \in Items /\ rest \in Seq(Items)
      /\ Len(stk) \in Nat \ {0} /\ Len(rest) = Len(stk) - 1
      /\ At(stk, Len(stk)) = Head(stk)
      /\ \A n \in 1 .. Len(rest) : At(rest, n) = At(stk, n)
  BY <1>1, TopOfStack
<1>3. PICK exit \in [1 .. Len(A) -> 1 .. Len(stk)] : Exits(s, stk, A, exit)
  BY DEF Layered
<1>4. Len(A) \in Nat
  OBVIOUS
<1> HIDE DEF rest
<1>5. PICK k \in 1 .. Len(A) : exit[k] = Len(stk)
  BY <1>2, <1>3 DEF Exits
<1>6. k = Len(A)
  <2>1. \A i \in 1 .. Len(A) : exit[i] \in 1 .. Len(stk)
    BY <1>3
  <2>2. k < Len(A) => exit[k] < exit[Len(A)]
    BY <1>3, <1>4, <1>5 DEF Exits
  <2> QED  BY <1>2, <1>4, <1>5, <2>1, <2>2
<1>7. A # <<>>
  BY <1>5
<1>8. /\ B \in Seq(Nodes) /\ Len(B) = Len(A) - 1 /\ Len(A) \in Nat \ {0}
      /\ \A i \in 1 .. Len(A) - 1 : B[i] = A[i]
  BY <1>7, FrontOf
<1> HIDE DEF B
<1>9. \A n \in 1 .. Len(stk) : At(stk, n).op = "enter" => At(stk, n).depth < Len(A)
  <2> SUFFICES ASSUME NEW n \in 1 .. Len(stk), At(stk, n).op = "enter", At(stk, n).depth >= Len(A)
               PROVE  FALSE
    <3>1. \A n \in 1 .. Len(stk) : At(stk, n).op = "enter" => At(stk, n).depth \in Nat
      BY <1>3 DEF Exits, Lies
    <3> QED  BY <1>4, <3>1
  <2>1. Lies(s, A, exit, At(stk, n), n)
    BY <1>3 DEF Exits
  <2>2. At(stk, n).depth = Len(A)
    BY <1>4, <2>1 DEF Lies
  <2>3. exit[Len(A)] < n
    BY <1>8, <2>1, <2>2 DEF Lies
  <2> QED  BY <1>2, <1>5, <1>6, <2>3
<1>10. \A t : ~Pending(stk, t, Len(A))
  <2> SUFFICES ASSUME NEW t, NEW n \in 1 .. Len(stk), At(stk, n) = Enter(t, Len(A)) PROVE FALSE
    BY DEF Pending
  <2> QED  BY <1>4, <1>9, EntersDiffer
<1>11. ASSUME NEW t, NEW i, Pending(stk, t, i) PROVE Pending(rest, t, i)
  <2>1. PICK n \in 1 .. Len(stk) : At(stk, n) = Enter(t, i)
    BY <1>11 DEF Pending
  <2>2. n # Len(stk)
    BY <1>2, <2>1, EntersDiffer
  <2>3. n \in 1 .. Len(rest)
    BY <1>2, <2>1, <2>2
  <2> QED  BY <1>2, <2>1, <2>3 DEF Pending
<1>12. Layered(s, rest, B)
  <2> DEFINE e == [i \in 1 .. Len(B) |-> exit[i]]
  <2>1. \A i \in 1 .. Len(B) : i \in 1 .. Len(A) /\ i < Len(A) /\ exit[i] \in 1 .. Len(rest)
    <3> SUFFICES ASSUME NEW i \in 1 .. Len(B)
                 PROVE  i \in 1 .. Len(A) /\ i < Len(A) /\ exit[i] \in 1 .. Len(rest)
      OBVIOUS
    <3>1. i \in 1 .. Len(A) /\ i < Len(A)
      BY <1>8
    <3>2. exit[i] < exit[Len(A)] /\ exit[i] \in 1 .. Len(stk)
      BY <1>3, <1>6, <3>1 DEF Exits
    <3> QED  BY <1>2, <1>5, <1>6, <3>1, <3>2
  <2>2. e \in [1 .. Len(B) -> 1 .. Len(rest)] /\ \A i \in 1 .. Len(B) : e[i] = exit[i]
    BY <2>1
  <2> HIDE DEF e
  <2>3. \A i, j \in 1 .. Len(B) : i < j => e[i] < e[j]
    BY <1>3, <2>1, <2>2 DEF Exits
  <2>4. ASSUME NEW n \in 1 .. Len(rest), At(rest, n).op = "exit"
        PROVE  \E i \in 1 .. Len(B) : e[i] = n
    <3>1. n \in 1 .. Len(stk) /\ n < Len(stk) /\ At(stk, n).op = "exit"
      BY <1>2, <2>4
    <3>2. PICK i \in 1 .. Len(A) : exit[i] = n
      BY <1>3, <3>1 DEF Exits
    <3>3. i # Len(A)
      BY <1>5, <1>6, <3>1, <3>2
    <3>4. i \in 1 .. Len(B)
      BY <1>8, <3>3
    <3> QED  BY <2>2, <3>2, <3>4
  <2>5. ASSUME NEW n \in 1 .. Len(rest), At(rest, n).op = "enter"
        PROVE  Lies(s, B, e, At(rest, n), n)
    <3>1. n \in 1 .. Len(stk) /\ n < Len(stk) /\ At(rest, n) = At(stk, n)
      BY <1>2
    <3>2. Lies(s, A, exit, At(rest, n), n) /\ At(rest, n).depth < Len(A)
      BY <1>3, <1>9, <2>5, <3>1 DEF Exits
    <3>3. At(rest, n).depth \in 0 .. Len(B)
      BY <1>8, <3>2 DEF Lies
    <3>4. ASSUME At(rest, n).depth > 0 PROVE At(rest, n).config \in Refs(s, B[At(rest, n).depth])
                                          /\ e[At(rest, n).depth] < n
      <4>1. At(rest, n).depth \in 1 .. Len(B)
        BY <1>8, <3>3, <3>4
      <4>2. B[At(rest, n).depth] = A[At(rest, n).depth] /\ e[At(rest, n).depth] = exit[At(rest, n).depth]
        BY <1>8, <2>2, <4>1
      <4> QED  BY <3>2, <3>4, <4>2 DEF Lies
    <3>5. ASSUME At(rest, n).depth < Len(B) PROVE n < e[At(rest, n).depth + 1]
      <4>1. At(rest, n).depth + 1 \in 1 .. Len(B)
        BY <1>8, <3>3, <3>5
      <4> QED  BY <2>2, <3>2, <4>1 DEF Lies
    <3>6. At(rest, n).depth = 0 => At(rest, n).config = Real(s.path)
      BY <3>2 DEF Lies
    <3> DEFINE item == At(rest, n)
    <3>7. Lies(s, B, e, item, n)
      <4> HIDE DEF item, B, e
      <4> SUFFICES /\ item.depth \in 0 .. Len(B)
                   /\ item.depth = 0 => item.config = Real(s.path)
                   /\ item.depth > 0 => item.config \in Refs(s, B[item.depth]) /\ e[item.depth] < n
                   /\ item.depth < Len(B) => n < e[item.depth + 1]
        BY Zenon DEF Lies
      <4> QED  BY <3>3, <3>4, <3>5, <3>6 DEF item
    <3> QED  BY <3>7
  <2>6. \A i \in 1 .. Len(B) : At(rest, e[i]).op = "exit"
    <3> TAKE i \in 1 .. Len(B)
    <3>1. i \in 1 .. Len(A) /\ exit[i] \in 1 .. Len(rest) /\ e[i] = exit[i]
      BY <2>1, <2>2
    <3>2. At(stk, exit[i]).op = "exit"
      BY <1>3, <3>1 DEF Exits
    <3>3. At(rest, exit[i]) = At(stk, exit[i])
      BY <1>2, <3>1
    <3> QED  BY <3>1, <3>2, <3>3
  <2>7. Exits(s, rest, B, e)
    BY <2>2, <2>3, <2>4, <2>5, <2>6 DEF Exits
  <2> QED  BY <1>2, <2>2, <2>7 DEF Layered
<1> QED  BY <1>7, <1>10, <1>11, <1>12 DEF rest, B

(* A configuration on top is reached from the last active one.              *)
LEMMA EnterOnTop ==
  ASSUME NEW s, NEW stk, NEW A \in Seq(Nodes), Layered(s, stk, A), stk # <<>>,
         Head(stk).op = "enter"
  PROVE  /\ Layered(s, Tail(stk), A)
         /\ Head(stk).config \in Nodes /\ Head(stk) = Enter(Head(stk).config, Len(A))
         /\ A = <<>> => Head(stk).config = Real(s.path)
         /\ A # <<>> => Head(stk).config \in Refs(s, A[Len(A)])
         /\ \A t, i : Pending(stk, t, i) =>
              Pending(Tail(stk), t, i) \/ (t = Head(stk).config /\ i = Len(A))
<1> DEFINE rest == Tail(stk)
<1>1. stk \in Seq(Items)
  BY DEF Layered
<1>2. /\ Head(stk) \in Items /\ rest \in Seq(Items)
      /\ Len(stk) \in Nat \ {0} /\ Len(rest) = Len(stk) - 1
      /\ At(stk, Len(stk)) = Head(stk)
      /\ \A n \in 1 .. Len(rest) : At(rest, n) = At(stk, n)
  BY <1>1, TopOfStack
<1>3. PICK exit \in [1 .. Len(A) -> 1 .. Len(stk)] : Exits(s, stk, A, exit)
  BY DEF Layered
<1>4. Len(A) \in Nat
  OBVIOUS
<1>5. /\ Head(stk).config \in Nodes /\ Head(stk).depth \in Nat
      /\ Head(stk) = Enter(Head(stk).config, Head(stk).depth)
  BY <1>2, ItemKinds
<1> HIDE DEF rest
<1>6. Lies(s, A, exit, Head(stk), Len(stk))
  BY <1>2, <1>3 DEF Exits
<1>7. Head(stk).depth = Len(A)
  <2>1. Head(stk).depth < Len(A) => Head(stk).depth + 1 \in 1 .. Len(A)
    BY <1>4, <1>5
  <2>2. \A i \in 1 .. Len(A) : exit[i] \in 1 .. Len(stk)
    BY <1>3
  <2>3. ~(Head(stk).depth < Len(A))
    BY <1>2, <1>6, <2>1, <2>2 DEF Lies
  <2> QED  BY <1>4, <1>6, <2>3 DEF Lies
<1>8. A = <<>> => Head(stk).config = Real(s.path)
  BY <1>6, <1>7 DEF Lies
<1>9. A # <<>> => Head(stk).config \in Refs(s, A[Len(A)])
  <2>1. A # <<>> => Len(A) > 0
    OBVIOUS
  <2> QED  BY <1>6, <1>7, <2>1 DEF Lies
<1>10. ASSUME NEW t, NEW i, Pending(stk, t, i)
       PROVE  Pending(rest, t, i) \/ (t = Head(stk).config /\ i = Len(A))
  <2>1. PICK n \in 1 .. Len(stk) : At(stk, n) = Enter(t, i)
    BY <1>10 DEF Pending
  <2>2. CASE n = Len(stk)
    BY <1>2, <1>7, <2>1, <2>2, EntersDiffer
  <2>3. CASE n # Len(stk)
    <3>1. n \in 1 .. Len(rest)
      BY <1>2, <2>1, <2>3
    <3> QED  BY <1>2, <2>1, <3>1 DEF Pending
  <2> QED  BY <2>2, <2>3
<1>11. Layered(s, rest, A)
  <2>1. ASSUME NEW i \in 1 .. Len(A) PROVE exit[i] \in 1 .. Len(rest)
    <3>1. exit[i] \in 1 .. Len(stk) /\ At(stk, exit[i]).op = "exit"
      BY <1>3 DEF Exits
    <3>2. exit[i] # Len(stk)
      BY <1>2, <3>1
    <3> QED  BY <1>2, <3>1, <3>2
  <2>2. exit \in [1 .. Len(A) -> 1 .. Len(rest)]
    BY <1>3, <2>1
  <2>3. \A n \in 1 .. Len(rest) : n \in 1 .. Len(stk)
    BY <1>2
  <2>4. Exits(s, rest, A, exit)
    BY <1>2, <1>3, <2>1, <2>2, <2>3 DEF Exits
  <2> QED  BY <1>2, <2>2, <2>4 DEF Layered
<1> QED  BY <1>5, <1>7, <1>8, <1>9, <1>10, <1>11 DEF rest

(* The stack after a configuration was read: its references above its exit. *)
(* The configuration c, which is new, is entered next and its references    *)
(* are entered at this depth.                                               *)
Enters(s, stk, A, V, rep, c, leads, depth) ==
  /\ rep \in BOOLEAN /\ Walks(s, stk, A, V, rep)
  /\ stk # <<>> /\ Head(stk).op = "enter" /\ c = Head(stk).config
  /\ c \notin V /\ c \in DOMAIN s.configs
  /\ leads \in Seq(Nodes) /\ Refs(s, c) = Range(leads)
  /\ depth = Head(stk).depth + 1
Pushed(stk, leads, depth) ==
  [i \in DOMAIN leads |-> Enter(leads[i], depth)] \o <<ExitReference>> \o Tail(stk)

LEMMA PlacesPushed ==
  ASSUME NEW stk \in Seq(Items), stk # <<>>, NEW leads \in Seq(Nodes), NEW depth \in Nat
  PROVE  /\ Pushed(stk, leads, depth) \in Seq(Items)
         /\ Len(Pushed(stk, leads, depth)) = Len(stk) + Len(leads)
         /\ Len(leads) \in Nat /\ Len(stk) \in Nat \ {0}
         /\ \A n \in 1 .. Len(stk) - 1 : At(Pushed(stk, leads, depth), n) = At(stk, n)
         /\ At(Pushed(stk, leads, depth), Len(stk)) = ExitReference
         /\ \A n \in 1 .. Len(leads) :
              At(Pushed(stk, leads, depth), Len(stk) + n)
                = Enter(leads[Len(leads) + 1 - n], depth)
<1> DEFINE enters == [i \in DOMAIN leads |-> Enter(leads[i], depth)]
           rest == Tail(stk)
           two == enters \o <<ExitReference>>
           p == two \o rest
           k == Len(leads)
<1>1. /\ rest \in Seq(Items) /\ Len(stk) \in Nat \ {0} /\ Len(rest) = Len(stk) - 1
      /\ \A i \in 1 .. Len(rest) : rest[i] = stk[i + 1]
  BY HeadTailProperties
<1>2. k \in Nat /\ DOMAIN leads = 1 .. k /\ \A i \in 1 .. k : leads[i] \in Nodes
  OBVIOUS
<1>3. enters \in Seq(Items) /\ Len(enters) = k /\ \A i \in 1 .. k : enters[i] = Enter(leads[i], depth)
  <2>1. \A i \in 1 .. k : Enter(leads[i], depth) \in Items
    BY <1>2 DEF Items
  <2>2. enters = [i \in 1 .. k |-> Enter(leads[i], depth)]
    BY <1>2
  <2> HIDE DEF k
  <2> QED  BY <1>2, <2>1, <2>2
<1> HIDE DEF enters
<1>4. /\ two \in Seq(Items) /\ Len(two) = k + 1 /\ two[k + 1] = ExitReference
      /\ \A i \in 1 .. k : two[i] = Enter(leads[i], depth)
  <2>1. ExitReference \in Items
    BY DEF Items
  <2>2. <<ExitReference>> \in Seq(Items) /\ Len(<<ExitReference>>) = 1 /\ <<ExitReference>>[1] = ExitReference
    BY <2>1
  <2>3. /\ two \in Seq(Items) /\ Len(two) = Len(enters) + 1
        /\ \A i \in 1 .. Len(two) : two[i] = IF i <= Len(enters) THEN enters[i]
                                             ELSE <<ExitReference>>[i - Len(enters)]
    <3>1. enters \in Seq(Items)
      BY <1>3
    <3> QED  BY <2>2, <3>1, ConcatProperties
  <2> HIDE DEF two, k
  <2> QED  BY <1>2, <1>3, <2>2, <2>3
<1> HIDE DEF two, rest
<1>5. /\ p \in Seq(Items) /\ Len(p) = Len(two) + Len(rest)
      /\ \A i \in 1 .. Len(two) + Len(rest) :
           p[i] = IF i <= Len(two) THEN two[i] ELSE rest[i - Len(two)]
  <2>1. two \in Seq(Items) /\ rest \in Seq(Items)
    BY <1>1, <1>4
  <2> QED  BY <2>1, ConcatProperties
<1> HIDE DEF p, k
<1>6. Len(p) = Len(stk) + k
  BY <1>1, <1>2, <1>4, <1>5
<1>7. ASSUME NEW n \in 1 .. Len(stk) - 1 PROVE At(p, n) = At(stk, n)
  <2>1. /\ Len(p) + 1 - n \in 1 .. Len(p) /\ ~(Len(p) + 1 - n <= Len(two))
        /\ Len(p) + 1 - n - Len(two) = Len(stk) - n
    BY <1>1, <1>2, <1>4, <1>6
  <2>2. Len(stk) - n \in 1 .. Len(rest) /\ (Len(stk) - n) + 1 = Len(stk) + 1 - n
    BY <1>1
  <2>3. At(p, n) = rest[Len(stk) - n]
    <3> DEFINE i == Len(p) + 1 - n
    <3>1. i \in 1 .. Len(two) + Len(rest) /\ ~(i <= Len(two)) /\ i - Len(two) = Len(stk) - n
      BY <1>5, <2>1
    <3>2. At(p, n) = p[i]
      BY DEF At
    <3> HIDE DEF i
    <3>3. p[i] = rest[i - Len(two)]
      BY <1>5, <3>1
    <3> QED  BY <3>1, <3>2, <3>3
  <2> QED  BY <1>1, <2>2, <2>3 DEF At
<1>8. At(p, Len(stk)) = ExitReference
  <2>1. Len(p) + 1 - Len(stk) = k + 1 /\ k + 1 \in 1 .. Len(p) /\ k + 1 <= Len(two)
    BY <1>1, <1>2, <1>4, <1>6
  <2> QED  BY <1>4, <1>5, <2>1 DEF At
<1>9. ASSUME NEW n \in 1 .. k PROVE At(p, Len(stk) + n) = Enter(leads[k + 1 - n], depth)
  <2>1. /\ Len(p) + 1 - (Len(stk) + n) = k + 1 - n /\ k + 1 - n \in 1 .. Len(p)
        /\ k + 1 - n <= Len(two) /\ k + 1 - n \in 1 .. k
    BY <1>1, <1>2, <1>4, <1>6
  <2> QED  BY <1>4, <1>5, <2>1 DEF At
<1>10. Pushed(stk, leads, depth) = p
  BY DEF Pushed, p, two, enters, rest
<1> QED  BY <1>1, <1>2, <1>5, <1>6, <1>7, <1>8, <1>9, <1>10 DEF k

(* What is below an item that was read is pending as before, and so are its *)
(* references, one layer further in.                                        *)
LEMMA LayerPushed ==
  ASSUME NEW s, NEW stk, NEW A \in Seq(Nodes), Layered(s, stk, A), stk # <<>>,
         Head(stk).op = "enter", NEW c, c = Head(stk).config,
         NEW leads \in Seq(Nodes), Refs(s, c) = Range(leads),
         NEW p, p = Pushed(stk, leads, Len(A) + 1)
  PROVE  /\ Layered(s, p, Append(A, c))
         /\ \A t, i : Pending(Tail(stk), t, i) => Pending(p, t, i)
         /\ \A t \in Refs(s, c) : Pending(p, t, Len(A) + 1)
<1> DEFINE B == Append(A, c)
           rest == Tail(stk)
           k == Len(leads)
           m == Len(stk)
<1>1. stk \in Seq(Items) /\ Layered(s, rest, A) /\ c \in Nodes /\ Len(A) \in Nat
  <2>1. Layered(s, rest, A) /\ c \in Nodes
    BY EnterOnTop
  <2> QED  BY <2>1 DEF Layered
<1>2. /\ rest \in Seq(Items) /\ m \in Nat \ {0} /\ Len(rest) = m - 1
      /\ \A n \in 1 .. Len(rest) : At(rest, n) = At(stk, n)
  BY <1>1, TopOfStack
<1>3. /\ p \in Seq(Items) /\ Len(p) = m + k /\ k \in Nat
      /\ \A n \in 1 .. m - 1 : At(p, n) = At(rest, n)
      /\ At(p, m) = ExitReference
      /\ \A n \in 1 .. k : At(p, m + n) = Enter(leads[k + 1 - n], Len(A) + 1)
  <2>1. Len(A) + 1 \in Nat
    BY <1>1
  <2>2. /\ p \in Seq(Items) /\ Len(p) = m + k /\ k \in Nat
        /\ \A n \in 1 .. m - 1 : At(p, n) = At(stk, n)
        /\ At(p, m) = ExitReference
        /\ \A n \in 1 .. k : At(p, m + n) = Enter(leads[k + 1 - n], Len(A) + 1)
    <3> DEFINE q == Pushed(stk, leads, Len(A) + 1)
    <3>1. /\ q \in Seq(Items) /\ Len(q) = m + k /\ k \in Nat
          /\ \A n \in 1 .. m - 1 : At(q, n) = At(stk, n)
          /\ At(q, m) = ExitReference
          /\ \A n \in 1 .. k : At(q, m + n) = Enter(leads[k + 1 - n], Len(A) + 1)
      <4>1. stk \in Seq(Items) /\ stk # <<>> /\ leads \in Seq(Nodes)
        BY <1>1
      <4> DEFINE d == Len(A) + 1
      <4>2. d \in Nat
        BY <2>1
      <4> HIDE DEF d
      <4>3. /\ Pushed(stk, leads, d) \in Seq(Items)
            /\ Len(Pushed(stk, leads, d)) = Len(stk) + Len(leads) /\ Len(leads) \in Nat
            /\ \A n \in 1 .. Len(stk) - 1 : At(Pushed(stk, leads, d), n) = At(stk, n)
            /\ At(Pushed(stk, leads, d), Len(stk)) = ExitReference
            /\ \A n \in 1 .. Len(leads) :
                 At(Pushed(stk, leads, d), Len(stk) + n) = Enter(leads[Len(leads) + 1 - n], d)
        BY <4>1, <4>2, PlacesPushed, ZenonT(60)
      <4> QED  BY <4>3, Zenon DEF d
    <3>2. p = q
      OBVIOUS
    <3> HIDE DEF q
    <3> QED  BY <3>1, <3>2
  <2> HIDE DEF rest, m, k
  <2> QED  BY <1>2, <2>2
<1>4. /\ B \in Seq(Nodes) /\ Len(B) = Len(A) + 1 /\ B[Len(A) + 1] = c
      /\ \A i \in 1 .. Len(A) : B[i] = A[i]
  BY <1>1, AppendOf
<1>5. PICK exit \in [1 .. Len(A) -> 1 .. Len(rest)] : Exits(s, rest, A, exit)
  BY <1>1 DEF Layered
<1> DEFINE e == [i \in 1 .. Len(A) + 1 |-> IF i <= Len(A) THEN exit[i] ELSE m]
<1> HIDE DEF B, rest, m, k
<1>6. \A i \in 1 .. Len(A) : exit[i] \in 1 .. m - 1
  BY <1>2, <1>5
<1>7. /\ e \in [1 .. Len(B) -> 1 .. Len(p)] /\ e[Len(A) + 1] = m
      /\ \A i \in 1 .. Len(A) : e[i] = exit[i]
  BY <1>1, <1>2, <1>3, <1>4, <1>6
<1> HIDE DEF e
<1>8. \A t : t \in Range(leads) <=> \E i \in 1 .. k : leads[i] = t
  BY PlacesOf DEF k
<1>9. ASSUME NEW n \in 1 .. Len(p)
      PROVE  \/ n \in 1 .. Len(rest) /\ n < m /\ At(p, n) = At(rest, n)
             \/ n = m /\ At(p, n) = ExitReference
             \/ /\ n > m
                /\ \E t \in Refs(s, c) : At(p, n) = Enter(t, Len(A) + 1)
  <2>1. CASE n < m
    BY <1>2, <1>3, <2>1
  <2>2. CASE n = m
    BY <1>3, <2>2
  <2>3. CASE n > m
    <3>1. n - m \in 1 .. k /\ m + (n - m) = n /\ k + 1 - (n - m) \in 1 .. k
      BY <1>2, <1>3, <2>3
    <3>2. At(p, n) = Enter(leads[k + 1 - (n - m)], Len(A) + 1)
      BY <1>3, <3>1
    <3>3. leads[k + 1 - (n - m)] \in Refs(s, c)
      BY <1>8, <3>1
    <3> QED  BY <2>3, <3>2, <3>3
  <2> QED  BY <1>2, <2>1, <2>2, <2>3
<1>10. \A i, j \in 1 .. Len(B) : i < j => e[i] < e[j]
  <2> SUFFICES ASSUME NEW i \in 1 .. Len(B), NEW j \in 1 .. Len(B), i < j PROVE e[i] < e[j]
    OBVIOUS
  <2>1. i \in 1 .. Len(A) /\ e[i] = exit[i] /\ exit[i] \in 1 .. m - 1
    BY <1>1, <1>4, <1>6, <1>7
  <2>2. CASE j = Len(A) + 1
    BY <1>2, <1>7, <2>1, <2>2
  <2>3. CASE j # Len(A) + 1
    <3>1. j \in 1 .. Len(A)
      BY <1>1, <1>4, <2>3
    <3>2. e[j] = exit[j]
      BY <1>7, <3>1
    <3> QED  BY <1>5, <2>1, <3>1, <3>2 DEF Exits
  <2> QED  BY <2>2, <2>3
<1>11. \A i \in 1 .. Len(B) : At(p, e[i]).op = "exit"
  <2> SUFFICES ASSUME NEW i \in 1 .. Len(B) PROVE At(p, e[i]).op = "exit"
    OBVIOUS
  <2>1. CASE i = Len(A) + 1
    BY <1>3, <1>7, <2>1 DEF ExitReference
  <2>2. CASE i # Len(A) + 1
    <3>1. i \in 1 .. Len(A) /\ e[i] = exit[i] /\ exit[i] \in 1 .. m - 1
      BY <1>1, <1>4, <1>6, <1>7, <2>2
    <3> QED  BY <1>3, <1>5, <3>1 DEF Exits
  <2> QED  BY <2>1, <2>2
<1>12. ASSUME NEW n \in 1 .. Len(p), At(p, n).op = "exit" PROVE \E i \in 1 .. Len(B) : e[i] = n
  <2>1. CASE n \in 1 .. Len(rest) /\ At(p, n) = At(rest, n)
    <3>1. PICK i \in 1 .. Len(A) : exit[i] = n
      BY <1>5, <1>12, <2>1 DEF Exits
    <3>2. i \in 1 .. Len(B)
      BY <1>1, <1>4
    <3> QED  BY <1>7, <3>1, <3>2
  <2>2. CASE n = m
    <3>1. Len(A) + 1 \in 1 .. Len(B)
      BY <1>1, <1>4
    <3> QED  BY <1>7, <2>2, <3>1
  <2> QED  BY <1>9, <1>12, <2>1, <2>2, EntersDiffer
<1>13. ASSUME NEW n \in 1 .. Len(p), At(p, n).op = "enter" PROVE Lies(s, B, e, At(p, n), n)
  <2>1. CASE n \in 1 .. Len(rest) /\ n < m /\ At(p, n) = At(rest, n)
    <3> DEFINE d == At(rest, n).depth
    <3>1. Lies(s, A, exit, At(rest, n), n)
      BY <1>5, <1>13, <2>1 DEF Exits
    <3>2. d \in 0 .. Len(A) /\ d \in 0 .. Len(B)
      BY <1>1, <1>4, <3>1 DEF Lies
    <3>3. d > 0 => d \in 1 .. Len(A) /\ B[d] = A[d] /\ e[d] = exit[d]
      BY <1>1, <1>4, <1>7, <3>2
    <3>4. d < Len(A) => d + 1 \in 1 .. Len(A) /\ e[d + 1] = exit[d + 1]
      <4> HIDE DEF d
      <4>1. d < Len(A) => d + 1 \in 1 .. Len(A)
        BY <1>1, <3>2
      <4> QED  BY <1>7, <4>1
    <3>5. d < Len(B) => n < e[d + 1]
      <4>1. CASE d < Len(A)
        BY <3>1, <3>4, <4>1 DEF Lies
      <4>2. CASE d = Len(A)
        BY <1>7, <2>1, <4>2
      <4> QED  BY <1>1, <3>2, <4>1, <4>2
    <3> QED  BY <2>1, <3>1, <3>2, <3>3, <3>5 DEF Lies
  <2>2. CASE n > m /\ \E t \in Refs(s, c) : At(p, n) = Enter(t, Len(A) + 1)
    <3>1. PICK t \in Refs(s, c) : At(p, n) = Enter(t, Len(A) + 1)
      BY <2>2
    <3>2. At(p, n).depth = Len(A) + 1 /\ At(p, n).config = t
      BY <3>1, EntersDiffer
    <3> QED  BY <1>1, <1>2, <1>4, <1>7, <2>2, <3>2 DEF Lies
  <2> QED  BY <1>9, <1>13, <2>1, <2>2 DEF ExitReference
<1>14. Layered(s, p, B)
  <2>1. Exits(s, p, B, e)
    BY <1>7, <1>10, <1>11, <1>12, <1>13 DEF Exits
  <2> QED  BY <1>3, <1>7, <2>1 DEF Layered
<1>15. ASSUME NEW t, NEW i, Pending(rest, t, i) PROVE Pending(p, t, i)
  <2>1. PICK n \in 1 .. Len(rest) : At(rest, n) = Enter(t, i)
    BY <1>15 DEF Pending
  <2>2. n \in 1 .. Len(p) /\ n \in 1 .. m - 1
    BY <1>2, <1>3
  <2> QED  BY <1>3, <2>1, <2>2 DEF Pending
<1>16. ASSUME NEW t \in Refs(s, c) PROVE Pending(p, t, Len(A) + 1)
  <2>1. PICK i \in 1 .. k : leads[i] = t
    BY <1>8, <1>16
  <2>2. k + 1 - i \in 1 .. k /\ k + 1 - (k + 1 - i) = i /\ m + (k + 1 - i) \in 1 .. Len(p)
    BY <1>2, <1>3
  <2>3. At(p, m + (k + 1 - i)) = Enter(t, Len(A) + 1)
    BY <1>3, <2>1, <2>2
  <2> QED  BY <2>2, <2>3 DEF Pending
<1> QED  BY <1>14, <1>15, <1>16 DEF B, rest

----------------------------------------------------------------------------
(* The walk, one item after the other.                                      *)

(* What is active is what the walk has not left.                            *)
LEMMA ActiveSplit ==
  ASSUME NEW A \in Seq(Nodes), A # <<>>, Distinct(A)
  PROVE  /\ Range(A) = Range(Front(A)) \cup {Last(A)} /\ Last(A) \notin Range(Front(A))
         /\ Distinct(Front(A))
<1> DEFINE B == Front(A)
<1>1. /\ B \in Seq(Nodes) /\ Len(B) = Len(A) - 1 /\ Len(A) \in Nat \ {0}
      /\ \A i \in 1 .. Len(A) - 1 : B[i] = A[i]
      /\ Last(A) = A[Len(A)]
  BY FrontOf
<1> HIDE DEF B
<1>2. /\ \A x : x \in Range(A) <=> \E i \in 1 .. Len(A) : A[i] = x
      /\ \A x : x \in Range(B) <=> \E i \in 1 .. Len(B) : B[i] = x
      /\ DOMAIN A = 1 .. Len(A) /\ DOMAIN B = 1 .. Len(B)
  BY <1>1, PlacesOf
<1>3. ASSUME NEW i \in 1 .. Len(A), i # Len(A) PROVE i \in 1 .. Len(B) /\ B[i] = A[i]
  BY <1>1, <1>3
<1>4. ASSUME NEW i \in 1 .. Len(B) PROVE i \in 1 .. Len(A) /\ i # Len(A) /\ B[i] = A[i]
  BY <1>1
<1>5. Range(A) = Range(B) \cup {Last(A)}
  <2>1. ASSUME NEW x \in Range(A) PROVE x \in Range(B) \cup {Last(A)}
    BY <1>1, <1>2, <1>3, <2>1
  <2>2. ASSUME NEW x \in Range(B) PROVE x \in Range(A)
    BY <1>2, <1>4, <2>2
  <2>3. Last(A) \in Range(A)
    BY <1>1, <1>2
  <2> QED  BY <2>1, <2>2, <2>3
<1>6. Last(A) \notin Range(B)
  <2> SUFFICES ASSUME NEW i \in 1 .. Len(B), B[i] = A[Len(A)] PROVE FALSE
    BY <1>1, <1>2
  <2>1. Len(A) \in DOMAIN A /\ i \in DOMAIN A
    BY <1>1, <1>2, <1>4
  <2> QED  BY <1>4, <2>1 DEF Distinct
<1>7. Distinct(B)
  <2> SUFFICES ASSUME NEW m \in 1 .. Len(B), NEW n \in 1 .. Len(B), B[m] = B[n] PROVE m = n
    BY <1>2 DEF Distinct
  <2>1. m \in DOMAIN A /\ n \in DOMAIN A /\ A[m] = A[n]
    BY <1>2, <1>4
  <2> QED  BY <2>1 DEF Distinct
<1> QED  BY <1>5, <1>6, <1>7 DEF B

(* Its references are all left or reported when a configuration is left.    *)
LEMMA WalksLeave ==
  ASSUME NEW s, NEW stk, NEW A, NEW V, NEW rep \in BOOLEAN, Walks(s, stk, A, V, rep),
         stk # <<>>, Head(stk).op = "exit"
  PROVE  Walks(s, Tail(stk), Front(A), V, rep)
<1> DEFINE B == Front(A)
           c == Last(A)
           rest == Tail(stk)
<1>1. IsPath(s, A, V) /\ A \in Seq(Nodes) /\ Distinct(A) /\ Range(A) \subseteq V
  BY DEF Walks, IsPath
<1>2. /\ A # <<>> /\ Layered(s, rest, B)
      /\ \A t : ~Pending(stk, t, Len(A))
      /\ \A t, i : Pending(stk, t, i) => Pending(rest, t, i)
  BY <1>1, ExitOnTop DEF Walks
<1>3. /\ B \in Seq(Nodes) /\ Len(B) = Len(A) - 1 /\ Len(A) \in Nat \ {0}
      /\ \A i \in 1 .. Len(A) - 1 : B[i] = A[i]
      /\ c = A[Len(A)]
  BY <1>1, <1>2, FrontOf
<1>4. Range(A) = Range(B) \cup {c} /\ c \notin Range(B) /\ Distinct(B)
  BY <1>1, <1>2, ActiveSplit
<1> HIDE DEF B, c, rest
<1>5. V \ Range(B) = (V \ Range(A)) \cup {c} /\ c \in V /\ Range(B) \subseteq V
  BY <1>1, <1>4
<1>6. IsPath(s, B, V)
  <2>1. B # <<>> => B[1] = Real(s.path)
    <3>1. B # <<>> => 1 \in 1 .. Len(A) - 1
      BY <1>3
    <3> QED  BY <1>1, <1>2, <1>3, <3>1 DEF IsPath
  <2>2. ASSUME NEW i \in 1 .. Len(B), i > 1 PROVE B[i] \in Refs(s, B[i - 1])
    <3>1. i \in 1 .. Len(A) /\ i \in 1 .. Len(A) - 1 /\ i - 1 \in 1 .. Len(A) - 1
      BY <1>3, <2>2
    <3>2. A[i] \in Refs(s, A[i - 1])
      BY <1>1, <2>2, <3>1 DEF IsPath
    <3> QED  BY <1>3, <3>1, <3>2
  <2> QED  BY <1>3, <1>4, <1>5, <2>1, <2>2 DEF IsPath
<1>7. \A t \in Refs(s, c) : t \in V \ Range(A) \/ (rep /\ t \in V)
  <2>1. Len(A) \in 1 .. Len(A)
    BY <1>3
  <2>2. Handled(s, stk, A, V, rep)
    BY DEF Walks
  <2>3. ~(Len(A) < Len(A))
    BY <1>3
  <2> QED  BY <1>2, <1>3, <2>1, <2>2, <2>3 DEF Handled
<1>8. Handled(s, rest, B, V, rep)
  <2> SUFFICES ASSUME NEW i \in 1 .. Len(B), NEW t \in Refs(s, B[i])
               PROVE  \/ t \in V \ Range(B) \/ Pending(rest, t, i)
                      \/ i < Len(B) /\ t = B[i + 1]
                      \/ rep /\ t \in V
    BY DEF Handled
  <2>1. i \in 1 .. Len(A) /\ B[i] = A[i]
    BY <1>3
  <2>2. \/ t \in V \ Range(A) \/ Pending(stk, t, i)
        \/ i < Len(A) /\ t = A[i + 1]
        \/ rep /\ t \in V
    BY <2>1 DEF Walks, Handled
  <2>3. CASE t = A[i + 1] /\ i < Len(B)
    <3>1. i + 1 \in 1 .. Len(A) - 1
      BY <1>3, <2>3
    <3> QED  BY <1>3, <2>3, <3>1
  <2>4. CASE t = A[i + 1] /\ ~(i < Len(B))
    <3>1. i + 1 = Len(A)
      BY <1>3, <2>4
    <3> QED  BY <1>3, <1>5, <2>4, <3>1
  <2> QED  BY <1>2, <1>5, <2>2, <2>3, <2>4
<1>9. Left(s, B, V, rep)
  <2>1. ASSUME NEW d \in V \ Range(A)
        PROVE  /\ \A t \in Refs(s, d) : t \in V \ Range(B) \/ (rep /\ t \in V)
               /\ ~rep => ~Returns(s, d)
    BY <1>5 DEF Walks, Left
  <2>2. \A t \in Refs(s, c) : t \in V \ Range(B) \/ (rep /\ t \in V)
    BY <1>5, <1>7
  <2>3. ASSUME ~rep PROVE ~Returns(s, c)
    <3>1. Closed(s, V \ Range(A))
      <4> SUFFICES ASSUME NEW d \in V \ Range(A), NEW t \in Refs(s, d) PROVE t \in V \ Range(A)
        BY DEF Closed
      <4> QED  BY <2>3 DEF Walks, Left
    <3>2. Refs(s, c) \subseteq V \ Range(A)
      BY <1>7, <2>3
    <3>3. c \notin V \ Range(A)
      BY <1>4
    <3> QED  BY <3>1, <3>2, <3>3 DEF Returns
  <2> QED  BY <1>5, <2>1, <2>2, <2>3 DEF Left
<1>10. Begun(s, rest, V)
  BY <1>2 DEF Walks, Begun
<1> QED  BY <1>2, <1>6, <1>8, <1>9, <1>10 DEF Walks, B, rest

(* A configuration that is active is on the cycle that is reported.         *)
LEMMA WalksReport ==
  ASSUME NEW s, NEW stk, NEW A, NEW V, NEW rep \in BOOLEAN, Walks(s, stk, A, V, rep),
         stk # <<>>, Head(stk).op = "enter", Head(stk).config \in Range(A)
  PROVE  Walks(s, Tail(stk), A, V, TRUE)
<1> DEFINE c == Head(stk).config
           rest == Tail(stk)
<1>1. IsPath(s, A, V) /\ A \in Seq(Nodes) /\ Distinct(A) /\ Range(A) \subseteq V /\ Len(A) \in Nat
  BY DEF Walks, IsPath
<1>2. /\ Layered(s, rest, A)
      /\ A # <<>> => c \in Refs(s, A[Len(A)])
      /\ \A t, i : Pending(stk, t, i) => Pending(rest, t, i) \/ (t = c /\ i = Len(A))
  BY <1>1, EnterOnTop DEF Walks
<1> HIDE DEF c, rest
<1>3. PICK j \in 1 .. Len(A) : A[j] = c
  BY <1>1, PlacesOf DEF c
<1>4. c \in V
  BY <1>1 DEF c
<1>5. Returns(s, c)
  <2> SUFFICES ASSUME NEW X, Closed(s, X), Refs(s, c) \subseteq X PROVE c \in X
    BY DEF Returns
  <2> DEFINE T == {k \in Nat : j + k <= Len(A) => Refs(s, A[j + k]) \subseteq X}
  <2>1. 0 \in T
    BY <1>1, <1>3
  <2>2. ASSUME NEW k \in Nat, k \in T PROVE k + 1 \in T
    <3> SUFFICES ASSUME j + (k + 1) <= Len(A) PROVE Refs(s, A[j + (k + 1)]) \subseteq X
      OBVIOUS
    <3>1. j + (k + 1) \in 1 .. Len(A) /\ j + (k + 1) > 1 /\ j + (k + 1) - 1 = j + k
          /\ j + k <= Len(A)
      BY <1>1, <1>3
    <3>2. A[j + (k + 1)] \in Refs(s, A[j + k])
      BY <1>1, <3>1 DEF IsPath
    <3>3. Refs(s, A[j + k]) \subseteq X
      BY <2>2, <3>1
    <3> QED  BY <3>2, <3>3 DEF Closed
  <2>3. \A k \in Nat : k \in T
    <3> HIDE DEF T
    <3> QED  BY <2>1, <2>2, SetInduction
  <2>4. Len(A) - j \in Nat /\ j + (Len(A) - j) = Len(A) /\ Len(A) <= Len(A)
    BY <1>1, <1>3
  <2>5. Refs(s, A[Len(A)]) \subseteq X
    BY <2>3, <2>4
  <2>6. A # <<>>
    BY <1>3
  <2> QED  BY <1>2, <2>5, <2>6
<1>6. Handled(s, rest, A, V, TRUE)
  <2> SUFFICES ASSUME NEW i \in 1 .. Len(A), NEW t \in Refs(s, A[i])
               PROVE  \/ t \in V \ Range(A) \/ Pending(rest, t, i)
                      \/ i < Len(A) /\ t = A[i + 1]
                      \/ t \in V
    BY DEF Handled
  <2> QED  BY <1>2, <1>4 DEF Walks, Handled
<1>7. Left(s, A, V, TRUE)
  BY DEF Walks, Left
<1>8. Begun(s, rest, V)
  <2>1. CASE Real(s.path) \in V
    BY <2>1 DEF Walks, Begun
  <2>2. CASE Pending(stk, Real(s.path), 0)
    BY <1>2, <1>4, <2>2 DEF Walks, Begun
  <2> QED  BY <2>1, <2>2 DEF Walks, Begun
<1> QED  BY <1>1, <1>2, <1>4, <1>5, <1>6, <1>7, <1>8 DEF Walks, rest

(* One that was left already is passed over.                                *)
LEMMA WalksPass ==
  ASSUME NEW s, NEW stk, NEW A, NEW V, NEW rep \in BOOLEAN, Walks(s, stk, A, V, rep),
         stk # <<>>, Head(stk).op = "enter", Head(stk).config \in V \ Range(A)
  PROVE  Walks(s, Tail(stk), A, V, rep)
<1> DEFINE c == Head(stk).config
           rest == Tail(stk)
<1>1. A \in Seq(Nodes)
  BY DEF Walks, IsPath
<1>2. /\ Layered(s, rest, A)
      /\ \A t, i : Pending(stk, t, i) => Pending(rest, t, i) \/ (t = c /\ i = Len(A))
  BY <1>1, EnterOnTop DEF Walks
<1> HIDE DEF rest
<1>3. Handled(s, rest, A, V, rep)
  <2> SUFFICES ASSUME NEW i \in 1 .. Len(A), NEW t \in Refs(s, A[i])
               PROVE  \/ t \in V \ Range(A) \/ Pending(rest, t, i)
                      \/ i < Len(A) /\ t = A[i + 1]
                      \/ rep /\ t \in V
    BY DEF Handled
  <2> QED  BY <1>2 DEF Walks, Handled
<1>4. Begun(s, rest, V)
  BY <1>2 DEF Walks, Begun
<1> QED  BY <1>2, <1>3, <1>4 DEF Walks, rest

(* One that is new becomes active once it has been read.                    *)
LEMMA WalksEnter ==
  ASSUME NEW s, NEW stk, NEW A, NEW V, NEW rep, NEW c, NEW leads, NEW depth,
         Enters(s, stk, A, V, rep, c, leads, depth)
  PROVE  Walks(s, Pushed(stk, leads, depth), Append(A, c), V \cup {c}, rep)
<1> DEFINE p == Pushed(stk, leads, depth)
           B == Append(A, c)
           W == V \cup {c}
           rest == Tail(stk)
<1> USE DEF Enters
<1>1. IsPath(s, A, V) /\ A \in Seq(Nodes) /\ Distinct(A) /\ Range(A) \subseteq V /\ Len(A) \in Nat
  BY DEF Walks, IsPath
<1>2. /\ c \in Nodes /\ Head(stk) = Enter(c, Len(A))
      /\ A = <<>> => c = Real(s.path)
      /\ A # <<>> => c \in Refs(s, A[Len(A)])
      /\ \A t, i : Pending(stk, t, i) => Pending(rest, t, i) \/ (t = c /\ i = Len(A))
  BY <1>1, EnterOnTop DEF Walks
<1>3. p = Pushed(stk, leads, Len(A) + 1)
  BY <1>2, EntersDiffer
<1> HIDE DEF p, rest
<1>4. /\ Layered(s, p, B)
      /\ \A t, i : Pending(rest, t, i) => Pending(p, t, i)
      /\ \A t \in Refs(s, c) : Pending(p, t, Len(A) + 1)
  BY <1>1, <1>3, LayerPushed DEF Walks, rest
<1>5. /\ B \in Seq(Nodes) /\ Len(B) = Len(A) + 1 /\ B[Len(A) + 1] = c
      /\ \A i \in 1 .. Len(A) : B[i] = A[i]
  BY <1>1, <1>2, AppendOf
<1>6. Range(B) = Range(A) \cup {c} /\ Distinct(B)
  BY <1>1, <1>2, RangeOfAppend
<1> HIDE DEF B
<1>7. W \ Range(B) = V \ Range(A)
  BY <1>1, <1>6
<1>8. IsPath(s, B, W)
  <2>1. B # <<>> => B[1] = Real(s.path)
    <3>1. CASE A = <<>>
      BY <1>2, <1>5, <3>1
    <3>2. CASE A # <<>>
      <4>1. 1 \in 1 .. Len(A)
        BY <1>1, <3>2
      <4> QED  BY <1>1, <1>5, <3>2, <4>1 DEF IsPath
    <3> QED  BY <3>1, <3>2
  <2>2. ASSUME NEW i \in 1 .. Len(B), i > 1 PROVE B[i] \in Refs(s, B[i - 1])
    <3>1. CASE i = Len(A) + 1
      <4>1. A # <<>> /\ i - 1 = Len(A) /\ Len(A) \in 1 .. Len(A)
        BY <1>1, <2>2, <3>1
      <4> QED  BY <1>2, <1>5, <3>1, <4>1
    <3>2. CASE i # Len(A) + 1
      <4>1. i \in 1 .. Len(A) /\ i - 1 \in 1 .. Len(A)
        BY <1>1, <1>5, <2>2, <3>2
      <4> QED  BY <1>1, <1>5, <2>2, <4>1 DEF IsPath
    <3> QED  BY <3>1, <3>2
  <2> QED  BY <1>1, <1>5, <1>6, <2>1, <2>2 DEF IsPath
<1>9. Handled(s, p, B, W, rep)
  <2> SUFFICES ASSUME NEW i \in 1 .. Len(B), NEW t \in Refs(s, B[i])
               PROVE  \/ t \in W \ Range(B) \/ Pending(p, t, i)
                      \/ i < Len(B) /\ t = B[i + 1]
                      \/ rep /\ t \in W
    BY DEF Handled
  <2>1. CASE i = Len(A) + 1
    BY <1>4, <1>5, <2>1
  <2>2. CASE i # Len(A) + 1
    <3>1. i \in 1 .. Len(A) /\ B[i] = A[i]
      BY <1>1, <1>5, <2>2
    <3>2. \/ t \in V \ Range(A) \/ Pending(stk, t, i)
          \/ i < Len(A) /\ t = A[i + 1]
          \/ rep /\ t \in V
      BY <3>1 DEF Walks, Handled
    <3>3. CASE t = c /\ i = Len(A)
      <4>1. i < Len(B)
        BY <1>1, <1>5, <3>3
      <4> QED  BY <1>5, <3>3, <4>1
    <3>4. CASE i < Len(A) /\ t = A[i + 1]
      <4>1. i + 1 \in 1 .. Len(A) /\ i < Len(B)
        BY <1>1, <1>5, <3>1, <3>4
      <4> QED  BY <1>5, <3>4, <4>1
    <3> QED  BY <1>2, <1>4, <1>7, <3>2, <3>3, <3>4
  <2> QED  BY <2>1, <2>2
<1>10. Left(s, B, W, rep)
  <2> SUFFICES ASSUME NEW d \in V \ Range(A)
               PROVE  /\ \A t \in Refs(s, d) : t \in V \ Range(A) \/ (rep /\ t \in W)
                      /\ ~rep => ~Returns(s, d)
    BY <1>7 DEF Left
  <2> QED  BY DEF Walks, Left
<1>11. Begun(s, p, W)
  <2>1. Real(s.path) \in W \/ Pending(p, Real(s.path), 0)
    BY <1>2, <1>4 DEF Walks, Begun
  <2>2. ASSUME NEW X, Closed(s, X), Real(s.path) \in X PROVE W \subseteq X
    <3>1. V \subseteq X
      BY <2>2 DEF Walks, Begun
    <3>2. A # <<>> => A[Len(A)] \in V
      <4>1. A # <<>> => Len(A) \in 1 .. Len(A)
        BY <1>1
      <4> QED  BY <1>1, <4>1, PlacesOf
    <3>3. c \in X
      BY <1>2, <2>2, <3>1, <3>2 DEF Closed
    <3> QED  BY <3>1, <3>3
  <2> QED  BY <2>1, <2>2 DEF Begun
<1>12. V \subseteq DOMAIN s.configs /\ (rep => \E d \in V : Returns(s, d))
  BY DEF Walks
<1>13. W \subseteq DOMAIN s.configs /\ (rep => \E d \in W : Returns(s, d))
  BY <1>12
<1> QED  BY <1>4, <1>8, <1>9, <1>10, <1>11, <1>13 DEF Walks, B, p

LEMMA WalksBegin ==
  ASSUME NEW s, Real(s.path) \in Nodes
  PROVE  Walks(s, <<Enter(Real(s.path), 0)>>, <<>>, {}, FALSE)
<1> DEFINE r == Real(s.path)
           e == Enter(r, 0)
           stk == <<e>>
<1>1. e \in Items /\ e.op = "enter" /\ e.config = r /\ e.depth = 0
  BY EntersDiffer DEF Items
<1> HIDE DEF e, r
<1>2. stk \in Seq(Items) /\ Len(stk) = 1 /\ stk[1] = e
  BY <1>1
<1>3. <<>> \in Seq(Nodes) /\ Len(<<>>) = 0 /\ Range(<<>>) = {} /\ Distinct(<<>>)
  BY RangeOfEmpty
<1> HIDE DEF stk
<1>4. 1 .. Len(stk) = {1} /\ At(stk, 1) = e
  BY <1>2 DEF At
<1>5. Pending(stk, r, 0)
  BY <1>4 DEF Pending, e
<1>6. Layered(s, stk, <<>>)
  <2> DEFINE x == [i \in 1 .. 0 |-> 1]
  <2>1. x \in [1 .. 0 -> 1 .. Len(stk)]
    BY <1>4
  <2>2. Lies(s, <<>>, x, e, 1)
    BY <1>1, <1>3 DEF Lies, r
  <2> HIDE DEF x
  <2>3. Exits(s, stk, <<>>, x)
    BY <1>1, <1>3, <1>4, <2>1, <2>2 DEF Exits
  <2> QED  BY <1>2, <1>3, <2>1, <2>3 DEF Layered
<1>7. IsPath(s, <<>>, {}) /\ Handled(s, stk, <<>>, {}, FALSE) /\ Left(s, <<>>, {}, FALSE)
  BY <1>3 DEF IsPath, Handled, Left
<1>8. Begun(s, stk, {})
  BY <1>5 DEF Begun, r
<1> QED  BY <1>6, <1>7, <1>8 DEF Walks, stk, e, r

LEMMA WalksEnd ==
  ASSUME NEW s, NEW A, NEW V, NEW rep \in BOOLEAN, Walks(s, <<>>, A, V, rep)
  PROVE  /\ Closed(s, V) /\ Real(s.path) \in V /\ V \subseteq DOMAIN s.configs
         /\ \A X : Closed(s, X) /\ Real(s.path) \in X => V \subseteq X
         /\ rep <=> \E c \in V : Returns(s, c)
<1>1. Len(<<>>) = 0 /\ 1 .. 0 = {}
  OBVIOUS
<1>2. A \in Seq(Nodes) /\ Len(A) \in Nat
  BY DEF Walks, IsPath
<1>3. A = <<>>
  <2>1. PICK exit \in [1 .. Len(A) -> 1 .. Len(<<>>)] : TRUE
    BY DEF Walks, Layered
  <2>2. ~(1 \in 1 .. Len(A))
    BY <1>1, <2>1
  <2> QED  BY <1>2, <2>2
<1>4. V \ Range(A) = V
  BY <1>3, RangeOfEmpty
<1>5. \A t, i : ~Pending(<<>>, t, i)
  BY <1>1 DEF Pending
<1>6. Closed(s, V)
  BY <1>4 DEF Walks, Left, Closed
<1>7. ~rep => \A c \in V : ~Returns(s, c)
  BY <1>4 DEF Walks, Left
<1> QED  BY <1>5, <1>6, <1>7 DEF Walks, Begun

----------------------------------------------------------------------------
(* What is reached: the least set that references do not leave.             *)

LEMMA ReachedIsLeast ==
  ASSUME NEW s, IsFiniteSet(DOMAIN s.configs), NEW V \in SUBSET DOMAIN s.configs, Closed(s, V),
         NEW S \in SUBSET V
  PROVE  /\ ReachedFrom(s, S) \subseteq V /\ S \subseteq ReachedFrom(s, S)
         /\ Closed(s, ReachedFrom(s, S))
         /\ \A X : Closed(s, X) /\ S \subseteq X => ReachedFrom(s, S) \subseteq X
<1> DEFINE Step(X) == X \cup UNION {Range(ReferenceTargets(s, c)) : c \in X}
           F == [n \in Nat |-> [X \in SUBSET V |-> Step(X)]]
           N == Cardinality(DOMAIN s.configs)
           Solves(W) == W = [n \in Nat |-> IF n = 0 THEN S
                                           ELSE W[n - 1] \cup
                                                UNION {Range(ReferenceTargets(s, c)) : c \in W[n - 1]}]
           R == CHOOSE W : Solves(W)
<1>1. ASSUME NEW X \in SUBSET V PROVE Step(X) \in SUBSET V
  BY DEF Closed, Refs
<1>2. F \in [Nat -> [SUBSET V -> SUBSET V]] /\ \A n \in Nat : \A X \in SUBSET V : F[n][X] = Step(X)
  <2> HIDE DEF Step
  <2> QED  BY <1>1
<1>3. PICK W \in [Nat -> SUBSET V] : Recurs(W, F, S)
  <2> HIDE DEF F
  <2> QED  BY <1>2, RecursionExists
<1>4. W[0] = S /\ \A n \in Nat : W[n + 1] = Step(W[n])
  <2> HIDE DEF F, Step
  <2> QED  BY <1>2, <1>3 DEF Recurs
<1>5. Solves(W)
  <2>1. ASSUME NEW n \in Nat, n # 0 PROVE W[n] = Step(W[n - 1])
    <3>1. n - 1 \in Nat /\ (n - 1) + 1 = n
      BY <2>1
    <3> HIDE DEF Step
    <3> QED  BY <1>4, <3>1
  <2>2. \A n \in Nat : W[n] = IF n = 0 THEN S ELSE Step(W[n - 1])
    <3> HIDE DEF Step
    <3> QED  BY <1>4, <2>1
  <2>3. W = [n \in Nat |-> W[n]]
    OBVIOUS
  <2> QED  BY <2>2, <2>3
<1>6. Solves(R)
  <2> HIDE DEF Solves
  <2> QED  BY <1>5
<1>7. \A n \in Nat : R[n] = W[n]
  <2> DEFINE T == {n \in Nat : R[n] = W[n]}
  <2>1. 0 \in T
    BY <1>4, <1>6
  <2>2. ASSUME NEW n \in Nat, n \in T PROVE n + 1 \in T
    <3>1. n + 1 \in Nat /\ n + 1 # 0 /\ (n + 1) - 1 = n
      OBVIOUS
    <3>2. R[n + 1] = Step(R[n])
      BY <1>6, <3>1
    <3> HIDE DEF Step, R
    <3> QED  BY <1>4, <2>2, <3>2
  <2>3. \A n \in Nat : n \in T
    <3> HIDE DEF T
    <3> QED  BY <2>1, <2>2, SetInduction
  <2> QED  BY <2>3
<1>8. N \in Nat
  BY FS_CardinalityType
<1>9. ReachedFrom(s, S) = W[N]
  <2>1. ReachedFrom(s, S) = R[N]
    BY DEF ReachedFrom
  <2> HIDE DEF R, N
  <2> QED  BY <1>7, <1>8, <2>1
<1>10. /\ IsFiniteSet(V)
       /\ \A n \in Nat : IsFiniteSet(W[n]) /\ Cardinality(W[n]) \in Nat /\ Cardinality(W[n]) <= N
  <2>1. \A X \in SUBSET V : X \in SUBSET DOMAIN s.configs
    OBVIOUS
  <2> QED  BY <2>1, FS_Subset, FS_CardinalityType
<1>11. \A n \in Nat : Closed(s, W[n]) \/ Cardinality(W[n]) >= n
  <2> DEFINE T == {n \in Nat : Closed(s, W[n]) \/ Cardinality(W[n]) >= n}
  <2>1. 0 \in T
    BY <1>10
  <2>2. ASSUME NEW n \in Nat, n \in T PROVE n + 1 \in T
    <3>1. W[n + 1] = Step(W[n])
      BY <1>4
    <3>2. CASE Closed(s, W[n])
      <4>1. W[n + 1] = W[n]
        BY <3>1, <3>2 DEF Closed, Refs
      <4> QED  BY <3>2, <4>1
    <3>3. CASE ~Closed(s, W[n])
      <4>1. W[n] \subseteq W[n + 1] /\ W[n] # W[n + 1]
        BY <3>1, <3>3 DEF Closed, Refs
      <4>2. Cardinality(W[n]) <= Cardinality(W[n + 1]) /\ Cardinality(W[n]) # Cardinality(W[n + 1])
        <5>1. n + 1 \in Nat
          OBVIOUS
        <5> QED  BY <1>10, <4>1, <5>1, FS_Subset
      <4>3. Cardinality(W[n]) >= n
        BY <2>2, <3>3
      <4>4. Cardinality(W[n + 1]) >= n + 1
        <5>1. \A k, l \in Nat : k <= l /\ k # l /\ k >= n => l >= n + 1
          OBVIOUS
        <5>2. n + 1 \in Nat
          OBVIOUS
        <5> QED  BY <1>10, <4>2, <4>3, <5>1, <5>2
      <4> QED  BY <4>4
    <3> QED  BY <3>2, <3>3
  <2>3. \A n \in Nat : n \in T
    <3> HIDE DEF T
    <3> QED  BY <2>1, <2>2, SetInduction
  <2> QED  BY <2>3
<1>12. Closed(s, W[N])
  <2> SUFFICES ASSUME Cardinality(W[N]) >= N PROVE Closed(s, W[N])
    BY <1>8, <1>11
  <2>1. W[N] \subseteq DOMAIN s.configs /\ W[N] \subseteq V
    BY <1>3, <1>8
  <2>2. Cardinality(W[N]) = N
    BY <1>8, <1>10
  <2>3. W[N] = DOMAIN s.configs
    BY <2>1, <2>2, FS_Subset
  <2>4. W[N] = V
    BY <2>1, <2>3
  <2> QED  BY <2>4
<1>13. ASSUME NEW X, Closed(s, X), S \subseteq X PROVE W[N] \subseteq X
  <2> DEFINE K == {n \in Nat : W[n] \subseteq X}
  <2>1. 0 \in K
    BY <1>4, <1>13
  <2>2. ASSUME NEW n \in Nat, n \in K PROVE n + 1 \in K
    <3>1. W[n + 1] = Step(W[n])
      BY <1>4
    <3> QED  BY <1>13, <2>2, <3>1 DEF Closed, Refs
  <2>3. \A n \in Nat : n \in K
    <3> HIDE DEF K
    <3> QED  BY <2>1, <2>2, SetInduction
  <2> QED  BY <1>8, <2>3
<1>14. S \subseteq W[N] /\ W[N] \subseteq V
  <2> DEFINE K == {n \in Nat : S \subseteq W[n]}
  <2>1. 0 \in K
    BY <1>4
  <2>2. ASSUME NEW n \in Nat, n \in K PROVE n + 1 \in K
    BY <1>4, <2>2
  <2>3. \A n \in Nat : n \in K
    <3> HIDE DEF K
    <3> QED  BY <2>1, <2>2, SetInduction
  <2> QED  BY <1>3, <1>8, <2>3
<1> QED  BY <1>9, <1>12, <1>13, <1>14

(* What a finished walk has visited is what is reached, and it has reported *)
(* a cycle exactly if there is one.                                         *)
LEMMA WalkIsExact ==
  ASSUME NEW s, IsFiniteSet(DOMAIN s.configs), NEW A, NEW V, NEW rep \in BOOLEAN,
         Walks(s, <<>>, A, V, rep)
  PROVE  /\ Reached(s) = V
         /\ rep <=> \E c \in V : OnReferenceCycle(s, c)
<1>1. /\ Closed(s, V) /\ Real(s.path) \in V /\ V \subseteq DOMAIN s.configs
      /\ \A X : Closed(s, X) /\ Real(s.path) \in X => V \subseteq X
      /\ rep <=> \E c \in V : Returns(s, c)
  BY WalksEnd
<1>2. Reached(s) = V
  <2>1. {Real(s.path)} \in SUBSET V /\ V \in SUBSET DOMAIN s.configs
    BY <1>1
  <2>2. /\ Reached(s) \subseteq V /\ {Real(s.path)} \subseteq Reached(s)
        /\ Closed(s, Reached(s))
    BY <1>1, <2>1, ReachedIsLeast DEF Reached
  <2> QED  BY <1>1, <2>2
<1>3. ASSUME NEW c \in V PROVE Returns(s, c) <=> OnReferenceCycle(s, c)
  <2> DEFINE R == ReachedFrom(s, Refs(s, c))
  <2>1. Refs(s, c) \in SUBSET V /\ V \in SUBSET DOMAIN s.configs
    BY <1>1 DEF Closed
  <2>2. /\ R \subseteq V /\ Refs(s, c) \subseteq R /\ Closed(s, R)
        /\ \A X : Closed(s, X) /\ Refs(s, c) \subseteq X => R \subseteq X
    BY <1>1, <2>1, ReachedIsLeast
  <2>3. OnReferenceCycle(s, c) <=> c \in R
    BY DEF OnReferenceCycle, Refs
  <2> HIDE DEF R
  <2>4. ASSUME Returns(s, c) PROVE c \in R
    BY <2>2, <2>4 DEF Returns
  <2>5. ASSUME c \in R PROVE Returns(s, c)
    BY <2>2, <2>5 DEF Returns
  <2> QED  BY <2>3, <2>4, <2>5
<1> QED  BY <1>1, <1>2, <1>3

----------------------------------------------------------------------------
(* What a configuration extends, as it is read.                             *)

(* The first places of a sequence.                                          *)
Start(line, n) == [i \in 1 .. n |-> line[i]]

LEMMA StartOf ==
  ASSUME NEW S, NEW line \in Seq(S), NEW n \in 1 .. Len(line)
  PROVE  /\ Start(line, n) \in Seq(S) /\ Len(Start(line, n)) = n
         /\ Last(Start(line, n)) = line[n]
         /\ \A x : x \in Range(Start(line, n)) <=> \E i \in 1 .. n : line[i] = x
         /\ n < Len(line) => Append(Start(line, n), line[n + 1]) = Start(line, n + 1)
         /\ n = Len(line) => Start(line, n) = line
<1> DEFINE p == Start(line, n)
<1>1. Len(line) \in Nat /\ n \in Nat /\ \A i \in 1 .. Len(line) : line[i] \in S
  OBVIOUS
<1>2. \A i \in 1 .. n : i \in 1 .. Len(line) /\ line[i] \in S
  BY <1>1
<1>3. p \in [1 .. n -> S] /\ \A i \in 1 .. n : p[i] = line[i]
  BY <1>2 DEF Start
<1> HIDE DEF p
<1>4. p \in Seq(S) /\ Len(p) = n
  BY <1>1, <1>3
<1>5. \A x : x \in Range(p) <=> \E i \in 1 .. n : line[i] = x
  BY <1>3, <1>4, PlacesOf
<1>6. n < Len(line) => Append(p, line[n + 1]) = Start(line, n + 1)
  <2> SUFFICES ASSUME n < Len(line) PROVE Append(p, line[n + 1]) = Start(line, n + 1)
    OBVIOUS
  <2>1. n + 1 \in 1 .. Len(line) /\ line[n + 1] \in S
    BY <1>1
  <2>2. /\ Append(p, line[n + 1]) \in Seq(S) /\ Len(Append(p, line[n + 1])) = n + 1
        /\ \A i \in 1 .. n : Append(p, line[n + 1])[i] = line[i]
        /\ Append(p, line[n + 1])[n + 1] = line[n + 1]
    BY <1>3, <1>4, <2>1, AppendOf
  <2> DEFINE q == Append(p, line[n + 1])
  <2>3. q = [i \in 1 .. n + 1 |-> q[i]]
    BY <2>2
  <2>4. \A i \in 1 .. n + 1 : q[i] = line[i]
    BY <1>1, <2>2
  <2> HIDE DEF q
  <2>5. q = [i \in 1 .. n + 1 |-> line[i]]
    BY <2>3, <2>4
  <2> QED  BY <2>5 DEF q, Start
<1>7. n = Len(line) => p = line
  <2> SUFFICES ASSUME n = Len(line) PROVE p = line
    OBVIOUS
  <2>1. line = [i \in 1 .. n |-> line[i]]
    OBVIOUS
  <2> QED  BY <2>1 DEF p, Start
<1>8. Last(p) = line[n]
  BY <1>1, <1>3, <1>4 DEF Last
<1> QED  BY <1>4, <1>5, <1>6, <1>7, <1>8 DEF p

(* A chain that ends, or comes back to itself, is the lineage of its head.  *)
LEMMA LineageIs ==
  ASSUME NEW s, IsFiniteSet(DOMAIN s.configs), NEW c, NEW S, NEW line \in Seq(S),
         Extending(s, c, line), Range(line) \subseteq DOMAIN s.configs,
         ~SomeOf(ExtendsTarget(s, Last(line))) \/ ExtendsTarget(s, Last(line))[1] \in Range(line)
  PROVE  Lineage(s, c) = line
<1> DEFINE Next1(l) == IF ~SomeOf(ExtendsTarget(s, Last(l))) \/ ExtendsTarget(s, Last(l))[1] \in Range(l)
                         THEN l ELSE Append(l, ExtendsTarget(s, Last(l))[1])
           N == Cardinality(DOMAIN s.configs)
           k == Len(line)
           Solves(W) == W = [n \in Nat |->
              IF n = 0 THEN <<c>>
              ELSE LET l == W[n - 1]
                       target == ExtendsTarget(s, Last(l))
                   IN IF ~SomeOf(target) \/ target[1] \in Range(l) THEN l
                      ELSE Append(l, target[1])]
           R == CHOOSE W : Solves(W)
           cut(n) == IF n + 1 <= k THEN n + 1 ELSE k
           W == [n \in Nat |-> Start(line, cut(n))]
<1>1. k \in Nat \ {0} /\ line[1] = c /\ DOMAIN line = 1 .. k
  BY DEF Extending
<1> HIDE DEF k
<1>2. \A n \in Nat : cut(n) \in 1 .. k
  BY <1>1
<1>3. W[0] = <<c>>
  <2>1. cut(0) = 1 /\ 1 \in 1 .. k
    BY <1>1
  <2>2. Start(line, 1) = <<c>>
    BY <1>1 DEF Start
  <2> HIDE DEF cut
  <2> QED  BY <2>1, <2>2
<1>4. ASSUME NEW n \in Nat PROVE W[n + 1] = Next1(W[n])
  <2>1. CASE n + 1 < k
    <3>1. cut(n) = n + 1 /\ cut(n + 1) = n + 2 /\ n + 1 \in 1 .. k /\ n + 2 \in 1 .. k
          /\ n + 2 > 1 /\ (n + 1) + 1 = n + 2 /\ (n + 2) - 1 = n + 1
      BY <1>1, <2>1
    <3>2. W[n] = Start(line, n + 1) /\ W[n + 1] = Start(line, n + 2)
      <4> HIDE DEF cut
      <4> QED  BY <3>1
    <3>3. /\ Last(Start(line, n + 1)) = line[n + 1]
          /\ \A x : x \in Range(Start(line, n + 1)) <=> \E i \in 1 .. n + 1 : line[i] = x
          /\ Append(Start(line, n + 1), line[n + 2]) = Start(line, n + 2)
      BY <2>1, <3>1, StartOf DEF k
    <3>4. ExtendsTarget(s, line[n + 1]) = <<line[n + 2]>>
      BY <3>1 DEF Extending, k
    <3>5. line[n + 2] \notin Range(Start(line, n + 1))
      <4> SUFFICES ASSUME NEW i \in 1 .. n + 1, line[i] = line[n + 2] PROVE FALSE
        BY <3>3
      <4>1. i \in DOMAIN line /\ n + 2 \in DOMAIN line /\ i # n + 2
        BY <1>1, <3>1
      <4> QED  BY <4>1 DEF Extending, Distinct
    <3>6. <<line[n + 2]>> # <<>> /\ <<line[n + 2]>>[1] = line[n + 2]
      OBVIOUS
    <3>7. Next1(Start(line, n + 1)) = Start(line, n + 2)
      BY <3>3, <3>4, <3>5, <3>6 DEF SomeOf
    <3> HIDE DEF Next1, W
    <3> QED  BY <3>2, <3>7
  <2>2. CASE ~(n + 1 < k)
    <3>1. cut(n) = k /\ cut(n + 1) = k /\ k \in 1 .. k
      BY <1>1, <2>2
    <3>2. Start(line, k) = line
      BY <3>1, StartOf DEF k
    <3>3. W[n] = line /\ W[n + 1] = line
      <4> HIDE DEF cut
      <4> QED  BY <3>1, <3>2
    <3>4. Next1(line) = line
      OBVIOUS
    <3> HIDE DEF Next1, W
    <3> QED  BY <3>3, <3>4
  <2> QED  BY <2>1, <2>2
<1> HIDE DEF cut
<1>5. Solves(W)
  <2>1. ASSUME NEW n \in Nat, n # 0 PROVE W[n] = Next1(W[n - 1])
    <3>1. n - 1 \in Nat /\ (n - 1) + 1 = n
      BY <2>1
    <3> HIDE DEF Next1, W
    <3> QED  BY <1>4, <3>1
  <2>2. \A n \in Nat : W[n] = IF n = 0 THEN <<c>> ELSE Next1(W[n - 1])
    <3> HIDE DEF Next1, W
    <3> QED  BY <1>3, <2>1
  <2>3. W = [n \in Nat |-> W[n]]
    OBVIOUS
  <2> HIDE DEF W
  <2> QED  BY <2>2, <2>3
<1>6. Solves(R)
  <2> HIDE DEF Solves, W
  <2> QED  BY <1>5
<1> HIDE DEF W
<1>7. \A n \in Nat : R[n] = W[n]
  <2> DEFINE T == {n \in Nat : R[n] = W[n]}
  <2>1. 0 \in T
    BY <1>3, <1>6
  <2>2. ASSUME NEW n \in Nat, n \in T PROVE n + 1 \in T
    <3>1. n + 1 \in Nat /\ n + 1 # 0 /\ (n + 1) - 1 = n
      OBVIOUS
    <3>2. R[n + 1] = Next1(R[n])
      <4>1. \A i \in Nat : i # 0 => R[i] = Next1(R[i - 1])
        <5> HIDE DEF R
        <5> QED  BY <1>6
      <4> HIDE DEF R, Next1
      <4> QED  BY <3>1, <4>1
    <3> HIDE DEF Next1, R
    <3> QED  BY <1>4, <2>2, <3>2
  <2>3. \A n \in Nat : n \in T
    <3> HIDE DEF T
    <3> QED  BY <2>1, <2>2, SetInduction
  <2> QED  BY <2>3
<1>8. N \in Nat /\ k <= N
  <2>1. line \in Injection(1 .. k, DOMAIN s.configs)
    <3>1. \A i \in 1 .. k : line[i] \in DOMAIN s.configs
      BY <1>1, PlacesOf DEF k
    <3>2. line \in [1 .. k -> DOMAIN s.configs]
      BY <1>1, <3>1 DEF k
    <3>3. \A i, j \in 1 .. k : line[i] = line[j] => i = j
      BY <1>1 DEF Extending, Distinct
    <3> QED  BY <3>2, <3>3 DEF Injection, IsInjective
  <2>2. Cardinality(1 .. k) <= N
    BY <2>1, FS_Injection
  <2>3. Cardinality(1 .. k) = k
    <3>1. 1 \in Int /\ k \in Int /\ ~(1 > k) /\ k - 1 + 1 = k
      BY <1>1
    <3> QED  BY <3>1, FS_Interval
  <2>4. N \in Nat
    BY FS_CardinalityType
  <2> QED  BY <2>2, <2>3, <2>4
<1>9. W[N] = line
  <2>1. cut(N) = k /\ k \in 1 .. k
    BY <1>1, <1>8 DEF cut
  <2>2. Start(line, k) = line
    BY <2>1, StartOf DEF k
  <2> HIDE DEF N
  <2> QED  BY <1>8, <2>1, <2>2 DEF W
<1>10. Lineage(s, c) = R[N]
  BY DEF Lineage
<1> HIDE DEF R, N
<1> QED  BY <1>7, <1>8, <1>9, <1>10

----------------------------------------------------------------------------
(* The references of a configuration that was read are a list of paths.     *)
LEMMA PathsAreListed ==
  ASSUME NEW v, v.json = "array", NEW E, v.items \in Seq(E),
         NEW P, \A e \in E : WellFormedReference(e) => e.path.text \in P
  PROVE  ParseReferences(v).paths \in Seq(P)
<1> DEFINE Grow(l, e) == IF WellFormedReference(e) THEN Append(l, e.path.text) ELSE l
           N == Len(v.items)
           A == Seq(P)
           row(k) == [x \in A |-> IF k + 1 <= N THEN Grow(x, v.items[k + 1]) ELSE x]
           F == [k \in Nat |-> row(k)]
           Solves(kept) == kept = [n \in 0 .. N |->
              IF n = 0 THEN <<>>
              ELSE IF WellFormedReference(v.items[n])
                     THEN Append(kept[n - 1], v.items[n].path.text)
              ELSE kept[n - 1]]
           result == CHOOSE kept : Solves(kept)
<1>1. N \in Nat /\ \A k \in 1 .. N : v.items[k] \in E
  OBVIOUS
<1>2. ASSUME NEW x \in A, NEW k \in 1 .. N PROVE Grow(x, v.items[k]) \in A
  <2>1. v.items[k] \in E
    BY <1>1
  <2> DEFINE e == v.items[k]
             q == e.path.text
  <2> HIDE DEF e
  <2>2. CASE WellFormedReference(e)
    <3>1. q \in P
      BY <2>1, <2>2 DEF e
    <3> HIDE DEF q
    <3>2. Append(x, q) \in Seq(P)
      BY <3>1
    <3> QED  BY <2>2, <3>2 DEF e, q
  <2>3. CASE ~WellFormedReference(e)
    BY <2>3 DEF e
  <2> QED  BY <2>2, <2>3
<1>3. \A k \in Nat : row(k) \in [A -> A]
  <2> TAKE k \in Nat
  <2>1. CASE k + 1 <= N
    <3>1. k + 1 \in 1 .. N
      BY <1>1, <2>1
    <3> HIDE DEF A, Grow, N
    <3> QED  BY <1>2, <2>1, <3>1
  <2>2. CASE ~(k + 1 <= N)
    <3> HIDE DEF A, Grow, N
    <3> QED  BY <2>2
  <2> QED  BY <2>1, <2>2
<1>4. PICK W \in [Nat -> A] : Recurs(W, F, <<>>)
  <2>1. <<>> \in A
    OBVIOUS
  <2>2. F \in [Nat -> [A -> A]]
    <3> HIDE DEF row, A
    <3> QED  BY <1>3
  <2> HIDE DEF A, F
  <2> QED  BY <2>1, <2>2, RecursionExists
<1>5. W[0] = <<>> /\ \A k \in Nat : W[k] \in A
  BY <1>4 DEF Recurs
<1>6. \A n \in 1 .. N : W[n] = Grow(W[n - 1], v.items[n])
  <2> TAKE n \in 1 .. N
  <2>1. n - 1 \in Nat /\ (n - 1) + 1 = n /\ n <= N
    BY <1>1
  <2>2. W[(n - 1) + 1] = F[n - 1][W[n - 1]] /\ W[n - 1] \in A
    BY <1>4, <2>1 DEF Recurs
  <2>3. F[n - 1] = row(n - 1)
    <3> HIDE DEF row
    <3> QED  BY <2>1
  <2> HIDE DEF F, Grow, A, N
  <2>4. row(n - 1)[W[n - 1]] = Grow(W[n - 1], v.items[n])
    BY <2>1, <2>2
  <2> QED  BY <2>1, <2>2, <2>3, <2>4
<1>7. Solves([n \in 0 .. N |-> W[n]])
  <2> DEFINE it == [n \in 0 .. N |-> W[n]]
  <2>1. ASSUME NEW n \in 0 .. N, n # 0
        PROVE  it[n] = IF WellFormedReference(v.items[n])
                         THEN Append(it[n - 1], v.items[n].path.text) ELSE it[n - 1]
    <3>1. n \in 1 .. N /\ n - 1 \in 0 .. N
      BY <1>1, <2>1
    <3>2. it[n] = W[n] /\ it[n - 1] = W[n - 1]
      BY <3>1
    <3> HIDE DEF it
    <3> QED  BY <1>6, <3>1, <3>2
  <2>2. 0 \in 0 .. N /\ it[0] = <<>>
    BY <1>1, <1>5
  <2>3. it = [n \in 0 .. N |-> it[n]]
    OBVIOUS
  <2> HIDE DEF it, N
  <2> QED  BY <2>1, <2>2, <2>3 DEF it
<1>8. Solves(result)
  <2> HIDE DEF Solves, N
  <2> QED  BY <1>7
<1>9. ParseReferences(v).paths = result[N]
  BY DEF ParseReferences
<1> HIDE DEF result
<1>10. result[0] = <<>> /\ \A n \in 1 .. N : result[n] = Grow(result[n - 1], v.items[n])
  <2>1. 0 \in 0 .. N /\ \A n \in 1 .. N : n \in 0 .. N /\ n # 0
    BY <1>1
  <2> HIDE DEF N
  <2> QED  BY <1>8, <2>1
<1> DEFINE T == {n \in Nat : n <= N => result[n] \in A}
<1>11. 0 \in T
  <2>1. <<>> \in A
    OBVIOUS
  <2>2. result[0] \in A
    BY <1>10, <2>1
  <2> HIDE DEF A, N
  <2> QED  BY <2>2
<1>12. ASSUME NEW n \in T PROVE n + 1 \in T
  <2>1. n \in Nat /\ n + 1 \in Nat /\ (n + 1) - 1 = n
    OBVIOUS
  <2>2. ASSUME n + 1 <= N PROVE result[n + 1] \in A
    <3>1. n + 1 \in 1 .. N /\ n <= N
      BY <1>1, <2>1, <2>2
    <3>2. result[n] \in A
      BY <3>1
    <3>3. result[n + 1] = Grow(result[n], v.items[n + 1])
      <4> HIDE DEF Grow, N
      <4> QED  BY <1>10, <2>1, <3>1
    <3> HIDE DEF Grow, N, A
    <3> QED  BY <1>2, <3>1, <3>2, <3>3
  <2> QED  BY <2>1, <2>2
<1>13. N \in T
  <2>1. \A n \in Nat : n \in T
    <3> HIDE DEF T
    <3> QED  BY <1>11, <1>12, SetInduction
  <2> QED  BY <1>1, <2>1
<1>14. result[N] \in A
  <2> HIDE DEF A, N
  <2> QED  BY <1>1, <1>13
<1> HIDE DEF N
<1> QED  BY <1>9, <1>14

LEMMA TargetsAreListed ==
  ASSUME NEW p, NEW config, NEW refs, NEW P, refs \in Seq(P), Parsed(p, config).references = refs
  PROVE  ReferenceTargets(p, config) \in Seq(Nodes)
<1> DEFINE Grow(l, e) == IF ReferenceTarget(p, config, e) \in Nodes
                           THEN Append(l, ReferenceTarget(p, config, e)) ELSE l
           n == Len(refs)
           I == 1 .. n
           A == Seq(Nodes)
           F == [k \in I |-> [x \in A |-> Grow(x, refs[k])]]
           Solves(it) == it = [s \in SUBSET DOMAIN refs |->
                                  IF s = {} THEN <<>>
                                 ELSE Grow(it[s \ {Max(s)}], refs[Max(s)])]
           result == CHOOSE it : Solves(it)
<1>1. n \in Nat /\ DOMAIN refs = I
  OBVIOUS
<1>2. ASSUME NEW x \in A, NEW k \in I PROVE Grow(x, refs[k]) \in A
  <2> DEFINE q == ReferenceTarget(p, config, refs[k])
  <2> HIDE DEF q
  <2>1. q \in Nodes => Append(x, q) \in Seq(Nodes)
    OBVIOUS
  <2> QED  BY <2>1 DEF q
<1>3. F \in [I -> [A -> A]] /\ \A k \in I : \A x \in A : F[k][x] = Grow(x, refs[k])
  <2> HIDE DEF A, Grow
  <2> QED  BY <1>2
<1>4. PICK it \in [SUBSET I -> A] : Folds(it, F, <<>>, n)
  <2>1. <<>> \in A /\ n \in Nat
    BY <1>1
  <2>2. F \in [1 .. n -> [A -> A]]
    BY <1>3
  <2> HIDE DEF A, F, n
  <2> QED  BY <2>1, <2>2, FoldExists
<1>5. Solves(it)
  <2>1. ASSUME NEW s \in SUBSET I, s # {}
        PROVE  it[s] = Grow(it[s \ {Max(s)}], refs[Max(s)])
    <3>1. Max(s) = Top(s)
      BY DEF Max, Top
    <3>2. Top(s) \in I
      BY <1>1, <2>1, TopOf
    <3>3. it[s \ {Top(s)}] \in A
      OBVIOUS
    <3>4. it[s] = F[Top(s)][it[s \ {Top(s)}]]
      BY <1>4, <2>1 DEF Folds
    <3>5. F[Top(s)][it[s \ {Top(s)}]] = Grow(it[s \ {Top(s)}], refs[Top(s)])
      <4> HIDE DEF F, A, I
      <4> QED  BY <1>3, <3>2, <3>3
    <3> HIDE DEF F, A, I
    <3> QED  BY <3>1, <3>4, <3>5
  <2>2. it[{}] = <<>>
    BY <1>4 DEF Folds
  <2>3. it = [s \in SUBSET DOMAIN refs |-> it[s]]
    BY <1>1
  <2> HIDE DEF I, A
  <2> QED  BY <1>1, <2>1, <2>2, <2>3
<1>6. Solves(result)
  <2> HIDE DEF Solves
  <2> QED  BY <1>5
<1>7. ReferenceTargets(p, config) = result[DOMAIN refs]
  BY DEF ReferenceTargets, FoldLeft, MapThenFoldSet
<1> HIDE DEF result
<1>8. LeadsTo(A, F, <<>>, n, result[1 .. n])
  <2>1. <<>> \in A /\ result[{}] = <<>>
    <3>1. <<>> \in A
      OBVIOUS
    <3>2. result[{}] = <<>>
      BY <1>6
    <3> QED  BY <3>1, <3>2
  <2>2. ASSUME NEW s \in SUBSET I, s # {}, result[s \ {Top(s)}] \in A
        PROVE  result[s] = F[Top(s)][result[s \ {Top(s)}]]
    <3>1. Max(s) = Top(s)
      BY DEF Max, Top
    <3>2. Top(s) \in I
      BY <1>1, <2>2, TopOf
    <3>3. result[s] = Grow(result[s \ {Max(s)}], refs[Max(s)])
      BY <1>1, <1>6, <2>2
    <3> HIDE DEF F, A, I, Solves
    <3> QED  BY <1>3, <2>2, <3>1, <3>2, <3>3
  <2>3. F \in [1 .. n -> [A -> A]] /\ n \in Nat
    BY <1>1, <1>3
  <2>4. \A s \in SUBSET (1 .. n) :
          s # {} /\ result[s \ {Top(s)}] \in A => result[s] = F[Top(s)][result[s \ {Top(s)}]]
    <3> HIDE DEF F, A, Solves
    <3> QED  BY <2>2
  <2> HIDE DEF F, A, Solves, n
  <2> QED  BY <2>1, <2>3, <2>4, FoldWalks
<1>9. result[1 .. n] \in A
  <2> HIDE DEF F, A, n
  <2> QED  BY <1>1, <1>8 DEF LeadsTo
<1> HIDE DEF F
<1> QED  BY <1>1, <1>7, <1>9

LEMMA ReferencesAreListed ==
  ASSUME NEW s \in Selections, NEW c, Readable(s, c)
  PROVE  ReferenceTargets(s, c) \in Seq(Nodes)
<1> DEFINE text == s.configs[c]
           v == text.references
           E == ToSet(v.items)
           P == {e.path.text : e \in {f \in E : WellFormedReference(f)}}
<1>1. c \in DOMAIN s.configs /\ text # [json |-> "garbage"]
  BY DEF Readable, Garbage
<1>2. Parsed(s, c).references = ParseReferences(v).paths
  <2>1. Parsed(s, c) = ParseTsconfig(text)
    BY <1>1 DEF Parsed, TextOf
  <2>2. ParseTsconfig(text).references = ParseReferences(v).paths
    BY DEF ParseTsconfig
  <2> HIDE DEF text
  <2> QED  BY <2>1, <2>2
<1>3. v.json = "array" => v.items \in Seq(E)
  BY <1>1, ConfigsAssumption
<1> HIDE DEF text, v, E
<1>4. CASE v.json = "array"
  <2>1. \A e \in E : WellFormedReference(e) => e.path.text \in P
    OBVIOUS
  <2> HIDE DEF P
  <2>2. ParseReferences(v).paths \in Seq(P)
    BY <1>3, <1>4, <2>1, PathsAreListed
  <2> QED  BY <1>2, <2>2, TargetsAreListed
<1>5. CASE v.json # "array"
  <2>1. ParseReferences(v).paths = <<>>
    BY <1>5 DEF ParseReferences
  <2>2. <<>> \in Seq({})
    OBVIOUS
  <2> QED  BY <1>2, <2>1, <2>2, TargetsAreListed
<1> QED  BY <1>4, <1>5

----------------------------------------------------------------------------
(* Discovery.                                                               *)

LEMMA CountedAdds ==
  ASSUME NEW D, NEW E
  PROVE  /\ Counted(D \cup E) = Counted(D) \cup Counted(E)
         /\ (\A d \in E : d.kind \in {"reference cycle", "pattern"}) => Counted(E) = {}
         /\ (\A d \in E : d.kind \notin {"reference cycle", "pattern"}) => Counted(E) = E
BY DEF Counted

LEMMA KindsOfDiagnostics ==
  ASSUME NEW s, NEW c
  PROVE  /\ \A d \in FileDiagnostics(s, c) : d.kind \notin {"reference cycle", "pattern"}
         /\ \A d \in ReferenceDiagnostics(s, c) : d.kind \notin {"reference cycle", "pattern"}
         /\ \A e, t : Diagnostic("extends cycle", e, t).kind \notin {"reference cycle", "pattern"}
         /\ \A e, t : Diagnostic("reference cycle", e, t).kind = "reference cycle"
         /\ \A l : \A d \in PatternDiagnostics(c, l) : d.kind = "pattern"
<1>1. \A k, e, t : Diagnostic(k, e, t).kind = k
  BY DEF Diagnostic
<1>2. \A d \in FieldDiagnostics(s, c) : \E t : d = Diagnostic("field", c, t)
  BY DEF FieldDiagnostics
<1>3. \A d \in ExtendsDiagnostics(s, c) :
        \E t : d = Diagnostic("package", c, t) \/ d = Diagnostic("extends missing", c, t)
  BY DEF ExtendsDiagnostics
<1>4. \A d \in ReferenceDiagnostics(s, c) : \E t : d = Diagnostic("reference missing", c, t)
  BY DEF ReferenceDiagnostics
<1>5. \A l : \A d \in PatternDiagnostics(c, l) : \E t : d = Diagnostic("pattern", c, t)
  BY DEF PatternDiagnostics
<1>6. \A d \in FileDiagnostics(s, c) : d.kind \in {"field", "package", "extends missing"}
  <2> TAKE d \in FileDiagnostics(s, c)
  <2>1. CASE d \in FieldDiagnostics(s, c)
    <3>1. PICK t : d = Diagnostic("field", c, t)
      BY <1>2, <2>1
    <3> QED  BY <1>1, <3>1
  <2>2. CASE d \in ExtendsDiagnostics(s, c)
    <3>1. PICK t : d = Diagnostic("package", c, t) \/ d = Diagnostic("extends missing", c, t)
      BY <1>3, <2>2, Zenon
    <3>2. CASE d = Diagnostic("package", c, t)
      BY <1>1, <3>2
    <3>3. CASE d = Diagnostic("extends missing", c, t)
      BY <1>1, <3>3
    <3> QED  BY <3>1, <3>2, <3>3
  <2> QED  BY <2>1, <2>2 DEF FileDiagnostics
<1>7. \A d \in ReferenceDiagnostics(s, c) : d.kind = "reference missing"
  <2> TAKE d \in ReferenceDiagnostics(s, c)
  <2>1. PICK t : d = Diagnostic("reference missing", c, t)
    BY <1>4
  <2> QED  BY <1>1, <2>1
<1>8. \A l : \A d \in PatternDiagnostics(c, l) : d.kind = "pattern"
  BY <1>1, <1>5
<1>9. \A k \in {"field", "package", "extends missing", "reference missing", "extends cycle"} :
        k \notin {"reference cycle", "pattern"}
  OBVIOUS
<1> QED  BY <1>1, <1>6, <1>7, <1>8, <1>9

(* At most one file is extended, and it is there.                           *)
LEMMA TargetOfExtends ==
  ASSUME NEW s, NEW c, SomeOf(ExtendsTarget(s, c))
  PROVE  ExtendsTarget(s, c)[1] \in Nodes /\ ExtendsTarget(s, c) = <<ExtendsTarget(s, c)[1]>>
BY DEF ExtendsTarget, SomeOf

LEMMA ExtendingMore ==
  ASSUME NEW s, NEW c, NEW line \in Seq(Nodes), Extending(s, c, line),
         NEW t \in Nodes, ExtendsTarget(s, Last(line)) = <<t>>, t \notin Range(line)
  PROVE  Extending(s, c, Append(line, t))
<1> DEFINE more == Append(line, t)
<1>1. /\ more \in Seq(Nodes) /\ Len(more) = Len(line) + 1 /\ Len(line) \in Nat
      /\ \A i \in 1 .. Len(line) : more[i] = line[i]
      /\ more[Len(line) + 1] = t
  BY AppendOf
<1>2. Distinct(more)
  BY RangeOfAppend DEF Extending
<1> HIDE DEF more
<1>3. line # <<>> /\ line[1] = c /\ 1 \in 1 .. Len(line)
  BY <1>1 DEF Extending
<1>4. ASSUME NEW i \in 1 .. Len(more), i > 1 PROVE ExtendsTarget(s, more[i - 1]) = <<more[i]>>
  <2>1. CASE i = Len(line) + 1
    <3>1. i - 1 = Len(line) /\ Len(line) \in 1 .. Len(line)
      BY <1>1, <1>4, <2>1
    <3> QED  BY <1>1, <2>1, <3>1 DEF Last
  <2>2. CASE i # Len(line) + 1
    <3>1. i \in 1 .. Len(line) /\ i - 1 \in 1 .. Len(line)
      BY <1>1, <1>4, <2>2
    <3> QED  BY <1>1, <1>4, <3>1 DEF Extending
  <2> QED  BY <2>1, <2>2
<1>5. more # <<>>
  BY <1>1
<1> QED  BY <1>1, <1>2, <1>3, <1>4, <1>5 DEF Extending, more

LEMMA SaidWhere ==
  ASSUME NEW s, NEW c, NEW line, NEW where
  PROVE  /\ where = "open" =>
              SaidSoFar(where, s, c, line) = FilesDiagnostics(s, line)
         /\ where = "merge" => SaidSoFar(where, s, c, line) = Said(s, c)
         /\ where \notin {"open", "merge"} => SaidSoFar(where, s, c, line) = {}
BY DEF SaidSoFar

LEMMA DiscoveryBegins == ASSUME DiscoveryInit PROVE DiscoveryInv
BY DEF DiscoveryInit, DiscoveryInv

(* A selection that is no tsconfig, or that is refused, keeps nothing.      *)
LEMMA SelectionSteps ==
  ASSUME DiscoveryInv,
         RefuseSelection \/ SelectEntry \/ SelectDirectory \/ ReferenceTooDeep \/ OpenFails \/ Forget
  PROVE  DiscoveryInv'
<1>1. CASE RefuseSelection \/ ReferenceTooDeep \/ OpenFails
  <2>1. selected' = selected /\ stage' = "refused" /\ stage # "dropped"
    BY <1>1 DEF RefuseSelection, ReferenceTooDeep, OpenFails, Refuse, Item
  <2> QED  BY <2>1 DEF DiscoveryInv
<1>2. CASE SelectEntry \/ SelectDirectory
  <2>1. selected' = selected /\ stage' \in {"refused", "found"} /\ stage # "dropped"
        /\ selected.kind # "tsconfig"
    BY <1>2 DEF SelectEntry, SelectDirectory, Selectable, Accepted, Refuse
  <2> QED  BY <2>1 DEF DiscoveryInv
<1>3. CASE Forget
  <2>1. stage' = "dropped"
    BY <1>3 DEF Forget
  <2> QED  BY <2>1 DEF DiscoveryInv
<1> QED  BY <1>1, <1>2, <1>3

LEMMA BeginStep == ASSUME DiscoveryInv, SelectTsconfig PROVE DiscoveryInv'
<1>1. /\ stage = "select" /\ selected \in Selections /\ selected' = selected
      /\ selected.kind = "tsconfig" /\ Real(selected.path) \in Nodes
      /\ refStack' = <<Enter(Real(selected.path), 0)>> /\ stage' = "references"
      /\ diagnostics' = {} /\ active' = <<>> /\ visited' = {} /\ chain' = <<>>
  BY DEF SelectTsconfig, Selectable, Selection, DiscoveryInv, traversal
<1>2. WalkInv'
  <2>1. Walks(selected, <<Enter(Real(selected.path), 0)>>, <<>>, {}, FALSE)
    BY <1>1, WalksBegin
  <2>2. ~Building' /\ Walked' = <<>> /\ Built' = {} /\ Reported' = FALSE
    BY <1>1 DEF Building, Walked, Built, Reported
  <2> QED  BY <1>1, <2>1, <2>2 DEF WalkInv
<1>3. ChainInv'
  BY <1>1 DEF ChainInv
<1>4. ToldInv'
  <2>1. SaidSoFar(stage', selected', Last(active'), chain') = {} /\ Built' = {}
    BY <1>1, SaidWhere DEF Built, Building
  <2> QED  BY <1>1, <2>1 DEF ToldInv, Counted, SaidOf
<1> QED  BY <1>1, <1>2, <1>3, <1>4 DEF DiscoveryInv

(* What holds while references are followed.                                *)
LEMMA FollowingFacts ==
  ASSUME DiscoveryInv, stage = "references"
  PROVE  /\ selected \in Selections /\ selected.kind = "tsconfig" /\ chain = <<>>
         /\ Walks(selected, refStack, active, visited, Reported) /\ Reported \in BOOLEAN
         /\ Counted(diagnostics) = SaidOf(selected, visited)
<1>1. WalkInv /\ ChainInv /\ ToldInv /\ selected \in Selections /\ selected.kind = "tsconfig"
  BY DEF DiscoveryInv
<1>2. ~Building /\ Walked = active /\ Built = visited
  BY DEF Building, Walked, Built
<1>3. Reported \in BOOLEAN
  BY DEF Reported
<1>4. chain = <<>> /\ Walks(selected, refStack, active, visited, Reported)
  BY <1>1, <1>2 DEF ChainInv, WalkInv
<1>5. Counted(diagnostics) = SaidOf(selected, visited)
  <2>1. SaidSoFar(stage, selected, Last(active), chain) = {}
    BY SaidWhere
  <2> QED  BY <1>1, <1>2, <2>1 DEF ToldInv
<1> QED  BY <1>1, <1>3, <1>4, <1>5

LEMMA FollowingKept ==
  ASSUME selected' \in Selections, selected'.kind = "tsconfig", stage' = "references", chain' = <<>>,
         Walks(selected', refStack', active', visited', Reported'),
         Counted(diagnostics') = SaidOf(selected', visited')
  PROVE  DiscoveryInv'
<1>1. ~Building' /\ Walked' = active' /\ Built' = visited'
  BY DEF Building, Walked, Built
<1>2. WalkInv'
  BY <1>1 DEF WalkInv
<1>3. ChainInv'
  BY DEF ChainInv
<1>4. ToldInv'
  <2>1. SaidSoFar(stage', selected', Last(active'), chain') = {}
    BY SaidWhere
  <2> QED  BY <1>1, <2>1 DEF ToldInv
<1> QED  BY <1>2, <1>3, <1>4 DEF DiscoveryInv

LEMMA FollowingSteps ==
  ASSUME DiscoveryInv, LeaveConfig \/ ReferenceCycle \/ ReferenceVisited
  PROVE  DiscoveryInv'
<1>1. /\ stage = "references" /\ stage' = "references" /\ refStack # <<>> /\ refStack' = Tail(refStack)
      /\ selected' = selected /\ visited' = visited /\ chain' = chain
  BY DEF LeaveConfig, ReferenceCycle, ReferenceVisited, Item, traversal
<1>2. /\ selected \in Selections /\ selected.kind = "tsconfig" /\ chain = <<>>
      /\ Walks(selected, refStack, active, visited, Reported) /\ Reported \in BOOLEAN
      /\ Counted(diagnostics) = SaidOf(selected, visited)
  BY <1>1, FollowingFacts
<1>3. CASE LeaveConfig
  <2>1. Head(refStack).op = "exit" /\ active' = Front(active) /\ diagnostics' = diagnostics
    BY <1>3 DEF LeaveConfig, Item
  <2>2. Walks(selected, refStack', active', visited, Reported)
    BY <1>1, <1>2, <2>1, WalksLeave
  <2>3. Reported' = Reported
    BY <2>1 DEF Reported
  <2> QED  BY <1>1, <1>2, <2>1, <2>2, <2>3, FollowingKept
<1>4. CASE ReferenceCycle
  <2> DEFINE c == Head(refStack).config
             d == Diagnostic("reference cycle", c, c)
  <2>1. /\ Head(refStack).op = "enter" /\ c \in Range(active) /\ active' = active
        /\ diagnostics' = diagnostics \cup {d}
    BY <1>4 DEF ReferenceCycle, Item
  <2>2. Walks(selected, refStack', active', visited, TRUE)
    BY <1>1, <1>2, <2>1, WalksReport
  <2>3. d.kind = "reference cycle"
    BY KindsOfDiagnostics
  <2> HIDE DEF d
  <2>4. Reported' = TRUE
    BY <2>1, <2>3 DEF Reported
  <2>5. Counted(diagnostics') = Counted(diagnostics)
    BY <2>1, <2>3 DEF Counted
  <2> QED  BY <1>1, <1>2, <2>2, <2>4, <2>5, FollowingKept
<1>5. CASE ReferenceVisited
  <2>1. /\ Head(refStack).op = "enter" /\ Head(refStack).config \in visited \ Range(active)
        /\ active' = active /\ diagnostics' = diagnostics
    BY <1>5 DEF ReferenceVisited, Item
  <2>2. Walks(selected, refStack', active', visited, Reported)
    BY <1>1, <1>2, <2>1, WalksPass
  <2>3. Reported' = Reported
    BY <2>1 DEF Reported
  <2> QED  BY <1>1, <1>2, <2>1, <2>2, <2>3, FollowingKept
<1> QED  BY <1>3, <1>4, <1>5

(* What holds while a configuration is read, and what it needs.             *)
ReadingInv(s, A, stk, visit, rep) ==
  /\ s \in Selections /\ s.kind = "tsconfig"
  /\ A \in Seq(Nodes) /\ A # <<>> /\ Last(A) \in visit /\ Last(A) \notin Range(Front(A))
  /\ stk # <<>> /\ Head(stk).op = "enter" /\ Head(stk).config = Last(A)
  /\ Walks(s, stk, Front(A), visit \ {Last(A)}, rep)

LEMMA ReadingFacts ==
  ASSUME DiscoveryInv, Building
  PROVE  /\ ReadingInv(selected, active, refStack, visited, Reported) /\ Reported \in BOOLEAN
         /\ ChainInv
         /\ Counted(diagnostics) = SaidOf(selected, visited \ {Last(active)})
                \cup SaidSoFar(stage, selected, Last(active), chain)
<1>1. WalkInv /\ ChainInv /\ ToldInv /\ selected \in Selections /\ selected.kind = "tsconfig"
  BY DEF DiscoveryInv, Building
<1>2. Walked = Front(active) /\ Built = visited \ {Last(active)} /\ Reported \in BOOLEAN
  BY DEF Walked, Built, Reported
<1> QED  BY <1>1, <1>2 DEF ReadingInv, WalkInv, ToldInv

LEMMA ReadingKept ==
  ASSUME stage' \in {"open", "merge"}, ReadingInv(selected', active', refStack', visited', Reported'),
         ChainInv',
         Counted(diagnostics') = SaidOf(selected', visited' \ {Last(active')})
             \cup SaidSoFar(stage', selected', Last(active'), chain')
  PROVE  DiscoveryInv'
<1>1. Building' /\ Walked' = Front(active') /\ Built' = visited' \ {Last(active')}
  BY DEF Building, Walked, Built
<1>2. WalkInv'
  BY <1>1 DEF WalkInv, ReadingInv
<1>3. ToldInv'
  BY <1>1 DEF ToldInv
<1>4. selected' \in Selections /\ selected'.kind = "tsconfig"
  BY DEF ReadingInv
<1> QED  BY <1>2, <1>3, <1>4 DEF DiscoveryInv

LEMMA EnterStep == ASSUME DiscoveryInv, EnterConfig PROVE DiscoveryInv'
<1> DEFINE c == Head(refStack).config
<1>1. /\ stage = "references" /\ refStack # <<>> /\ Head(refStack).op = "enter"
      /\ c \notin visited \cup Range(active)
      /\ visited' = visited \cup {c} /\ active' = Append(active, c) /\ stage' = "open"
      /\ opening' = c /\ selected' = selected /\ refStack' = refStack /\ chain' = chain
      /\ diagnostics' = diagnostics
  BY DEF EnterConfig
<1>2. /\ selected \in Selections /\ selected.kind = "tsconfig" /\ chain = <<>>
      /\ Walks(selected, refStack, active, visited, Reported) /\ Reported \in BOOLEAN
      /\ Counted(diagnostics) = SaidOf(selected, visited)
  BY <1>1, FollowingFacts
<1>3. active \in Seq(Nodes) /\ Layered(selected, refStack, active)
  BY <1>2 DEF Walks, IsPath
<1>4. c \in Nodes
  BY <1>1, <1>3, EnterOnTop
<1> HIDE DEF c
<1>5. active' # <<>> /\ active' \in Seq(Nodes) /\ Last(active') = c /\ Front(active') = active
  <2>1. /\ active' \in Seq(Nodes) /\ Len(active') = Len(active) + 1 /\ Len(active) \in Nat
        /\ \A i \in 1 .. Len(active) : active'[i] = active[i]
        /\ active'[Len(active) + 1] = c
    BY <1>1, <1>3, <1>4, AppendOf
  <2>2. active' # <<>> /\ Last(active') = c
    BY <2>1 DEF Last
  <2>3. /\ Front(active') \in Seq(Nodes) /\ Len(Front(active')) = Len(active') - 1
        /\ \A i \in 1 .. Len(active') - 1 : Front(active')[i] = active'[i]
    BY <2>1, <2>2, FrontOf
  <2>4. Len(Front(active')) = Len(active) /\ \A i \in 1 .. Len(active) : Front(active')[i] = active[i]
    BY <2>1, <2>3
  <2>5. Front(active') = active
    BY <1>3, <2>3, <2>4
  <2> QED  BY <2>1, <2>2, <2>5
<1>6. visited' \ {c} = visited
  BY <1>1 DEF c
<1>7. Reported' = Reported
  BY <1>1 DEF Reported
<1>8. ReadingInv(selected', active', refStack', visited', Reported')
  BY <1>1, <1>2, <1>5, <1>6, <1>7 DEF ReadingInv, c
<1>9. ChainInv'
  <2>1. Append(<<>>, c) = <<c>> /\ <<c>> # <<>> /\ Len(<<c>>) = 1 /\ <<c>>[1] = c
        /\ DOMAIN <<c>> = {1} /\ <<>> \in Seq(Nodes)
    OBVIOUS
  <2>2. Extending(selected, c, <<c>>)
    BY <2>1 DEF Extending, Distinct
  <2>3. DOMAIN <<>> = {}
    OBVIOUS
  <2> QED  BY <1>1, <1>2, <1>4, <1>5, <2>1, <2>2, <2>3 DEF ChainInv, c
<1>10. FilesDiagnostics(selected, <<>>) = {}
  BY RangeOfEmpty DEF FilesDiagnostics
<1>11. SaidSoFar(stage', selected', Last(active'), chain') = {}
  BY <1>1, <1>2, <1>10, SaidWhere
<1>12. Counted(diagnostics') = SaidOf(selected', visited' \ {Last(active')})
           \cup SaidSoFar(stage', selected', Last(active'), chain')
  BY <1>1, <1>2, <1>5, <1>6, <1>11
<1> QED  BY <1>1, <1>8, <1>9, <1>12, ReadingKept

(* A file that was opened is a configuration.                               *)
LEMMA OpenedIsReadable ==
  ASSUME ~SomeOf(OpenFailure), chain \in Seq(Nodes)
  PROVE  Readable(selected, opening)
<1>1. Len(chain) \in Nat /\ MaxDepth \in Nat
  BY ConfigsAssumption
<1>2. TextOf(selected, opening) # Garbage
  <2> SUFFICES ASSUME TextOf(selected, opening) = Garbage PROVE SomeOf(OpenFailure)
    OBVIOUS
  <2>1. CASE expired
    BY <2>1 DEF OpenFailure, SomeOf
  <2>2. CASE ~expired /\ Len(chain) >= MaxDepth
    <3>1. ~(Len(chain) < MaxDepth)
      BY <1>1, <2>2
    <3> QED  BY <2>2, <3>1 DEF OpenFailure, SomeOf
  <2>3. CASE ~expired /\ Len(chain) < MaxDepth
    <3>1. ~(Len(chain) >= MaxDepth)
      BY <1>1, <2>3
    <3> QED  BY <2>3, <3>1 DEF OpenFailure, SomeOf
  <2> QED  BY <1>1, <2>1, <2>2, <2>3
<1> QED  BY <1>2 DEF Readable, TextOf

LEMMA OpenStep == ASSUME DiscoveryInv, OpenConfig PROVE DiscoveryInv'
<1> DEFINE s == selected
           c == Last(active)
           line == Append(chain, opening)
           target == ExtendsTarget(s, opening)
           cyclic == SomeOf(target) /\ target[1] \in Range(line)
           cut == IF cyclic THEN {Diagnostic("extends cycle", opening, target[1])} ELSE {}
           before == SaidOf(s, visited \ {c})
           of(q) == FilesDiagnostics(s, q)
<1>1. /\ stage = "open" /\ ~SomeOf(OpenFailure) /\ chain' = line
      /\ diagnostics' = diagnostics \cup FileDiagnostics(s, opening) \cup cut
      /\ selected' = s /\ refStack' = refStack /\ active' = active /\ visited' = visited
  BY DEF OpenConfig, FileDiagnostics, walker
<1>2. \/ /\ SomeOf(target) /\ ~cyclic /\ opening' = target[1] /\ stage' = "open"
      \/ (~SomeOf(target) \/ cyclic) /\ stage' = "merge"
  BY <1>1 DEF OpenConfig
<1>3. /\ ReadingInv(s, active, refStack, visited, Reported) /\ Reported \in BOOLEAN
      /\ ChainInv /\ Building
      /\ Counted(diagnostics) = before \cup of(chain)
  <2>1. Building
    BY <1>1 DEF Building
  <2>2. SaidSoFar(stage, s, c, chain) = of(chain)
    BY <1>1, SaidWhere
  <2> HIDE DEF of
  <2> QED  BY <2>1, <2>2, ReadingFacts
<1>4. /\ chain \in Seq(Nodes) /\ opening \in Nodes /\ Extending(s, c, line)
      /\ \A i \in DOMAIN chain : Readable(s, chain[i])
  BY <1>1, <1>3 DEF ChainInv
<1>5. Readable(s, opening)
  BY <1>1, <1>4, OpenedIsReadable
<1>6. /\ line \in Seq(Nodes) /\ Len(line) = Len(chain) + 1 /\ Len(chain) \in Nat
      /\ \A i \in 1 .. Len(chain) : line[i] = chain[i]
      /\ line[Len(chain) + 1] = opening
  BY <1>4, AppendOf
<1>7. Range(line) = Range(chain) \cup {opening}
  BY <1>4, RangeOfAppend
<1> HIDE DEF line
<1>8. /\ \A i \in DOMAIN line : Readable(s, line[i])
      /\ Last(line) = opening /\ line # <<>> /\ line[1] = c
      /\ Range(line) \subseteq DOMAIN s.configs
  <2>1. DOMAIN line = 1 .. Len(line) /\ DOMAIN chain = 1 .. Len(chain)
    BY <1>4, <1>6, PlacesOf
  <2>2. ASSUME NEW i \in DOMAIN line PROVE Readable(s, line[i])
    <3>1. CASE i = Len(chain) + 1
      BY <1>5, <1>6, <3>1
    <3>2. CASE i # Len(chain) + 1
      <4>1. i \in DOMAIN chain /\ i \in 1 .. Len(chain)
        BY <1>6, <2>1, <3>2
      <4> QED  BY <1>4, <1>6, <4>1
    <3> QED  BY <3>1, <3>2
  <2>3. Last(line) = opening /\ line # <<>> /\ line[1] = c
    BY <1>4, <1>6 DEF Last, Extending
  <2>4. Range(line) \subseteq DOMAIN s.configs
    BY <1>6, <2>1, <2>2, PlacesOf DEF Readable
  <2> QED  BY <2>2, <2>3, <2>4
<1>9. SomeOf(target) => target[1] \in Nodes /\ target = <<target[1]>>
  BY TargetOfExtends
<1> HIDE DEF target
<1>10. Counted(diagnostics') = before \cup of(line) \cup cut
  <2>1. \A d \in FileDiagnostics(s, opening) : d.kind \notin {"reference cycle", "pattern"}
    BY KindsOfDiagnostics
  <2>2. \A d \in cut : d.kind \notin {"reference cycle", "pattern"}
    BY KindsOfDiagnostics
  <2>3. of(line) = of(chain) \cup FileDiagnostics(s, opening)
    BY <1>7 DEF FilesDiagnostics
  <2> HIDE DEF cut, before, of
  <2>4. Counted(FileDiagnostics(s, opening)) = FileDiagnostics(s, opening) /\ Counted(cut) = cut
    BY <2>1, <2>2, CountedAdds
  <2>5. Counted(diagnostics \cup FileDiagnostics(s, opening))
          = Counted(diagnostics) \cup Counted(FileDiagnostics(s, opening))
    BY CountedAdds
  <2>6. Counted((diagnostics \cup FileDiagnostics(s, opening)) \cup cut)
          = Counted(diagnostics \cup FileDiagnostics(s, opening)) \cup Counted(cut)
    BY CountedAdds
  <2> QED  BY <1>1, <1>3, <2>3, <2>4, <2>5, <2>6
<1>11. Reported' = Reported
  <2>1. \A d \in FileDiagnostics(s, opening) \cup cut : d.kind # "reference cycle"
    BY KindsOfDiagnostics
  <2> HIDE DEF cut
  <2> QED  BY <1>1, <2>1 DEF Reported
<1>12. ReadingInv(selected', active', refStack', visited', Reported')
  BY <1>1, <1>3, <1>11
<1> HIDE DEF s, c, before, of, cyclic
<1>13. CASE SomeOf(target) /\ ~cyclic /\ opening' = target[1] /\ stage' = "open"
  <2>1. Extending(s, c, Append(line, target[1]))
    <3>1. ExtendsTarget(s, Last(line)) = <<target[1]>>
      BY <1>8, <1>9, <1>13 DEF target
    <3>2. target[1] \notin Range(line)
      BY <1>13 DEF cyclic
    <3> QED  BY <1>4, <1>6, <1>9, <1>13, <3>1, <3>2, ExtendingMore
  <2>2. ChainInv'
    BY <1>1, <1>6, <1>8, <1>9, <1>13, <2>1 DEF ChainInv, s, c
  <2>3. cut = {}
    BY <1>13
  <2>4. Counted(diagnostics') = before \cup of(line)
    BY <1>10, <2>3
  <2> HIDE DEF cut
  <2>5. SaidSoFar(stage', s, c, line) = of(line)
    BY <1>13, SaidWhere DEF of
  <2>6. Counted(diagnostics') = before \cup SaidSoFar(stage', s, c, line)
    BY <2>4, <2>5
  <2> QED  BY <1>1, <1>12, <1>13, <2>2, <2>6, ReadingKept DEF before, s, c
<1>14. CASE (~SomeOf(target) \/ cyclic) /\ stage' = "merge"
  <2>1. Lineage(s, c) = line
    <3>1. IsFiniteSet(DOMAIN s.configs)
      BY <1>3, ConfigsAssumption DEF ReadingInv
    <3>2. ~SomeOf(ExtendsTarget(s, Last(line))) \/ ExtendsTarget(s, Last(line))[1] \in Range(line)
      BY <1>8, <1>14 DEF target, cyclic
    <3> QED  BY <1>4, <1>6, <1>8, <3>1, <3>2, LineageIs
  <2>2. Said(s, c) = of(line) \cup cut
    <3>1. CutDiagnostics(s, opening) = cut
      <4>1. CASE ~SomeOf(target)
        BY <4>1, RangeOfEmpty DEF SomeOf, cyclic, CutDiagnostics, target
      <4>2. CASE SomeOf(target)
        <5>1. Range(target) = {target[1]}
          <6>1. \A x : Range(<<x>>) = {x}
            BY DEF Range
          <6> QED  BY <1>9, <4>2, <6>1
        <5> QED  BY <1>14, <4>2, <5>1 DEF CutDiagnostics, target
      <4> QED  BY <4>1, <4>2
    <3> QED  BY <1>8, <2>1, <3>1 DEF Said, of
  <2>3. ChainInv'
    BY <1>1, <1>6, <1>8, <1>14 DEF ChainInv, s, c
  <2>4. Counted(diagnostics') = before \cup Said(s, c)
    BY <1>10, <2>2
  <2> HIDE DEF cut
  <2>5. SaidSoFar(stage', s, c, line) = Said(s, c)
    BY <1>14, SaidWhere
  <2>6. Counted(diagnostics') = before \cup SaidSoFar(stage', s, c, line)
    BY <2>4, <2>5
  <2> QED  BY <1>1, <1>12, <1>14, <2>3, <2>6, ReadingKept DEF before, s, c
<1> QED  BY <1>2, <1>13, <1>14

LEMMA MergeStep == ASSUME DiscoveryInv, MergeConfig PROVE DiscoveryInv'
<1>1. /\ stage = "merge" /\ Len(chain) > 1 /\ chain' = Front(chain)
      /\ stage' = "merge" /\ diagnostics' = diagnostics
      /\ selected' = selected /\ refStack' = refStack /\ active' = active /\ visited' = visited
  BY DEF MergeConfig, walker
<1>2. /\ ReadingInv(selected, active, refStack, visited, Reported) /\ ChainInv
      /\ Counted(diagnostics) = SaidOf(selected, visited \ {Last(active)})
                                  \cup SaidSoFar(stage, selected, Last(active), chain)
  <2>1. Building
    BY <1>1 DEF Building
  <2> QED  BY <2>1, ReadingFacts
<1>3. /\ chain \in Seq(Nodes) /\ chain # <<>> /\ chain[1] = Last(active)
      /\ \A i \in DOMAIN chain : Readable(selected, chain[i])
  BY <1>1, <1>2 DEF ChainInv
<1>4. /\ Front(chain) \in Seq(Nodes) /\ Len(Front(chain)) = Len(chain) - 1
      /\ \A i \in 1 .. Len(chain) - 1 : Front(chain)[i] = chain[i]
  BY <1>3, FrontOf
<1>5. Front(chain) # <<>> /\ Front(chain)[1] = chain[1]
  BY <1>1, <1>3, <1>4
<1>6. \A i \in DOMAIN Front(chain) : Readable(selected, Front(chain)[i])
  <2>1. DOMAIN Front(chain) = 1 .. Len(chain) - 1 /\ DOMAIN chain = 1 .. Len(chain)
        /\ Len(chain) \in Nat
    BY <1>3, <1>4, PlacesOf
  <2>2. \A i \in 1 .. Len(chain) - 1 : i \in DOMAIN chain
    BY <2>1
  <2> QED  BY <1>3, <1>4, <2>1, <2>2
<1>7. ChainInv'
  BY <1>1, <1>3, <1>4, <1>5, <1>6 DEF ChainInv
<1>8. SaidSoFar(stage', selected', Last(active'), chain')
        = SaidSoFar(stage, selected, Last(active), chain)
  BY <1>1, SaidWhere
<1>9. Reported' = Reported
  BY <1>1 DEF Reported
<1> QED  BY <1>1, <1>2, <1>7, <1>8, <1>9, ReadingKept

LEMMA SaidOfOneMore ==
  ASSUME NEW s, NEW C, NEW c \in C
  PROVE  SaidOf(s, C) = SaidOf(s, C \ {c}) \cup Said(s, c) \cup ReferenceDiagnostics(s, c)
BY DEF SaidOf

LEMMA InSaidOf ==
  ASSUME NEW s, NEW C, NEW c \in C, NEW d, d \in Said(s, c) \/ d \in ReferenceDiagnostics(s, c)
  PROVE  d \in SaidOf(s, C)
BY DEF SaidOf

LEMMA BuiltStep == ASSUME DiscoveryInv, BuiltConfig PROVE DiscoveryInv'
<1> DEFINE s == selected
           c == chain[1]
           leads == ReferenceTargets(s, c)
<1>1. PICK selection :
        /\ stage = "merge" /\ Len(chain) = 1
        /\ diagnostics' = diagnostics \cup PatternDiagnostics(c, selection)
                            \cup ReferenceDiagnostics(s, c)
        /\ refStack' = Pushed(refStack, leads, Head(refStack).depth + 1)
        /\ chain' = <<>> /\ stage' = "references"
        /\ selected' = s /\ active' = active /\ visited' = visited
  BY DEF BuiltConfig, Pushed
<1>2. /\ ReadingInv(s, active, refStack, visited, Reported) /\ ChainInv /\ Reported \in BOOLEAN
      /\ Counted(diagnostics) = SaidOf(s, visited \ {Last(active)})
                                  \cup SaidSoFar(stage, s, Last(active), chain)
  <2>1. Building
    BY <1>1 DEF Building
  <2> QED  BY <2>1, ReadingFacts
<1>3. c = Last(active) /\ Readable(s, c)
  <2>1. chain \in Seq(Nodes) /\ 1 \in 1 .. Len(chain)
    BY <1>1, <1>2 DEF ChainInv
  <2>2. 1 \in DOMAIN chain
    BY <2>1, PlacesOf
  <2> QED  BY <1>1, <1>2, <2>2 DEF ChainInv
<1>4. leads \in Seq(Nodes)
  BY <1>2, <1>3, ReferencesAreListed DEF ReadingInv
<1> HIDE DEF c
<1>5. /\ active \in Seq(Nodes) /\ active # <<>> /\ c \in visited
      /\ s \in Selections /\ s.kind = "tsconfig"
      /\ refStack # <<>> /\ Head(refStack).op = "enter" /\ Head(refStack).config = c
      /\ Walks(s, refStack, Front(active), visited \ {c}, Reported)
  BY <1>2, <1>3 DEF ReadingInv
<1>6. Walks(s, refStack', Append(Front(active), c), (visited \ {c}) \cup {c}, Reported)
  <2>1. c \notin visited \ {c} /\ c \in DOMAIN s.configs /\ Refs(s, c) = Range(leads)
    BY <1>3 DEF Readable, Refs
  <2> DEFINE V == visited \ {c}
  <2>3. Walks(s, refStack, Front(active), V, Reported) /\ c \notin V
    BY <1>5, <2>1
  <2> DEFINE A == Front(active)
             rep == Reported
             depth == Head(refStack).depth + 1
  <2>4. Walks(s, refStack, A, V, rep) /\ rep \in BOOLEAN
    BY <1>2, <2>3
  <2>5. c = Head(refStack).config
    BY <1>5
  <2>6. Enters(s, refStack, A, V, rep, c, leads, depth)
    BY <1>4, <1>5, <2>1, <2>3, <2>4, <2>5 DEF Enters, depth
  <2> HIDE DEF V, leads, s, A, rep, depth
  <2>2. Walks(s, Pushed(refStack, leads, depth), Append(A, c), V \cup {c}, rep)
    BY <2>6, WalksEnter, Zenon
  <2> QED  BY <1>1, <2>2 DEF V, A, rep, depth
<1>7. Append(Front(active), c) = active /\ (visited \ {c}) \cup {c} = visited
  <2>1. /\ Front(active) \in Seq(Nodes) /\ Len(Front(active)) = Len(active) - 1
        /\ Len(active) \in Nat \ {0}
        /\ \A i \in 1 .. Len(active) - 1 : Front(active)[i] = active[i]
        /\ c = active[Len(active)] /\ c \in Nodes
    BY <1>3, <1>5, FrontOf
  <2> DEFINE q == Append(Front(active), c)
  <2>2. /\ q \in Seq(Nodes) /\ Len(q) = Len(Front(active)) + 1
        /\ \A i \in 1 .. Len(Front(active)) : q[i] = Front(active)[i]
        /\ q[Len(Front(active)) + 1] = c
    BY <2>1, AppendOf
  <2> HIDE DEF q
  <2>3. Len(q) = Len(active) /\ \A i \in 1 .. Len(active) : q[i] = active[i]
    BY <2>1, <2>2
  <2>4. q = active
    BY <1>5, <2>2, <2>3
  <2> QED  BY <1>5, <2>4 DEF q
<1>8. Reported' = Reported
  <2>1. \A d \in PatternDiagnostics(c, selection) \cup ReferenceDiagnostics(s, c) :
          d.kind # "reference cycle"
    BY KindsOfDiagnostics
  <2> QED  BY <1>1, <2>1 DEF Reported
<1>9. Counted(diagnostics') = SaidOf(s, visited)
  <2> DEFINE P == PatternDiagnostics(c, selection)
             Q == ReferenceDiagnostics(s, c)
  <2>1. (\A d \in P : d.kind = "pattern") /\ \A d \in Q : d.kind \notin {"reference cycle", "pattern"}
    BY KindsOfDiagnostics
  <2>2. diagnostics' = (diagnostics \cup P) \cup Q
    BY <1>1
  <2> HIDE DEF P, Q
  <2>3. Counted(P) = {} /\ Counted(Q) = Q
    BY <2>1, CountedAdds
  <2>4. Counted(diagnostics \cup P) = Counted(diagnostics) \cup Counted(P)
    BY CountedAdds
  <2>5. Counted((diagnostics \cup P) \cup Q) = Counted(diagnostics \cup P) \cup Counted(Q)
    BY CountedAdds
  <2>6. SaidSoFar(stage, s, c, chain) = Said(s, c)
    BY <1>1, SaidWhere
  <2>8. c \in visited
    BY <1>5
  <2>7. SaidOf(s, visited) = SaidOf(s, visited \ {c}) \cup Said(s, c) \cup Q
    <3> HIDE DEF s
    <3> QED  BY <2>8, SaidOfOneMore, Zenon DEF Q
  <2> QED  BY <1>2, <1>3, <2>2, <2>3, <2>4, <2>5, <2>6, <2>7
<1> QED  BY <1>1, <1>5, <1>6, <1>7, <1>8, <1>9, FollowingKept

(* The walk is over; files are selected.                                    *)
LEMMA SourceSteps ==
  ASSUME DiscoveryInv, GraphWalked \/ SelectFiles \/ SelectPatterns \/ SourcesSelected
  PROVE  DiscoveryInv'
<1>1. /\ stage \in {"references", "sources"} /\ stage' \in {"sources", "found", "refused"}
      /\ stage = "references" => refStack = <<>>
      /\ selected' = selected /\ UNCHANGED <<refStack, active, visited, chain, diagnostics>>
  BY DEF GraphWalked, SelectFiles, SelectPatterns, SourcesSelected, Accepted, Refuse, walker, traversal
<1>2. selected' \in Selections
  BY <1>1 DEF DiscoveryInv
<1>3. ASSUME stage' \in {"sources", "found"}, selected.kind = "tsconfig"
      PROVE  WalkInv' /\ ChainInv' /\ ToldInv'
  <2>1. WalkInv /\ ChainInv /\ ToldInv
    BY <1>1, <1>3 DEF DiscoveryInv
  <2>2. /\ ~Building /\ ~Building' /\ Walked' = Walked /\ Built' = Built /\ Reported' = Reported
        /\ stage \notin {"open", "merge"} /\ stage' \notin {"open", "merge"}
    BY <1>1, <1>3 DEF Building, Walked, Built, Reported
  <2>3. refStack = <<>>
    BY <1>1, <2>1 DEF WalkInv
  <2>4. WalkInv'
    BY <1>1, <2>1, <2>2, <2>3 DEF WalkInv
  <2>5. ChainInv'
    BY <1>1, <1>3, <2>1 DEF ChainInv
  <2>6. SaidSoFar(stage', selected', Last(active'), chain') = SaidSoFar(stage, selected, Last(active), chain)
    BY <2>2, SaidWhere
  <2>7. ToldInv'
    BY <1>1, <2>1, <2>2, <2>6 DEF ToldInv
  <2> QED  BY <2>4, <2>5, <2>7
<1> QED  BY <1>1, <1>2, <1>3 DEF DiscoveryInv

LEMMA DiscoveryNext == ASSUME DiscoveryInv, Discover \/ Forget PROVE DiscoveryInv'
BY SelectionSteps, BeginStep, FollowingSteps, EnterStep, OpenStep, MergeStep, BuiltStep, SourceSteps
   DEF Discover

LEMMA DiscoveryStutters == ASSUME DiscoveryInv, UNCHANGED discovery PROVE DiscoveryInv'
BY DEF DiscoveryInv, discovery, WalkInv, ChainInv, ToldInv, Building, Walked, Built, Reported,
   walker, traversal

(* What a discovery that succeeded has said.                                *)
LEMMA DiscoveryEarned == ASSUME DiscoveryInv PROVE DiagnosticsAreEarned
<1> SUFFICES ASSUME stage = "found", selected.kind = "tsconfig" PROVE DiagnosticsAreEarned
  BY DEF DiagnosticsAreEarned
<1> DEFINE s == selected
           lines == UNION {Range(Lineage(s, c)) : c \in Reached(s)}
           ends == {Last(Lineage(s, c)) : c \in Reached(s)}
           cuts == {Diagnostic("extends cycle", c, ExtendsTarget(s, c)[1]) :
                      c \in {e \in ends : SomeOf(ExtendsTarget(s, e))}}
           files == UNION {FieldDiagnostics(s, c) \cup ExtendsDiagnostics(s, c) : c \in lines}
           refs == UNION {ReferenceDiagnostics(s, c) : c \in Reached(s)}
<1>1. WalkInv /\ ToldInv /\ s \in Selections
  BY DEF DiscoveryInv
<1>2. /\ Walks(s, <<>>, active, visited, Reported) /\ Reported \in BOOLEAN
      /\ Counted(diagnostics) = SaidOf(s, visited)
  <2>1. ~Building /\ Walked = active /\ Built = visited /\ Reported \in BOOLEAN
    BY DEF Building, Walked, Built, Reported
  <2>2. refStack = <<>> /\ SaidSoFar(stage, s, Last(active), chain) = {}
    BY <1>1, SaidWhere DEF WalkInv
  <2> QED  BY <1>1, <2>1, <2>2 DEF WalkInv, ToldInv
<1>3. Reached(s) = visited /\ (Reported <=> \E c \in visited : OnReferenceCycle(s, c))
  <2>1. IsFiniteSet(DOMAIN s.configs)
    BY <1>1, ConfigsAssumption
  <2> QED  BY <1>2, <2>1, WalkIsExact
<1>4. \A c : CutDiagnostics(s, c) = IF SomeOf(ExtendsTarget(s, c))
                                      THEN {Diagnostic("extends cycle", c, ExtendsTarget(s, c)[1])} ELSE {}
  <2> TAKE c
  <2>1. CASE ~SomeOf(ExtendsTarget(s, c))
    BY <2>1, RangeOfEmpty DEF SomeOf, CutDiagnostics
  <2>2. CASE SomeOf(ExtendsTarget(s, c))
    <3>1. \A x : Range(<<x>>) = {x}
      BY DEF Range
    <3>2. Range(ExtendsTarget(s, c)) = {ExtendsTarget(s, c)[1]}
      BY <2>2, <3>1, TargetOfExtends
    <3> QED  BY <2>2, <3>2 DEF CutDiagnostics
  <2> QED  BY <2>1, <2>2
<1>5. SaidOf(s, visited) = cuts \cup files \cup refs
  <2>1. ASSUME NEW d \in SaidOf(s, visited) PROVE d \in cuts \cup files \cup refs
    <3>1. PICK c \in visited : d \in Said(s, c) \cup ReferenceDiagnostics(s, c)
      BY DEF SaidOf
    <3>2. CASE d \in ReferenceDiagnostics(s, c)
      BY <1>3, <3>2
    <3>3. CASE d \in FilesDiagnostics(s, Lineage(s, c))
      <4>1. PICK e \in Range(Lineage(s, c)) : d \in FileDiagnostics(s, e)
        BY <3>3 DEF FilesDiagnostics
      <4>2. e \in lines
        BY <1>3, <4>1
      <4> QED  BY <4>1, <4>2 DEF FileDiagnostics
    <3>4. CASE d \in CutDiagnostics(s, Last(Lineage(s, c)))
      <4>1. Last(Lineage(s, c)) \in ends
        BY <1>3
      <4> HIDE DEF ends
      <4> QED  BY <1>4, <3>4, <4>1
    <3> QED  BY <3>1, <3>2, <3>3, <3>4 DEF Said
  <2>2. ASSUME NEW d \in cuts PROVE d \in SaidOf(s, visited)
    <3>1. PICK e \in ends : SomeOf(ExtendsTarget(s, e))
                            /\ d = Diagnostic("extends cycle", e, ExtendsTarget(s, e)[1])
      OBVIOUS
    <3>2. PICK c \in visited : e = Last(Lineage(s, c))
      BY <1>3, <3>1
    <3>3. d \in CutDiagnostics(s, Last(Lineage(s, c)))
      BY <1>4, <3>1, <3>2
    <3>4. d \in Said(s, c)
      BY <3>3 DEF Said
    <3> HIDE DEF s
    <3> QED  BY <3>4, InSaidOf, Zenon
  <2>3. ASSUME NEW d \in files PROVE d \in SaidOf(s, visited)
    <3>1. PICK e \in lines : d \in FileDiagnostics(s, e)
      BY DEF FileDiagnostics
    <3>2. PICK c \in visited : e \in Range(Lineage(s, c))
      BY <1>3, <3>1
    <3> QED  BY <3>1, <3>2 DEF SaidOf, Said, FilesDiagnostics
  <2>4. ASSUME NEW d \in refs PROVE d \in SaidOf(s, visited)
    BY <1>3, <2>4 DEF SaidOf
  <2> HIDE DEF cuts, files, refs
  <2> QED  BY <2>1, <2>2, <2>3, <2>4
<1>6. (\E d \in diagnostics : d.kind = "reference cycle") <=> (\E c \in Reached(s) : OnReferenceCycle(s, c))
  BY <1>3 DEF Reported
<1>7. {d \in diagnostics : d.kind \notin {"reference cycle", "pattern"}} = cuts \cup files \cup refs
  BY <1>2, <1>5 DEF Counted
<1> QED  BY <1>6, <1>7, Zenon DEF DiagnosticsAreEarned

----------------------------------------------------------------------------
(* A load leaves its discovery alone but for its own steps.                *)
LEMMA DiscoveryOfALoad ==
  ASSUME [Next]_vars
  PROVE  Discover \/ Forget \/ UNCHANGED discovery
<1>1. CASE Load
  BY <1>1 DEF Load
<1>2. CASE Select
  BY <1>2 DEF Select
<1>3. CASE Discovered \/ NotDiscovered
  BY <1>3 DEF Discovered, NotDiscovered
<1>4. CASE Expire \/ FileRemoved
  BY <1>4 DEF Expire, FileRemoved
<1>5. CASE UNCHANGED vars
  BY <1>5 DEF vars
<1>6. CASE Returned
  BY <1>5, <1>6 DEF Returned
<1> QED  BY <1>1, <1>2, <1>3, <1>4, <1>5, <1>6 DEF Next

(* A discovery that succeeded has reported what it left out and nothing    *)
(* else: it reports a cycle of references exactly if they form one, and    *)
(* names every edge of "extends" it cut, every reference without a target  *)
(* and every faulty field of a file it read, whatever the configurations,  *)
(* their order and the limits.                                             *)
THEOREM LoaderDiagnosticsAreEarned == Spec => []DiagnosticsAreEarned
<1>1. Init => DiscoveryInv
  BY DiscoveryBegins DEF Init
<1>2. DiscoveryInv /\ [Next]_vars => DiscoveryInv'
  BY DiscoveryOfALoad, DiscoveryNext, DiscoveryStutters
<1>3. DiscoveryInv => DiagnosticsAreEarned
  BY DiscoveryEarned
<1> QED  BY <1>1, <1>2, <1>3, PTL DEF Spec

=============================================================================
