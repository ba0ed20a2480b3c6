--------------------------- MODULE Username_proofs ---------------------------
(***************************************************************************)
(* The cache of Username is right for any number of threads, uids and      *)
(* calls until a buffer is filled before its last name was copied.  The    *)
(* inductive invariant says where a name may already be while nothing has  *)
(* raced: right in every row, in the buffer of a thread that has not       *)
(* copied it yet, and in what a thread is about to file or to return; and  *)
(* that no two threads occupy one buffer.  It also says, raced or not,     *)
(* that a uid a thread has asked for is in the cache, or will be before it *)
(* asks again.                                                             *)
(***************************************************************************)
EXTENDS Username, TLAPS

RowsRight == \A i \in DOMAIN cache : cache[i][2] = Directory[cache[i][1]]

BufferRight ==
  \A t \in Threads : pc[t] = "copy" /\ Named(t) => static[Buffer[t]] = Directory[uid[t]]

OneEach ==
  \A s, t \in Threads : Occupies(s) /\ Occupies(t) /\ Buffer[s] = Buffer[t] => s = t

NameRight == \A t \in Threads : pc[t] \in {"write", "return"} => name[t] = Directory[uid[t]]

AllRight == RowsRight /\ BufferRight /\ OneEach /\ NameRight

AskedKept ==
  \A t \in Threads : \A u \in asked[t] :
     Cached(u) \/ (pc[t] \in {"fill", "copy", "write"} /\ uid[t] = u)

Typed ==
  /\ cache \in Seq(Uids \X Names)
  /\ \A i, j \in DOMAIN cache : cache[i][1] = cache[j][1] => i = j
  /\ pc \in [Threads -> {"idle", "read", "lookup", "fill", "copy", "write", "return"}]
  /\ uid \in [Threads -> Uids] /\ name \in [Threads -> Names]
  /\ static \in [Buffers -> Names]
  /\ calls \in [Threads -> 0..MaxCalls] /\ asked \in [Threads -> SUBSET Uids]

IInv == TypeOK /\ (raced \/ AllRight) /\ AskedKept /\ AskedOnce

ThreadStep(t) ==
  Call(t) \/ Read(t) \/ Getpwuid(t) \/ Filled(t) \/ Copy(t) \/ Write(t) \/ Return(t)
-----------------------------------------------------------------------------
\* Filing a row keeps what the cache has and adds at most the one asked for.
LEMMA KeepLemma ==
  ASSUME cache \in Seq(Uids \X Names), NEW u \in Uids, NEW n \in Names,
         \A i, j \in DOMAIN cache : cache[i][1] = cache[j][1] => i = j
  PROVE  /\ Keep(u, n) \in Seq(Uids \X Names)
         /\ \A i, j \in DOMAIN Keep(u, n) : Keep(u, n)[i][1] = Keep(u, n)[j][1] => i = j
         /\ RowsRight /\ n = Directory[u]
              => \A i \in DOMAIN Keep(u, n) : Keep(u, n)[i][2] = Directory[Keep(u, n)[i][1]]
         /\ \A v \in Uids : Cached(v) => \E i \in DOMAIN Keep(u, n) : Keep(u, n)[i][1] = v
         /\ \E i \in DOMAIN Keep(u, n) : Keep(u, n)[i][1] = u
<1>1. CASE Cached(u)
  BY <1>1 DEF Keep, Cached, Rows, RowsRight
<1>2. CASE ~Cached(u)
  <2> DEFINE row == <<u, n>>
             new == Append(cache, row)
  <2>1. Keep(u, n) = new
    BY <1>2 DEF Keep
  <2>2. row \in Uids \X Names /\ row[1] = u /\ row[2] = n
    OBVIOUS
  <2> HIDE DEF row
  <2>3. /\ new \in Seq(Uids \X Names) /\ DOMAIN new = 1..(Len(cache) + 1)
        /\ DOMAIN cache = 1..Len(cache) /\ Len(cache) \in Nat
        /\ new[Len(cache) + 1] = row
        /\ \A i \in DOMAIN cache : i \in DOMAIN new /\ new[i] = cache[i]
    BY <2>2
  <2> HIDE DEF new
  <2>4. \A i \in DOMAIN new : i \in DOMAIN cache \/ i = Len(cache) + 1
    BY <2>3
  <2>5. \A i \in DOMAIN cache : cache[i][1] # u
    BY <1>2 DEF Cached, Rows
  <2>6. Len(cache) + 1 \in DOMAIN new
    BY <2>3
  <2>7. \A i, j \in DOMAIN new : new[i][1] = new[j][1] => i = j
    BY <2>2, <2>3, <2>4, <2>5, Zenon
  <2>8. RowsRight /\ n = Directory[u] => \A i \in DOMAIN new : new[i][2] = Directory[new[i][1]]
    BY <2>2, <2>3, <2>4, Zenon DEF RowsRight
  <2>9. \A v \in Uids : Cached(v) => \E i \in DOMAIN new : new[i][1] = v
    BY <2>3 DEF Cached, Rows
  <2> QED
    BY <2>1, <2>2, <2>3, <2>6, <2>7, <2>8, <2>9
<1> QED BY <1>1, <1>2

\* The initial states satisfy the inductive invariant.
LEMMA InitIInv == Init => IInv
<1> SUFFICES ASSUME Init PROVE IInv
  OBVIOUS
<1>1. TypeOK
  <2>1. Typed
    BY UsernameAssumption DEF Init, Typed, Names, Buffers
  <2>2. raced \in BOOLEAN
    BY DEF Init
  <2> QED BY <2>1, <2>2, Zenon DEF Typed, TypeOK
<1>2. AllRight /\ AskedKept /\ AskedOnce
  BY DEF Init, AllRight, RowsRight, BufferRight, OneEach, Occupies, NameRight, AskedKept, AskedOnce
<1> QED BY <1>1, <1>2 DEF IInv

\* Every step of a thread keeps the inductive invariant.
Keeps == TypeOK' /\ (raced' \/ AllRight') /\ AskedKept' /\ AskedOnce'

LEMMA StepIInv == ASSUME IInv, NEW t \in Threads, ThreadStep(t) PROVE Keeps
<1> USE DEF IInv
<1>0. /\ \A u \in Uids : Directory[u] \in Names
      /\ \A s \in Threads : Buffer[s] \in Buffers
      /\ NoName \in Names /\ Torn \in Names
  BY DEF Names, Buffers
<1>1. CASE Call(t)
  <2>1. TypeOK'
    BY <1>1, UsernameAssumption DEF Call, TypeOK
  <2>2. raced' \/ AllRight'
    BY <1>1 DEF Call, TypeOK, AllRight, RowsRight, BufferRight, OneEach, Occupies, Named, NameRight
  <2>3. AskedKept' /\ AskedOnce'
    BY <1>1 DEF Call, TypeOK, AskedKept, AskedOnce, Cached, Rows
  <2> QED BY <2>1, <2>2, <2>3 DEF Keeps
<1>2. CASE Read(t)
  <2>1. CASE Cached(uid[t])
    <3>1. PICK i \in DOMAIN cache : cache[i][1] = uid[t] /\ name' = [name EXCEPT ![t] = cache[i][2]]
      BY <1>2, <2>1 DEF Read, Rows
    <3>2. raced \/ cache[i][2] = Directory[uid[t]]
      BY <3>1 DEF AllRight, RowsRight
    <3>3. cache[i][2] \in Names
      BY DEF TypeOK
    <3>4. pc' = [pc EXCEPT ![t] = "return"] /\ UNCHANGED <<cache, uid, static, calls, asked, raced>>
      BY <1>2, <2>1 DEF Read
    <3>5. TypeOK'
      BY <3>1, <3>3, <3>4 DEF TypeOK
    <3>6. raced' \/ AllRight'
      BY <3>1, <3>2, <3>4
      DEF TypeOK, AllRight, RowsRight, BufferRight, OneEach, Occupies, Named, NameRight
    <3>7. AskedKept' /\ AskedOnce'
      BY <1>2, <3>4 DEF Read, TypeOK, AskedKept, AskedOnce, Cached, Rows
    <3> QED BY <3>5, <3>6, <3>7 DEF Keeps
  <2>2. CASE ~Cached(uid[t])
    <3>1. /\ pc[t] = "read" /\ pc' = [pc EXCEPT ![t] = "lookup"]
          /\ UNCHANGED <<cache, uid, name, static, calls, asked, raced>>
      BY <1>2, <2>2 DEF Read
    <3>2. uid[t] \notin asked[t]
      BY <2>2, <3>1 DEF AskedKept
    <3>3. TypeOK' /\ AskedKept' /\ AskedOnce'
      BY <3>1, <3>2 DEF TypeOK, AskedKept, AskedOnce, Cached, Rows
    <3>4. raced' \/ AllRight'
      BY <3>1 DEF TypeOK, AllRight, RowsRight, BufferRight, OneEach, Occupies, Named, NameRight
    <3> QED BY <3>3, <3>4 DEF Keeps
  <2> QED BY <2>1, <2>2
<1>3. CASE Getpwuid(t)
  <2>1. TypeOK'
    <3>1. Typed'
      <4>1. /\ static' = IF Named(t) THEN [static EXCEPT ![Buffer[t]] = Torn] ELSE static
            /\ asked' = [asked EXCEPT ![t] = @ \cup {uid[t]}]
            /\ pc' = [pc EXCEPT ![t] = "fill"] /\ UNCHANGED <<cache, uid, name, calls>>
        BY <1>3, Zenon DEF Getpwuid
      <4>2. Typed
        BY Zenon DEF TypeOK, Typed
      <4> QED BY <1>0, <4>1, <4>2 DEF Typed
    <3>2. raced' \in BOOLEAN
      BY <1>3, Zenon DEF Getpwuid, TypeOK
    <3> QED BY <3>1, <3>2, Zenon DEF Typed, TypeOK
  <2>2. AskedKept' /\ AskedOnce'
    BY <1>3 DEF Getpwuid, TypeOK, AskedKept, AskedOnce, Cached, Rows
  <2>3. raced' \/ AllRight'
    <3> SUFFICES ASSUME ~raced' PROVE AllRight'
      OBVIOUS
    <3>1. /\ pc[t] = "lookup" /\ pc' = [pc EXCEPT ![t] = "fill"] /\ UNCHANGED <<cache, uid, name>>
      BY <1>3 DEF Getpwuid
    <3>2. AllRight
      BY <1>3 DEF Getpwuid
    <3>3. \A s \in Threads : s # t => (Occupies(s)' <=> Occupies(s)) /\ pc'[s] = pc[s]
      BY <3>1 DEF TypeOK, Occupies, Named
    <3>4. \A s \in Threads : Named(s)' <=> Named(s)
      BY <3>1 DEF Named
    <3>5. CASE Named(t)
      <4>1. /\ static' = [static EXCEPT ![Buffer[t]] = Torn]
            /\ \A s \in Threads \ {t} : ~(Occupies(s) /\ Buffer[s] = Buffer[t])
        BY <1>3, <3>5 DEF Getpwuid
      <4>2. OneEach'
        BY <3>2, <3>3, <4>1 DEF AllRight, OneEach
      <4>3. BufferRight'
        <5> SUFFICES ASSUME NEW s \in Threads, pc'[s] = "copy", Named(s)'
                     PROVE  static'[Buffer[s]] = Directory[uid'[s]]
          BY DEF BufferRight
        <5>1. s # t
          BY <3>1 DEF TypeOK
        <5>2. pc[s] = "copy" /\ Named(s)
          BY <3>3, <3>4, <5>1
        <5>3. Buffer[s] # Buffer[t]
          BY <4>1, <5>1, <5>2 DEF Occupies
        <5> QED
          BY <1>0, <3>1, <3>2, <4>1, <5>2, <5>3 DEF AllRight, BufferRight, TypeOK
      <4>4. RowsRight' /\ NameRight'
        BY <3>1, <3>2 DEF TypeOK, AllRight, RowsRight, NameRight
      <4> QED BY <4>2, <4>3, <4>4 DEF AllRight
    <3>6. CASE ~Named(t)
      <4>1. static' = static
        BY <1>3, <3>6 DEF Getpwuid
      <4>2. OneEach'
        BY <3>2, <3>3, <3>4, <3>6 DEF AllRight, OneEach, Occupies
      <4>3. BufferRight' /\ RowsRight' /\ NameRight'
        BY <3>1, <3>2, <4>1 DEF TypeOK, AllRight, BufferRight, RowsRight, NameRight, Named
      <4> QED BY <4>2, <4>3 DEF AllRight
    <3> QED BY <3>5, <3>6
  <2> QED BY <2>1, <2>2, <2>3 DEF Keeps
<1>4. CASE Filled(t)
  <2>1. /\ pc[t] = "fill" /\ pc' = [pc EXCEPT ![t] = "copy"]
        /\ UNCHANGED <<cache, uid, name, calls, asked, raced>>
        /\ Named(t) => static' = [static EXCEPT ![Buffer[t]] = Directory[uid[t]]]
        /\ ~Named(t) => static' = static
    BY <1>4 DEF Filled
  <2>2. TypeOK'
    BY <1>0, <2>1 DEF TypeOK
  <2>3. AskedKept' /\ AskedOnce'
    BY <2>1 DEF TypeOK, AskedKept, AskedOnce, Cached, Rows
  <2>4. ASSUME AllRight PROVE AllRight'
    <3>1. RowsRight' /\ NameRight' /\ OneEach'
      BY <2>1, <2>4 DEF TypeOK, AllRight, RowsRight, NameRight, OneEach, Occupies, Named
    <3>2. BufferRight'
      <4> SUFFICES ASSUME NEW s \in Threads, pc'[s] = "copy", Named(s)'
                   PROVE  static'[Buffer[s]] = Directory[uid[s]]
        BY <2>1 DEF BufferRight
      <4>1. Named(s)
        BY <2>1 DEF Named
      <4>2. CASE s = t
        BY <1>0, <2>1, <4>1, <4>2 DEF TypeOK
      <4>3. CASE s # t
        <5>1. pc[s] = "copy" /\ static[Buffer[s]] = Directory[uid[s]]
          BY <2>1, <2>4, <4>1, <4>3 DEF TypeOK, AllRight, BufferRight
        <5>2. Named(t) => Buffer[s] # Buffer[t]
          BY <2>1, <2>4, <4>1, <4>3, <5>1 DEF AllRight, OneEach, Occupies
        <5> QED BY <1>0, <2>1, <5>1, <5>2 DEF TypeOK
      <4> QED BY <4>2, <4>3
    <3> QED BY <3>1, <3>2 DEF AllRight
  <2> QED BY <2>1, <2>2, <2>3, <2>4 DEF Keeps
<1>5. CASE Copy(t)
  <2>1. /\ pc[t] = "copy" /\ pc' = [pc EXCEPT ![t] = "write"]
        /\ name' = [name EXCEPT ![t] = IF Named(t) THEN static[Buffer[t]] ELSE NoName]
        /\ UNCHANGED <<cache, uid, static, calls, asked, raced>>
    BY <1>5 DEF Copy
  <2>2. TypeOK'
    BY <1>0, <2>1 DEF TypeOK
  <2>3. AskedKept' /\ AskedOnce'
    BY <2>1 DEF TypeOK, AskedKept, AskedOnce, Cached, Rows
  <2>4. ASSUME AllRight PROVE AllRight'
    BY <2>1, <2>4 DEF TypeOK, AllRight, RowsRight, BufferRight, NameRight, OneEach, Occupies, Named
  <2> QED BY <2>1, <2>2, <2>3, <2>4 DEF Keeps
<1>6. CASE Write(t)
  <2>1. /\ uid[t] \in Uids /\ name[t] \in Names
        /\ cache' = Keep(uid[t], name[t])
        /\ pc[t] = "write" /\ pc' = [pc EXCEPT ![t] = "return"]
        /\ UNCHANGED <<uid, name, static, calls, asked, raced>>
    BY <1>6 DEF Write, TypeOK
  <2>2. /\ cache' \in Seq(Uids \X Names)
        /\ \A i, j \in DOMAIN cache' : cache'[i][1] = cache'[j][1] => i = j
        /\ AllRight => RowsRight'
        /\ \A v \in Uids : Cached(v) => Cached(v)'
        /\ Cached(uid[t])'
    <3>1. /\ cache \in Seq(Uids \X Names)
          /\ \A i, j \in DOMAIN cache : cache[i][1] = cache[j][1] => i = j
      BY DEF TypeOK
    <3> DEFINE kept == Keep(uid[t], name[t])
    <3>2. /\ kept \in Seq(Uids \X Names)
          /\ \A i, j \in DOMAIN kept : kept[i][1] = kept[j][1] => i = j
          /\ RowsRight /\ name[t] = Directory[uid[t]]
               => \A i \in DOMAIN kept : kept[i][2] = Directory[kept[i][1]]
          /\ \A v \in Uids : Cached(v) => \E i \in DOMAIN kept : kept[i][1] = v
          /\ \E i \in DOMAIN kept : kept[i][1] = uid[t]
      BY <2>1, <3>1, KeepLemma
    <3>3. cache' = kept
      BY <2>1
    <3> HIDE DEF kept
    <3>4. AllRight => RowsRight'
      BY <2>1, <3>2, <3>3 DEF AllRight, RowsRight, NameRight
    <3>5. \A v : (\E i \in DOMAIN kept : kept[i][1] = v) => Cached(v)'
      BY <3>3 DEF Cached, Rows
    <3>6. Cached(uid[t])'
      BY <2>1, <3>2, <3>3 DEF Cached, Rows
    <3> QED BY <3>2, <3>3, <3>4, <3>5, <3>6
  <2>3. TypeOK'
    BY <2>1, <2>2 DEF TypeOK
  <2>4. AskedOnce'
    BY <2>1 DEF TypeOK, AskedOnce
  <2>5. AskedKept'
    <3> SUFFICES ASSUME NEW s \in Threads, NEW u \in asked[s]
                 PROVE  Cached(u)' \/ (pc'[s] \in {"fill", "copy", "write"} /\ uid[s] = u)
      BY <2>1 DEF AskedKept
    <3>0. Cached(u) \/ (pc[s] \in {"fill", "copy", "write"} /\ uid[s] = u)
      BY DEF AskedKept
    <3>1. u \in Uids
      BY DEF TypeOK
    <3>2. CASE Cached(u)
      BY <2>2, <3>1, <3>2
    <3>3. CASE pc[s] \in {"fill", "copy", "write"} /\ uid[s] = u
      BY <2>1, <2>2, <3>3 DEF TypeOK
    <3> QED BY <3>0, <3>2, <3>3
  <2>6. AllRight => AllRight'
    BY <2>1, <2>2 DEF TypeOK, AllRight, BufferRight, NameRight, OneEach, Occupies, Named
  <2> QED BY <2>1, <2>3, <2>4, <2>5, <2>6 DEF Keeps
<1>7. CASE Return(t)
  <2>1. pc[t] = "return" /\ pc' = [pc EXCEPT ![t] = "idle"]
        /\ UNCHANGED <<cache, uid, name, static, calls, asked, raced>>
    BY <1>7 DEF Return
  <2>2. TypeOK' /\ AskedKept' /\ AskedOnce'
    BY <2>1 DEF TypeOK, AskedKept, AskedOnce, Cached, Rows
  <2>3. AllRight => AllRight'
    BY <2>1 DEF TypeOK, AllRight, RowsRight, BufferRight, NameRight, OneEach, Occupies, Named
  <2> QED BY <2>1, <2>2, <2>3 DEF Keeps
<1> QED BY <1>1, <1>2, <1>3, <1>4, <1>5, <1>6, <1>7 DEF ThreadStep

\* Stuttering steps keep it too.
LEMMA StutterIInv == ASSUME IInv, UNCHANGED vars PROVE Keeps
<1>1. UNCHANGED <<cache, pc, uid, name, static, calls, asked, raced>>
  BY DEF vars
<1>2. TypeOK' /\ AskedKept' /\ AskedOnce'
  BY <1>1 DEF IInv, TypeOK, AskedKept, AskedOnce, Cached, Rows
<1>3. raced' \/ AllRight'
  BY <1>1 DEF IInv, AllRight, RowsRight, BufferRight, NameRight, OneEach, Occupies, Named
<1> QED BY <1>2, <1>3 DEF Keeps

(***************************************************************************)
(* The inductive invariant holds in every reachable state.                 *)
(***************************************************************************)
THEOREM Invariance == Spec => []IInv
<1>1. IInv /\ [Next]_vars => IInv'
  <2> SUFFICES ASSUME IInv, [Next]_vars PROVE IInv'
    OBVIOUS
  <2>1. CASE \E t \in Threads : ThreadStep(t)
    BY <2>1, StepIInv DEF IInv, Keeps
  <2>2. CASE UNCHANGED vars
    BY <2>2, StutterIInv DEF IInv, Keeps
  <2> QED BY <2>1, <2>2 DEF Next, ThreadStep, Done
<1> QED BY <1>1, InitIInv, PTL DEF Spec

(***************************************************************************)
(* Types are kept, and the cache never has two rows for a uid, for any     *)
(* number of threads.                                                      *)
(***************************************************************************)
THEOREM TypeCorrect == Spec => []TypeOK
<1>1. IInv => TypeOK
  BY DEF IInv
<1> QED BY <1>1, Invariance, PTL

(***************************************************************************)
(* Until a buffer is filled before its last name was copied, every call    *)
(* answers with the name of its own uid, whoever shares the buffers.       *)
(***************************************************************************)
THEOREM AnswersRightUntilRaced == Spec => []RightUnlessRaced
<1>1. IInv => RightUnlessRaced
  BY DEF IInv, AllRight, NameRight, AnswersRight, RightUnlessRaced
<1> QED BY <1>1, Invariance, PTL

(***************************************************************************)
(* Where getpwuid gives each thread a buffer of its own, nothing races,    *)
(* and every call answers with the name of its uid.                        *)
(***************************************************************************)
THEOREM OwnBuffersSuffice ==
  ASSUME \A s, t \in Threads : Buffer[s] = Buffer[t] => s = t
  PROVE  Spec => []AnswersRight
<1>1. Init => ~raced
  BY DEF Init
<1>2. ~raced /\ [Next]_vars => ~raced'
  BY DEF Next, Call, Read, Getpwuid, Filled, Copy, Write, Return, Done, vars
<1>3. IInv /\ ~raced => AnswersRight
  BY DEF IInv, AllRight, NameRight, AnswersRight
<1> QED BY <1>1, <1>2, <1>3, Invariance, PTL DEF Spec

(***************************************************************************)
(* No thread asks the directory twice for a uid.                           *)
(***************************************************************************)
THEOREM AlwaysAskedOnce == Spec => []AskedOnce
<1>1. IInv => AskedOnce
  BY DEF IInv
<1> QED BY <1>1, Invariance, PTL
=============================================================================
