------------------------------ MODULE Username ------------------------------
(***************************************************************************)
(* username of macos.rs: the cache from uids to user names, a vector       *)
(* behind a read-write lock, as the threads of scan::collect use it, one   *)
(* call for each process they describe.  The lock is not held during       *)
(* getpwuid, so threads may look up the same uid at once, and the memory   *)
(* that getpwuid answers in (static, says macos.rs:247) may be filled for  *)
(* another thread before the name in it has been copied.                   *)
(*                                                                         *)
(* Operators marked "fault" are plausible bugs of the definition below     *)
(* them; the specification does not use them.                              *)
(***************************************************************************)
EXTENDS Naturals, Sequences

CONSTANTS
  Threads,
  Uids,
  Directory,   \* uid -> its name, or NoName
  NoName,
  Torn,        \* what a copy finds while the buffer is being filled
  Buffer,      \* thread -> the buffer getpwuid answers it in, shared or not
  MaxCalls     \* bound: calls made by one thread

ASSUME UsernameAssumption ==
  /\ DOMAIN Directory = Uids
  /\ MaxCalls \in Nat

VARIABLES
  cache,       \* CACHE: rows <<uid, name>>, oldest first
  pc,          \* thread -> next step of its call
  uid,         \* thread -> argument of its call
  name,        \* thread -> looked_up, and then the answer
  static,      \* buffer -> what getpwuid has left there
  calls,       \* thread -> calls made
  asked,       \* history: thread -> the uids it has asked the directory for
  raced        \* history: a buffer was filled before its last name was copied

vars == <<cache, pc, uid, name, static, calls, asked, raced>>

Buffers == {Buffer[t] : t \in Threads}
Names   == {Directory[u] : u \in Uids} \cup {NoName, Torn}

Rows(u) == {i \in DOMAIN cache : cache[i][1] = u}
Cached(u) == Rows(u) # {}

Named(t) == Directory[uid[t]] # NoName

\* Between the moment getpwuid starts to fill the buffer and the end of the copy.
Occupies(t) == pc[t] \in {"fill", "copy"} /\ Named(t)
-----------------------------------------------------------------------------
Call(t) ==
  /\ pc[t] = "idle" /\ calls[t] < MaxCalls
  /\ \E u \in Uids : uid' = [uid EXCEPT ![t] = u]
  /\ calls' = [calls EXCEPT ![t] = @ + 1]
  /\ pc' = [pc EXCEPT ![t] = "read"]
  /\ UNCHANGED <<cache, name, static, asked, raced>>

\* Under the read lock.
Read(t) ==
  /\ pc[t] = "read"
  /\ IF Cached(uid[t])
     THEN /\ \E i \in Rows(uid[t]) :
               (\A j \in Rows(uid[t]) : i <= j) /\ name' = [name EXCEPT ![t] = cache[i][2]]
          /\ pc' = [pc EXCEPT ![t] = "return"]
     ELSE pc' = [pc EXCEPT ![t] = "lookup"] /\ UNCHANGED name
  /\ UNCHANGED <<cache, uid, static, calls, asked, raced>>

\* A uid without a name gets a null pointer, and nothing is written.
Getpwuid(t) ==
  /\ pc[t] = "lookup"
  /\ IF Named(t)
     THEN /\ static' = [static EXCEPT ![Buffer[t]] = Torn]
          /\ raced' = (raced \/ \E s \in Threads \ {t} : Occupies(s) /\ Buffer[s] = Buffer[t])
     ELSE UNCHANGED <<static, raced>>
  /\ asked' = [asked EXCEPT ![t] = @ \cup {uid[t]}]
  /\ pc' = [pc EXCEPT ![t] = "fill"]
  /\ UNCHANGED <<cache, uid, name, calls>>

Filled(t) ==
  /\ pc[t] = "fill"
  /\ static' = IF Named(t) THEN [static EXCEPT ![Buffer[t]] = Directory[uid[t]]] ELSE static
  /\ pc' = [pc EXCEPT ![t] = "copy"]
  /\ UNCHANGED <<cache, uid, name, calls, asked, raced>>

\* Whatever is in the buffer by now.
Copy(t) ==
  /\ pc[t] = "copy"
  /\ name' = [name EXCEPT ![t] = IF Named(t) THEN static[Buffer[t]] ELSE NoName]
  /\ pc' = [pc EXCEPT ![t] = "write"]
  /\ UNCHANGED <<cache, uid, static, calls, asked, raced>>

\* faults: a uid without a name is not kept; the row is not looked for again
KeepNamesOnly(u, n) == IF Cached(u) \/ n = NoName THEN cache ELSE Append(cache, <<u, n>>)
KeepAlways(u, n)    == Append(cache, <<u, n>>)

Keep(u, n) == IF Cached(u) THEN cache ELSE Append(cache, <<u, n>>)

\* fault: the answer is the last row of the cache
WriteAnswersLast(t) ==
  /\ pc[t] = "write"
  /\ cache' = Keep(uid[t], name[t])
  /\ name' = [name EXCEPT ![t] = cache'[Len(cache')][2]]
  /\ pc' = [pc EXCEPT ![t] = "return"]
  /\ UNCHANGED <<uid, static, calls, asked, raced>>

\* Under the write lock; another thread may have been first.
Write(t) ==
  /\ pc[t] = "write"
  /\ cache' = Keep(uid[t], name[t])
  /\ pc' = [pc EXCEPT ![t] = "return"]
  /\ UNCHANGED <<uid, name, static, calls, asked, raced>>

Return(t) ==
  /\ pc[t] = "return"
  /\ pc' = [pc EXCEPT ![t] = "idle"]
  /\ UNCHANGED <<cache, uid, name, static, calls, asked, raced>>

Done == (\A t \in Threads : pc[t] = "idle" /\ calls[t] = MaxCalls) /\ UNCHANGED vars
-----------------------------------------------------------------------------
Init ==
  /\ cache = <<>>
  /\ pc = [t \in Threads |-> "idle"] /\ uid \in [Threads -> Uids]
  /\ name = [t \in Threads |-> NoName] /\ static = [b \in Buffers |-> NoName]
  /\ calls = [t \in Threads |-> 0] /\ asked = [t \in Threads |-> {}]
  /\ raced = FALSE

Next ==
  \/ \E t \in Threads :
       Call(t) \/ Read(t) \/ Getpwuid(t) \/ Filled(t) \/ Copy(t) \/ Write(t) \/ Return(t)
  \/ Done

Spec == Init /\ [][Next]_vars
-----------------------------------------------------------------------------
\* Types; the cache has one row for a uid, however many threads look it up.
TypeOK ==
  /\ cache \in Seq(Uids \X Names)
  /\ \A i, j \in DOMAIN cache : cache[i][1] = cache[j][1] => i = j
  /\ pc \in [Threads -> {"idle", "read", "lookup", "fill", "copy", "write", "return"}]
  /\ uid \in [Threads -> Uids] /\ name \in [Threads -> Names]
  /\ static \in [Buffers -> Names]
  /\ calls \in [Threads -> 0..MaxCalls] /\ asked \in [Threads -> SUBSET Uids]
  /\ raced \in BOOLEAN

(***************************************************************************)
(* macos.rs:247: getpwuid's buffer is static, and its name is copied out   *)
(* at once, before another call.  Then every call of username answers with *)
(* the name of its uid; but the threads of scan.rs:66 do not wait for each *)
(* other's copies.                                                         *)
(***************************************************************************)
AnswersRight == \A t \in Threads : pc[t] = "return" => name[t] = Directory[uid[t]]

(***************************************************************************)
(* So far as no buffer has been filled before the name it held was copied, *)
(* every call answers with the name of its uid, from the cache or from the *)
(* directory, in whatever order the threads read, look up and file their   *)
(* rows (macos.rs:229-244).                                                *)
(***************************************************************************)
RightUnlessRaced == ~raced => AnswersRight

(***************************************************************************)
(* macos.rs:226-227: a lookup may take hundreds of milliseconds, so there  *)
(* must not be one for each process.  A thread asks the directory at most  *)
(* once for a uid, one that has no name included.                          *)
(***************************************************************************)
AskedOnce == \A t \in Threads : pc[t] = "lookup" => uid[t] \notin asked[t]
=============================================================================
