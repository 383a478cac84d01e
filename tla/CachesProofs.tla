---------------------------- MODULE CachesProofs ----------------------------
(***************************************************************************)
(* The caches implement ReadThrough, for any callers, locations, patterns, *)
(* types and compilers.                                                    *)
(*                                                                         *)
(* A caller that has made a value and not yet published it holds something *)
(* the source was while its call lasted: this is not to be seen in the     *)
(* abstract state, which does not know what has been made.  Timely says so *)
(* of the detailed state; it is kept because a source only ever has more   *)
(* of a past.                                                              *)
(***************************************************************************)
EXTENDS Caches, TLAPS

Sources == Nat \cup {Gone}

Typed ==
  /\ disk \in [Paths -> Seq(Sources)]
  /\ \A path \in Paths : Len(disk[path]) > 0
  /\ cache \in [Keys -> Stored \cup {None}]
  /\ work \in [Callers -> Call \cup {None}]

\* The keys whose values are stored.
Storable(key) == key[1] = "uri" => Cached(key[2])

NeverKept == \A key \in Keys : ~Storable(key) => cache[key] = None

\* What a caller is about to publish, its source was during the call.
Timely(p) ==
  LET w == work[p]
  IN  /\ w.since <= Len(Past(w.key))
      /\ w.made # None => /\ Storable(w.key)
                          /\ \E n \in w.since .. Len(Past(w.key)) :
                               w.made = Made(p, Past(w.key)[n])

IInv == Typed /\ NeverKept /\ \A p \in Callers : work[p] # None => Timely(p)

(***************************************************************************)
(* The past of a source.                                                   *)
(***************************************************************************)
LEMMA PastTyped ==
  ASSUME Typed, NEW key \in Keys
  PROVE  Past(key) \in Seq({key} \X Sources) /\ Len(Past(key)) > 0
<1>1. CASE key[1] = "uri"
  <2>. DEFINE path == key[2].path
  <2>1. path \in Paths
    BY <1>1 DEF Keys, Paths
  <2>2. disk[path] \in Seq(Sources) /\ Len(disk[path]) > 0
    BY <2>1 DEF Typed
  <2>3. Past(key) = [n \in 1 .. Len(disk[path]) |-> <<key, disk[path][n]>>]
    BY <1>1, <2>2 DEF Past
  <2>. QED BY <2>2, <2>3
<1>2. CASE key[1] # "uri"
  <2>1. Past(key) = << <<key, Gone>> >>
    BY <1>2 DEF Past
  <2>2. Gone \in Sources
    BY DEF Sources
  <2>. QED BY <2>1, <2>2
<1>. QED BY <1>1, <1>2

\* A change of what is found at a path adds to the past of its locations, and
\* to no other.
LEMMA PastGrows ==
  ASSUME Typed, NEW path \in Paths, Change(path), NEW key \in Keys
  PROVE  \/ Past(key)' = Past(key)
         \/ \E c : Past(key)' = Append(Past(key), <<key, c>>)
<1>1. PICK c \in Sources : disk' = [disk EXCEPT ![path] = Append(disk[path], c)]
  <2>1. Len(disk[path]) + 1 \in Sources
    BY DEF Typed, Sources
  <2>2. PICK c \in {Len(disk[path]) + 1, Gone} : disk' = [disk EXCEPT ![path] = Append(@, c)]
    BY DEF Change
  <2>. QED BY <2>1, <2>2 DEF Sources
<1>2. CASE key[1] = "uri" /\ key[2].path = path
  <2>1. disk[path] \in Seq(Sources) /\ disk'[path] = Append(disk[path], c)
    BY <1>1 DEF Typed
  <2>2. Past(key) = [n \in DOMAIN disk[path] |-> <<key, disk[path][n]>>]
    BY <1>2 DEF Past
  <2>3. Past(key)' = [n \in DOMAIN disk'[path] |-> <<key, disk'[path][n]>>]
    BY <1>2 DEF Past
  <2>4. Past(key)' = Append(Past(key), <<key, c>>)
    <3>. DEFINE m == Len(disk[path])
    <3>1. m \in Nat /\ DOMAIN disk[path] = 1 .. m /\ DOMAIN disk'[path] = 1 .. (m + 1)
      BY <2>1
    <3>2. Past(key) \in Seq({ <<key, s>> : s \in Sources }) /\ Len(Past(key)) = m
      BY <2>1, <2>2, <3>1
    <3>3. \A n \in 1 .. (m + 1) : disk'[path][n] = IF n = m + 1 THEN c ELSE disk[path][n]
      BY <2>1
    <3>4. Past(key)' = [n \in 1 .. (m + 1) |-> IF n = m + 1 THEN <<key, c>> ELSE Past(key)[n]]
      BY <2>2, <2>3, <3>1, <3>3
    <3>. HIDE DEF m
    <3>. QED BY <3>1, <3>2, <3>4
  <2>. QED BY <2>4
<1>3. CASE key[1] = "uri" /\ key[2].path # path
  <2>1. disk'[key[2].path] = disk[key[2].path]
    BY <1>1, <1>3 DEF Typed, Keys, Paths
  <2>. QED BY <1>3, <2>1 DEF Past
<1>4. CASE key[1] # "uri"
  BY <1>4 DEF Past
<1>. QED BY <1>2, <1>3, <1>4

LEMMA PastOtherwise == ASSUME UNCHANGED disk, NEW key PROVE Past(key)' = Past(key)
BY DEF Past

LEMMA MissTyped ==
  ASSUME Typed, NEW key \in Keys
  PROVE  [key |-> key, since |-> Len(Past(key)), made |-> None] \in Call
<1>1. Past(key) \in Seq({key} \X Sources) /\ Len(Past(key)) > 0
  BY PastTyped
<1>2. Len(Past(key)) \in Nat \ {0}
  BY <1>1
<1>. QED BY <1>2 DEF Call

\* What is made of a content is stored or an error, never mistaken for nothing.
LEMMA MadeTyped ==
  ASSUME NEW p \in Callers, NEW key \in Keys, NEW c \in Sources
  PROVE  Made(p, <<key, c>>) \in Stored \cup {Error}
<1>1. Compiler[p] \in Contents /\ c \in Contents
  BY DEF Contents, Sources
<1>2. key[1] \in {"uri", "pattern", "type"}
  BY DEF Keys
<1>. QED BY <1>1, <1>2 DEF Made, Stored

(***************************************************************************)
(* The invariant.                                                          *)
(***************************************************************************)
LEMMA InitEstablishes == Init => IInv
<1>. SUFFICES ASSUME Init PROVE IInv
  OBVIOUS
<1>1. <<1>> \in Seq(Sources) /\ Len(<<1>>) = 1
  BY DEF Sources
<1>2. disk \in [Paths -> Seq(Sources)] /\ \A path \in Paths : Len(disk[path]) > 0
  BY <1>1 DEF Init
<1>. QED BY <1>2 DEF Init, IInv, Typed, NeverKept

LEMMA ChangeKeeps ==
  ASSUME IInv, NEW path \in Paths, Change(path)
  PROVE  IInv'
<1>1. Typed'
  <2>1. disk[path] \in Seq(Sources) /\ Len(disk[path]) + 1 \in Sources
    BY DEF IInv, Typed, Sources
  <2>2. PICK c \in Sources : disk' = [disk EXCEPT ![path] = Append(@, c)]
    BY <2>1 DEF Change, Sources
  <2>3. Append(disk[path], c) \in Seq(Sources) /\ Len(Append(disk[path], c)) > 0
    BY <2>1
  <2>. QED BY <2>2, <2>3 DEF Change, IInv, Typed
<1>2. ASSUME NEW p \in Callers, work[p] # None PROVE Timely(p)'
  <2>1. PICK w \in Call : w = work[p]
    BY <1>2 DEF IInv, Typed
  <2>2. work'[p] = w /\ Timely(p)
    BY <1>2, <2>1 DEF Change, IInv
  <2>3. w.key \in Keys /\ Past(w.key) \in Seq({w.key} \X Sources)
    BY <2>1, PastTyped DEF IInv, Call
  <2>. DEFINE before == Past(w.key)
              after  == Past(w.key)'
  <2>4. /\ Len(after) \in Nat /\ Len(after) >= Len(before)
        /\ \A n \in 1 .. Len(before) : after[n] = before[n]
    <3>1. CASE after = before
      BY <2>3, <3>1
    <3>2. CASE \E c : after = Append(before, <<w.key, c>>)
      BY <2>3, <3>2
    <3>3. after = before \/ \E c : after = Append(before, <<w.key, c>>)
      BY <2>3, PastGrows DEF IInv
    <3>. QED BY <3>1, <3>2, <3>3
  <2>. QED
    BY <2>1, <2>2, <2>3, <2>4 DEF Timely, Call, Storable
<1>. QED BY <1>1, <1>2 DEF IInv, Change, NeverKept

\* A caller goes on waiting while the others work.
LEMMA TimelyKept ==
  ASSUME NEW q \in Callers, Timely(q), UNCHANGED disk, work'[q] = work[q]
  PROVE  Timely(q)'
BY DEF Timely, Past, Storable

LEMMA MissKeeps ==
  ASSUME IInv, NEW p \in Callers, NEW key \in Keys, Miss(p, key)
  PROVE  IInv'
<1>. DEFINE w == [key |-> key, since |-> Len(Past(key)), made |-> None]
<1>1. Past(key)' = Past(key)
  BY PastOtherwise DEF Miss
<1>2. w \in Call /\ work' = [work EXCEPT ![p] = w]
  BY MissTyped DEF IInv, Miss
<1>3. Typed'
  BY <1>2 DEF IInv, Typed, Miss
<1>4. ASSUME NEW q \in Callers, work'[q] # None PROVE Timely(q)'
  <2>1. CASE q = p
    BY <1>1, <1>2, <2>1 DEF Timely, IInv, Typed, Call
  <2>2. CASE q # p
    BY <1>2, <1>4, <2>2, TimelyKept DEF IInv, Typed, Miss
  <2>. QED BY <2>1, <2>2
<1>. QED BY <1>3, <1>4 DEF IInv, NeverKept, Miss

LEMMA MakeKeeps ==
  ASSUME IInv, NEW p \in Callers, Make(p)
  PROVE  IInv'
<1>1. PICK w \in Call : w = work[p] /\ Timely(p)
  BY DEF IInv, Typed, Make
<1>2. Past(w.key) \in Seq({w.key} \X Sources) /\ Len(Past(w.key)) > 0
  BY PastTyped DEF IInv, Call
<1>. DEFINE now == Past(w.key)[Len(Past(w.key))]
            v   == Made(p, now)
<1>3. v \in Stored \cup {Error}
  BY <1>2, MadeTyped DEF Call
<1>4. CASE v = Error \/ ~Storable(w.key)
  <2>1. work' = [work EXCEPT ![p] = None] /\ UNCHANGED <<disk, cache>>
    BY <1>1, <1>4 DEF Make, Storable
  <2>2. ASSUME NEW q \in Callers, work'[q] # None PROVE Timely(q)'
    BY <2>1, <2>2, TimelyKept DEF IInv, Typed
  <2>. QED BY <2>1, <2>2 DEF IInv, Typed, NeverKept
<1>5. CASE v # Error /\ Storable(w.key)
  <2>1. work' = [work EXCEPT ![p] = [w EXCEPT !.made = v]] /\ UNCHANGED <<disk, cache>>
    BY <1>1, <1>5 DEF Make, Storable
  <2>2. [w EXCEPT !.made = v] \in Call
    BY <1>3, <1>5 DEF Call
  <2>3. Typed'
    BY <2>1, <2>2 DEF IInv, Typed
  <2>4. w.since \in 1 .. Len(Past(w.key))
    BY <1>1, <1>2 DEF Timely, Call
  <2>5. Timely(p)'
    <3>1. work'[p] = [w EXCEPT !.made = v]
      BY <2>1 DEF IInv, Typed
    <3>2. Past(w.key)' = Past(w.key)
      BY <2>1, PastOtherwise
    <3>3. Len(Past(w.key)) \in w.since .. Len(Past(w.key))
      BY <1>2, <2>4
    <3>. QED BY <1>5, <2>4, <3>1, <3>2, <3>3 DEF Timely, Storable, Call
  <2>6. ASSUME NEW q \in Callers \ {p}, work'[q] # None PROVE Timely(q)'
    BY <2>1, <2>6, TimelyKept DEF IInv, Typed
  <2>. QED BY <2>1, <2>3, <2>5, <2>6 DEF IInv, NeverKept
<1>. QED BY <1>4, <1>5

LEMMA PublishKeeps ==
  ASSUME IInv, NEW p \in Callers, Publish(p)
  PROVE  IInv'
<1>1. work[p].key \in Keys /\ work[p].made \in Stored
  BY DEF IInv, Typed, Call, Publish
<1>2. Typed'
  BY <1>1 DEF IInv, Typed, Publish
<1>3. ASSUME NEW q \in Callers, work'[q] # None PROVE Timely(q)'
  BY <1>3, TimelyKept DEF IInv, Typed, Publish
<1>4. NeverKept'
  BY <1>1 DEF IInv, Typed, NeverKept, Timely, Publish, Storable
<1>. QED BY <1>2, <1>3, <1>4 DEF IInv

\* A step is a change, a look-up with or without success, a call being made or
\* the publication of what was made.
LEMMA Steps ==
  ASSUME Next
  PROVE  \/ \E path \in Paths : Change(path)
         \/ \E p \in Callers : Make(p) \/ Publish(p)
         \/ \E p \in Callers, key \in Keys :
              \/ Miss(p, key) /\ (Storable(key) => cache[key] = None
                                    \/ (key[1] = "pattern" /\ Compiler[p] # ""))
              \/ LookUp(p, key) /\ cache[key] # None
<1>1. CASE \E p \in Callers, l \in Locations : ReadURI(p, l)
  <2>1. PICK p \in Callers, l \in Locations : ReadURI(p, l)
    BY <1>1
  <2>. DEFINE key == <<"uri", l>>
  <2>2. key \in Keys /\ key[1] = "uri" /\ key[2] = l
    BY DEF Keys
  <2>3. IF Cached(l) THEN LookUp(p, key) ELSE Miss(p, key)
    BY <2>1 DEF ReadURI
  <2>. HIDE DEF key
  <2>. QED BY <2>2, <2>3 DEF LookUp, Storable
<1>2. CASE \E p \in Callers, pattern \in Patterns :
             VisitString(p, pattern) \/ ValidatePattern(p, pattern)
  <2>1. PICK p \in Callers, pattern \in Patterns :
               VisitString(p, pattern) \/ ValidatePattern(p, pattern)
    BY <1>2
  <2>. DEFINE key == <<"pattern", pattern>>
  <2>2. key \in Keys /\ key[1] = "pattern"
    BY DEF Keys
  <2>3. LookUp(p, key) \/ (Compiler[p] # "" /\ Miss(p, key))
    BY <2>1 DEF VisitString, ValidatePattern
  <2>. HIDE DEF key
  <2>. QED BY <2>2, <2>3 DEF LookUp
<1>3. CASE \E p \in Callers, t \in Types : GetTypeInfo(p, t)
  BY <1>3, TypesAssumption DEF GetTypeInfo, LookUp, Keys, Storable
<1>. QED BY <1>1, <1>2, <1>3 DEF Next

LEMMA StepPreserves == IInv /\ [Next]_vars => IInv'
<1>. SUFFICES ASSUME IInv, [Next]_vars PROVE IInv'
  OBVIOUS
<1>1. ASSUME UNCHANGED <<disk, cache, work>> PROVE IInv'
  BY <1>1, TimelyKept DEF IInv, Typed, NeverKept
<1>2. CASE \E p \in Callers, key \in Keys : LookUp(p, key) /\ cache[key] # None
  BY <1>1, <1>2 DEF LookUp
<1>. QED
  BY <1>1, <1>2, Steps, ChangeKeeps, MissKeeps, MakeKeeps, PublishKeeps DEF vars

(***************************************************************************)
(* The refinement.                                                         *)
(***************************************************************************)
\* The abstract calls and pasts.
Calls == [p \in Callers |-> IF work[p] = None THEN None
                            ELSE [key |-> work[p].key, since |-> work[p].since]]
Pasts == [k \in Keys |-> Past(k)]

LEMMA ChangeRefines ==
  ASSUME IInv, NEW path \in Paths, Change(path)
  PROVE  Abstract!Change
<1>1. ASSUME NEW k \in Keys
      PROVE  \/ Pasts'[k] = Pasts[k]
             \/ Pasts'[k] = Append(Pasts[k], Pasts'[k][Len(Pasts[k]) + 1])
  <2>1. Pasts[k] = Past(k) /\ Pasts'[k] = Past(k)'
    BY DEF Pasts
  <2>2. Past(k) \in Seq({k} \X Sources)
    BY PastTyped DEF IInv
  <2>3. ASSUME NEW c, Past(k)' = Append(Past(k), <<k, c>>)
        PROVE  Past(k)'[Len(Past(k)) + 1] = <<k, c>>
    BY <2>2, <2>3
  <2>. QED BY <2>1, <2>3, PastGrows DEF IInv
<1>2. UNCHANGED <<cache, Calls, given>>
  BY DEF Change, Calls
<1>. QED BY <1>1, <1>2 DEF Abstract!Change, Pasts, Calls

LEMMA HitRefines ==
  ASSUME IInv, NEW p \in Callers, NEW key \in Keys, LookUp(p, key), cache[key] # None
  PROVE  Abstract!Hit(p, key)
<1>1. work[p] = None /\ UNCHANGED <<disk, cache, work>>
      /\ given' = [given EXCEPT ![p] = cache[key]]
  BY DEF LookUp
<1>2. Calls[p] = None
  BY <1>1 DEF Calls
<1>3. UNCHANGED <<Pasts, Calls>>
  BY <1>1 DEF Pasts, Calls, Past
<1>. QED BY <1>1, <1>2, <1>3 DEF Abstract!Hit, Pasts, Calls

LEMMA MissRefines ==
  ASSUME IInv, NEW p \in Callers, NEW key \in Keys, Miss(p, key),
         Storable(key) => cache[key] = None \/ (key[1] = "pattern" /\ Compiler[p] # "")
  PROVE  Abstract!Miss(p, key)
<1>. DEFINE w == [key |-> key, since |-> Len(Past(key)), made |-> None]
<1>1. work[p] = None /\ UNCHANGED <<disk, cache, given>> /\ work' = [work EXCEPT ![p] = w]
  BY DEF Miss
<1>2. Calls[p] = None
  BY <1>1 DEF Calls
<1>3. UNCHANGED Pasts
  BY <1>1 DEF Pasts, Past
<1>4. w \in Call
  BY MissTyped DEF IInv
<1>5. Calls' = [Calls EXCEPT ![p] = [key |-> key, since |-> Len(Past(key))]]
  BY <1>1, <1>4, NullsAssumption DEF Calls, IInv, Typed
<1>6. Calls' = [Calls EXCEPT ![p] = [key |-> key, since |-> Len(Pasts[key])]]
  BY <1>5 DEF Pasts
<1>7. cache[key] = None \/ (key[1] = "pattern" /\ Compiler[p] # "")
  BY DEF IInv, NeverKept
<1>. QED BY <1>1, <1>2, <1>3, <1>6, <1>7 DEF Abstract!Miss, Pasts, Calls

\* What a caller on the slow path is given, its source was during the call.
LEMMA SeenInTime ==
  ASSUME IInv, NEW p \in Callers, NEW w \in Call, work[p] = w,
         NEW n \in w.since .. Len(Past(w.key))
  PROVE  Made(p, Past(w.key)[n]) \in Abstract!Seen(p)
<1>1. w # None /\ w.key \in Keys
  BY NullsAssumption DEF Call
<1>2. Calls[p].key = w.key /\ Calls[p].since = w.since /\ Pasts[w.key] = Past(w.key)
  BY <1>1 DEF Calls, Pasts
<1>. QED BY <1>2 DEF Abstract!Seen, Calls, Pasts

LEMMA MakeRefines ==
  ASSUME IInv, NEW p \in Callers, Make(p)
  PROVE  \/ Abstract!Fill(p) \/ Abstract!Fail(p)
         \/ UNCHANGED <<Pasts, cache, Calls, given>>
<1>1. PICK w \in Call : w = work[p] /\ Timely(p)
  BY DEF IInv, Typed, Make
<1>2. Past(w.key) \in Seq({w.key} \X Sources) /\ Len(Past(w.key)) > 0 /\ w.key \in Keys
  BY PastTyped DEF IInv, Call
<1>3. PICK v : /\ v = Made(p, Past(w.key)[Len(Past(w.key))])
               /\ v \in Abstract!Seen(p)
  <2>1. Len(Past(w.key)) \in w.since .. Len(Past(w.key))
    BY <1>1, <1>2 DEF Timely, Call
  <2>. QED BY <1>1, <2>1, SeenInTime
<1>4. UNCHANGED <<disk, cache>> /\ UNCHANGED Pasts
  BY DEF Make, Pasts, Past
<1>5. w # None /\ Calls[p] = [key |-> w.key, since |-> w.since] /\ Calls[p] # None
  BY <1>1, NullsAssumption DEF Calls, Call
<1>6. CASE v = Error \/ ~Storable(w.key)
  <2>1. /\ given' = [given EXCEPT ![p] = v]
        /\ work' = [work EXCEPT ![p] = None]
    BY <1>1, <1>3, <1>6 DEF Make, Storable
  <2>2. Calls' = [Calls EXCEPT ![p] = None]
    BY <2>1 DEF Calls, IInv, Typed
  <2>3. CASE v = Error
    BY <1>3, <1>4, <1>5, <2>1, <2>2, <2>3 DEF Abstract!Fail, Calls, Pasts
  <2>4. CASE v # Error
    <3>1. ~Storable(Calls[p].key)
      BY <1>5, <1>6, <2>4
    <3>. QED
      BY <1>3, <1>4, <1>5, <2>1, <2>2, <2>4, <3>1
      DEF Abstract!Fill, Calls, Pasts, Storable, Cached
  <2>. QED BY <2>3, <2>4
<1>7. CASE ~(v = Error \/ ~Storable(w.key))
  <2>1. work' = [work EXCEPT ![p].made = v] /\ UNCHANGED given
    BY <1>1, <1>3, <1>7 DEF Make, Storable
  <2>2. v \in Stored
    BY <1>2, <1>3, <1>7, MadeTyped DEF Call
  <2>3. work'[p] \in Call /\ work'[p] # None
    BY <1>1, <2>1, <2>2, NullsAssumption DEF Call, IInv, Typed
  <2>4. UNCHANGED Calls
    BY <1>1, <1>5, <2>1, <2>3 DEF Calls, IInv, Typed, Call
  <2>. QED BY <1>4, <2>1, <2>4
<1>. QED BY <1>6, <1>7

LEMMA PublishRefines ==
  ASSUME IInv, NEW p \in Callers, Publish(p)
  PROVE  Abstract!Fill(p)
<1>1. PICK w \in Call : w = work[p] /\ Timely(p)
  BY DEF IInv, Typed, Publish
<1>2. w.made # None /\ w.made # Error /\ w.key \in Keys /\ Storable(w.key)
  BY <1>1, NullsAssumption DEF Publish, Call, Timely
<1>3. w.made \in Abstract!Seen(p)
  BY <1>1, <1>2, SeenInTime DEF Timely
<1>4. /\ cache' = [cache EXCEPT ![w.key] = w.made]
      /\ given' = [given EXCEPT ![p] = w.made]
      /\ work' = [work EXCEPT ![p] = None]
      /\ UNCHANGED disk
  BY <1>1 DEF Publish
<1>5. UNCHANGED Pasts /\ Calls' = [Calls EXCEPT ![p] = None]
  BY <1>4 DEF Pasts, Past, Calls, IInv, Typed
<1>6. w # None /\ Calls[p] = [key |-> w.key, since |-> w.since] /\ Calls[p] # None
  BY <1>1, NullsAssumption DEF Calls, Call
<1>. QED
  BY <1>2, <1>3, <1>4, <1>5, <1>6 DEF Abstract!Fill, Calls, Pasts, Storable, Cached

LEMMA StepRefines ==
  ASSUME IInv, [Next]_vars
  PROVE  [Abstract!Next]_(Abstract!vars)
<1>1. CASE UNCHANGED vars
  BY <1>1 DEF vars, Abstract!vars, Past
<1>2. CASE \E path \in Paths : Change(path)
  BY <1>2, ChangeRefines DEF Abstract!Next
<1>3. CASE \E p \in Callers : Make(p) \/ Publish(p)
  BY <1>3, MakeRefines, PublishRefines DEF Abstract!Next, Abstract!vars, Calls, Pasts
<1>4. CASE \E p \in Callers, key \in Keys : LookUp(p, key) /\ cache[key] # None
  BY <1>4, HitRefines DEF Abstract!Next
<1>5. CASE \E p \in Callers, key \in Keys :
             Miss(p, key) /\ (Storable(key) => cache[key] = None
                                 \/ (key[1] = "pattern" /\ Compiler[p] # ""))
  BY <1>5, MissRefines DEF Abstract!Next
<1>. QED BY <1>1, <1>2, <1>3, <1>4, <1>5, Steps

\* The caches of locations, of patterns and of types promise their callers what
\* ReadThrough says: every step is one of its actions, or is not seen.
THEOREM CachesReadThrough == Spec => ReadsThrough
<1>1. Init => IInv /\ Abstract!Init
  <2>. SUFFICES ASSUME Init PROVE IInv /\ Abstract!Init
    OBVIOUS
  <2>1. ASSUME NEW k \in Keys PROVE Len(Past(k)) = 1
    <3>1. CASE k[1] = "uri"
      <4>1. k[2].path \in Paths
        BY <3>1 DEF Keys, Paths
      <4>2. disk[k[2].path] = <<1>>
        BY <4>1 DEF Init
      <4>. QED BY <3>1, <4>2 DEF Past
    <3>2. CASE k[1] # "uri"
      BY <3>2 DEF Past
    <3>. QED BY <3>1, <3>2
  <2>. QED BY <2>1, InitEstablishes DEF Init, Abstract!Init
<1>2. IInv /\ [Next]_vars => IInv' /\ [Abstract!Next]_(Abstract!vars)
  BY StepPreserves, StepRefines
<1>. QED BY <1>1, <1>2, PTL DEF Spec, ReadsThrough, Abstract!Spec
=============================================================================
