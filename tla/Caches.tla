------------------------------- MODULE Caches -------------------------------
(***************************************************************************)
(* The three caches that callers share without knowing of each other: what *)
(* URIMapCache has read, the regular expressions compiled for the patterns *)
(* of schemas, and what getTypeInfo has found out of Go types.  Each locks *)
(* its map for the look-up and again for the store, and not in between.    *)
(*                                                                         *)
(* A key is <<"uri", location>>, <<"pattern", p>> or <<"type", t>>.  A     *)
(* location is [scheme, host, path]; what is found at a path is shared by  *)
(* all the spellings of it.                                                *)
(***************************************************************************)
EXTENDS Integers, Sequences, FiniteSets

CONSTANTS
  Callers,
  Locations, Relative,  \* the locations, and the paths that are relative
  Patterns,
  Compiler,  \* the compiler each caller has set, "" for none
  Refused,   \* the pairs of a compiler and a pattern it refuses
  Types, Elem,  \* the types, and of each what it points to or itself
  MaxChanges,       \* bound on the changes of what is found at a path
  None, Error, Gone \* Gone: nothing can be read at a path

VARIABLES
  disk,   \* for each path, what it has held, now last: numbered versions, or Gone
  cache,  \* the three maps, None where a key is missing
  work,   \* for each caller, the call on the slow path, or None
  given   \* for each caller, what its last call came back with

vars == <<disk, cache, work, given>>

Paths == { l.path : l \in Locations }
Keys == ({"uri"} \X Locations) \cup ({"pattern"} \X Patterns) \cup ({"type"} \X Types)

\* What a pointer type, of however many stars, leads to.
Base[t \in Types] == IF Elem[t] = t THEN t ELSE Base[Elem[t]]

\* What the source of a key may hold, what is made of it, and the calls.
Contents == Nat \cup {Gone} \cup { Compiler[p] : p \in Callers }
Stored   == Keys \X Contents
Call     == [key : Keys, since : Nat \ {0}, made : Stored \cup {None}]

ASSUME NullsAssumption ==
  None # Error /\ {None, Error} \cap Stored = {} /\ None \notin Call
  /\ None \notin [key : Keys, since : Nat \ {0}]
ASSUME TypesAssumption == \A t \in Types : Base[t] \in Types  \* every chain of pointers ends

IsFile(l) == l.host = "" /\ l.path # "" /\ l.scheme \in {"", "file"}

\* Mutant: every location is cached.
EveryLocation(l) == TRUE

Cached(l) == ~(l.scheme \in {"", "file"} /\ l.path \in Relative)

\* ReadFromHTTP, then ReadFromFile, the first that knows the location.
Readable(l) == (l.scheme # "" /\ l.host # "") \/ IsFile(l)

\* What a caller makes of <<key, content>>.
Made(p, c) ==
  LET key == c[1] IN
  CASE key[1] = "uri" -> IF Readable(key[2]) /\ c[2] # Gone THEN c ELSE Error
    [] key[1] = "pattern" -> IF <<Compiler[p], key[2]>> \in Refused THEN Error
                             ELSE <<key, Compiler[p]>>
    [] key[1] = "type" -> c

\* What the source of a key has been: only paths change.
Past(key) ==
  IF key[1] = "uri" THEN [i \in DOMAIN disk[key[2].path] |-> <<key, disk[key[2].path][i]>>]
  ELSE << <<key, Gone>> >>

Init ==
  /\ disk = [path \in Paths |-> <<1>>]
  /\ cache = [k \in Keys |-> None]
  /\ work = [p \in Callers |-> None]
  /\ given = [p \in Callers |-> None]

\* Somebody writes a file, a server fails, the working directory changes.
Change(path) ==
  /\ Len(disk[path]) <= MaxChanges
  /\ \E c \in {Len(disk[path]) + 1, Gone} : disk' = [disk EXCEPT ![path] = Append(@, c)]
  /\ UNCHANGED <<cache, work, given>>

\* since is history: the first of Past(key) that the call can have seen.
Miss(p, key) ==
  /\ work[p] = None
  /\ work' = [work EXCEPT ![p] = [key |-> key, since |-> Len(Past(key)), made |-> None]]
  /\ UNCHANGED <<disk, cache, given>>

LookUp(p, key) ==
  IF cache[key] = None THEN Miss(p, key)
  ELSE /\ work[p] = None
       /\ given' = [given EXCEPT ![p] = cache[key]]
       /\ UNCHANGED <<disk, cache, work>>

ReadURI(p, l) == IF Cached(l) THEN LookUp(p, <<"uri", l>>) ELSE Miss(p, <<"uri", l>>)

\* A value is matched with what the cache has, whoever compiled it; but a
\* document is validated with the compiler of the caller, if it has one.
VisitString(p, pattern) == LookUp(p, <<"pattern", pattern>>)

ValidatePattern(p, pattern) ==
  IF Compiler[p] # "" THEN Miss(p, <<"pattern", pattern>>) ELSE LookUp(p, <<"pattern", pattern>>)

GetTypeInfo(p, t) == LookUp(p, <<"type", Base[t]>>)

\* The slow part: a read, a compilation, a walk of the fields of a type.
\* Errors are not stored, nor is what is not cached.
Make(p) ==
  /\ work[p] # None
  /\ work[p].made = None
  /\ LET key == work[p].key
         v == Made(p, Past(key)[Len(Past(key))])
     IN IF v = Error \/ (key[1] = "uri" /\ ~Cached(key[2]))
        THEN /\ given' = [given EXCEPT ![p] = v]
             /\ work' = [work EXCEPT ![p] = None]
        ELSE /\ work' = [work EXCEPT ![p].made = v]
             /\ UNCHANGED given
  /\ UNCHANGED <<disk, cache>>

Publish(p) ==
  /\ work[p] # None
  /\ work[p].made # None
  /\ cache' = [cache EXCEPT ![work[p].key] = work[p].made]
  /\ given' = [given EXCEPT ![p] = work[p].made]
  /\ work' = [work EXCEPT ![p] = None]
  /\ UNCHANGED disk

Next ==
  \/ \E path \in Paths : Change(path)
  \/ \E p \in Callers :
       \/ Make(p) \/ Publish(p)
       \/ \E l \in Locations : ReadURI(p, l)
       \/ \E pattern \in Patterns : VisitString(p, pattern) \/ ValidatePattern(p, pattern)
       \/ \E t \in Types : GetTypeInfo(p, t)

Spec == Init /\ [][Next]_vars
----------------------------------------------------------------------------

Abstract ==
  INSTANCE ReadThrough WITH
    Kept <- { k \in Keys : k[1] = "uri" => ~(k[2].scheme \in {"", "file"} /\ k[2].path \in Relative) },
    past <- [k \in Keys |-> Past(k)],
    cell <- cache,
    call <- [p \in Callers |-> IF work[p] = None THEN None
                               ELSE [key |-> work[p].key, since |-> work[p].since]],
    Insists <- LAMBDA p, k : k[1] = "pattern" /\ Compiler[p] # ""

\* However the calls of several users interleave, each cache gives a caller
\* what the source was during its call, or what an earlier call was given
\* and stored; errors are never kept, relative locations never, and what is
\* kept is replaced only by calls that found nothing (or were told to use a
\* compiler of their own), so that it does not change behind the back of
\* those that follow.
ReadsThrough == Abstract!Spec
=============================================================================
