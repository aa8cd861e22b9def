-------------------------------- MODULE Near --------------------------------
(***************************************************************************)
(* Files related to a file of the database: NearInFile of                  *)
(* lib/near/infile.go, the counting of lib/near/near.go and the map of     *)
(* lib/structs/concmap.go.                                                 *)
(*                                                                         *)
(* A generator goroutine goes through the chunks of the file and sends,    *)
(* for each, the evidence files that have the same chunk at the same place *)
(* and at others.  NearInFile starts a counting goroutine for what it      *)
(* receives; these add to a map what they find, down to the partition and  *)
(* the indexed file, and report on a channel without a buffer.             *)
(*                                                                         *)
(* The place of a chunk is its number in the evidence file.  Confidence is *)
(* counted in parts of a full match.  When NearInFile has returned the     *)
(* process ends.                                                           *)
(***************************************************************************)
EXTENDS Integers, FiniteSets, Sequences

CONSTANTS
  MaxThreads,  \* cnst.GetMaxThreadCount()
  Databases,   \* bound: the databases to look at
  FullMatch,   \* confidence of equal chunks
  MaxFaults,   \* bound: database calls that fail
  None

(* A file lies within each of its evidence files.                          *)
ASSUME DatabasesAssumption ==
  \A d \in Databases :
    /\ \A e \in DOMAIN d.content : DOMAIN d.content[e] \subseteq Nat
    /\ \A f \in d.inputs :
         /\ f \in DOMAIN d.first /\ d.first[f] \in Nat /\ d.last[f] \in Nat
         /\ \A e \in d.images[f] :
              e \in DOMAIN d.content /\ d.first[f] .. d.last[f] \subseteq DOMAIN d.content[e]
(* An evidence file is inside nothing.                                     *)
ASSUME NestingAssumption ==
  \A d \in Databases :
    /\ DOMAIN d.content \subseteq DOMAIN d.first /\ DOMAIN d.inside = DOMAIN d.first
    /\ \A id \in DOMAIN d.inside :
         DOMAIN d.inside[id] \subseteq DOMAIN d.first \ DOMAIN d.content
ASSUME BoundsAssumption ==
  MaxThreads \in Nat /\ FullMatch \in Nat \ {0} /\ MaxFaults \in Nat

VARIABLES
  db,       \* the database, which is only read
  input,    \* the file
  image,    \* the evidence file its first name begins with
  deep,
  gpc,      \* where the generator is
  place,    \* nearIndex
  seen,     \* seenMap
  gen,      \* what it sends next
  main,     \* where getNearFile is
  near,     \* what it has received
  active,
  work,     \* the counting goroutine for what was sent for a place
  idmap,
  sent,     \* history: all that has been received
  faults

given == <<db, input, image, deep>>
generator == <<gpc, place, seen, gen>>
vars == <<given, generator, main, near, active, work, idmap, sent, faults>>

-----------------------------------------------------------------------------
(* A database: the chunks of each evidence file, the first and last chunk  *)
(* a file touches, the files inside evidence files and partitions with the *)
(* places at which each is counted, and the partitions that an interrupted *)
(* store operation has not stored.                                         *)

Evidence == DOMAIN db.content
Places == UNION {DOMAIN db.content[e] : e \in Evidence}
Ids == DOMAIN db.first
Children(id) == DOMAIN db.inside[id]

(* The reverse relation node of a chunk at a place.                        *)
RevRel(c, p) ==
  {e \in Evidence : p \in DOMAIN db.content[e] /\ db.content[e][p] = c}

Fault == faults < MaxFaults /\ faults' = faults + 1

Over == {"done", "failed", "panic"}
Running == main \notin Over

Init ==
  /\ db \in Databases /\ input \in db.inputs /\ image \in db.images[input]
  /\ deep \in BOOLEAN
  /\ gpc = "next" /\ place = db.first[input] /\ seen = {} /\ gen = None
  /\ main = "range" /\ near = None /\ active = 0
  /\ work = <<>> /\ idmap = [id \in Ids |-> 0] /\ sent = {}
  /\ faults = 0

-----------------------------------------------------------------------------
(* getNear: the generator.                                                 *)

Generating == Running /\ gpc = "next"
Consumer == <<given, main, near, active, work, idmap, sent>>

SkipSeen ==
  /\ Generating /\ place \in seen /\ place <= db.last[input]
  /\ place' = place + 1
  /\ UNCHANGED <<Consumer, gpc, seen, gen, faults>>

Here == db.content[image][place]
Looking == Generating /\ place <= db.last[input] /\ place \notin seen

SkipUnique ==
  /\ Looking /\ ~deep /\ Cardinality(RevRel(Here, place)) < 2
  /\ seen' = seen \cup {place}
  /\ place' = place + 1
  /\ UNCHANGED <<Consumer, gpc, gen, faults>>

(* partialMatch: no chunk of another evidence file, or one that is similar *)
(* to any degree.                                                          *)
NoPartial == [files |-> {}, confidence |-> 0 - FullMatch]
Partial ==
  {NoPartial} \cup
    [files : UNION {{RevRel(db.content[e][p], p) : p \in DOMAIN db.content[e]} :
                      e \in Evidence \ {image}},
     confidence : 1 .. FullMatch - 1]

Matches ==
  LET here == RevRel(Here, place)
  IN IF Cardinality(here) < 2 THEN Partial
     ELSE {[files |-> here, confidence |-> FullMatch]}

(* Mutant: places that have been sent already are sent again.              *)
MutSimilar == {p \in Places \ {place} : RevRel(Here, p) \ {image} # {}}

(* Where else the chunk is, in other evidence files.                       *)
Similar == {p \in Places \ (seen \cup {place}) : RevRel(Here, p) \ {image} # {}}

Elsewhere(p) == RevRel(Here, p) \ {image}

(* Every place with the chunk counts as seen, also those where the file    *)
(* itself has another chunk.                                               *)
Generate ==
  /\ Looking /\ (deep \/ Cardinality(RevRel(Here, place)) >= 2)
  /\ \E m \in Matches :
       gen' = [at |-> place, confidence |-> m.confidence,
               revmap |->
                 [p \in Similar \cup {q \in {place} : m.files # {}} |->
                    IF p = place THEN m.files ELSE Elsewhere(p)]]
  /\ seen' = seen \cup {place} \cup {p \in Places : RevRel(Here, p) # {}}
  /\ gpc' = "send"
  /\ UNCHANGED <<Consumer, place, faults>>

GeneratorFails ==
  /\ Looking
  /\ Fault
  /\ gpc' = "sendErr"
  /\ UNCHANGED <<Consumer, place, seen, gen>>

CloseGenerator ==
  /\ Generating /\ place > db.last[input]
  /\ gpc' = "closed"
  /\ UNCHANGED <<Consumer, place, seen, gen, faults>>

-----------------------------------------------------------------------------
(* getNearFile.                                                            *)

Take ==
  /\ main = "range" /\ gpc = "send"
  /\ near' = gen /\ sent' = sent \cup {gen}
  /\ gpc' = "next" /\ place' = place + 1
  /\ main' = "room"
  /\ UNCHANGED <<given, seen, gen, active, work, idmap, faults>>

TakeError ==
  /\ main = "range" /\ gpc = "sendErr"
  /\ near' = None
  /\ gpc' = "gone"
  /\ main' = "room"
  /\ UNCHANGED <<given, place, seen, gen, active, work, idmap, sent, faults>>

RangeEnds ==
  /\ main = "range" /\ gpc = "closed"
  /\ main' = "drain"
  /\ UNCHANGED <<given, generator, near, active, work, idmap, sent, faults>>

Ready(w) == w \in DOMAIN work /\ work[w].at \in {"ok", "error"}
Gone(w) == work' = [work EXCEPT ![w].at = "gone"]
NeedsReport ==
  \/ main = "room" /\ active > MaxThreads
  \/ main = "drain" /\ active > 0

(* Mutant: reports of an error count like the others.                      *)
MutReceive(w) ==
  /\ NeedsReport /\ Ready(w)
  /\ Gone(w)
  /\ active' = active - 1
  /\ main' = IF main = "room" THEN "start" ELSE main
  /\ UNCHANGED <<given, generator, near, idmap, sent, faults>>

(* A report; after an error, the receive that is to return it takes the    *)
(* next one.                                                               *)
Receive(w) ==
  /\ NeedsReport /\ Ready(w)
  /\ Gone(w)
  /\ IF work[w].at = "ok"
       THEN /\ active' = active - 1
            /\ main' = IF main = "room" THEN "start" ELSE main
       ELSE main' = "second" /\ UNCHANGED active
  /\ UNCHANGED <<given, generator, near, idmap, sent, faults>>

(* If that is no error, the caller goes on with a map that is nil.         *)
SecondReceive(w) ==
  /\ main = "second" /\ Ready(w)
  /\ Gone(w)
  /\ main' = IF work[w].at = "error" THEN "failed" ELSE "panic"
  /\ UNCHANGED <<given, generator, near, active, idmap, sent, faults>>

NoWait ==
  /\ main = "room" /\ active <= MaxThreads
  /\ main' = "start"
  /\ UNCHANGED <<given, generator, near, active, work, idmap, sent, faults>>

GeneratorFailed ==
  /\ main = "start" /\ near = None
  /\ main' = "failed"
  /\ UNCHANGED <<given, generator, near, active, work, idmap, sent, faults>>

Single(g) == Cardinality(DOMAIN g.revmap) = 1

(* Mutant: counted as active all the same.                                 *)
MutPassOver ==
  /\ main = "start" /\ near # None /\ Single(near)
  /\ active' = active + 1
  /\ main' = "range"
  /\ UNCHANGED <<given, generator, near, work, idmap, sent, faults>>

(* A chunk that is at one place only is passed over, however many evidence *)
(* files have it there.                                                    *)
PassOver ==
  /\ main = "start" /\ near # None /\ Single(near)
  /\ main' = "range"
  /\ UNCHANGED <<given, generator, near, active, work, idmap, sent, faults>>

ToCount(g) ==
  {pe \in (DOMAIN g.revmap) \X Evidence :
     pe[2] \in g.revmap[pe[1]] /\ pe[2] # input}

Spawn ==
  /\ main = "start" /\ near # None /\ ~Single(near)
  /\ work' = [w \in DOMAIN work \cup {near.at} |->
       IF w = near.at
         THEN [at |-> "count", left |-> ToCount(near),
               confidence |-> near.confidence]
         ELSE work[w]]
  /\ active' = active + 1
  /\ main' = "range"
  /\ UNCHANGED <<given, generator, near, idmap, sent, faults>>

Drained ==
  /\ main = "drain" /\ active = 0
  /\ main' = "confidence"
  /\ UNCHANGED <<given, generator, near, active, work, idmap, sent, faults>>

(* updateConfidence replaces each value by its percentage of the file.     *)
UpdateConfidence ==
  /\ main = "confidence"
  /\ main' = "done"
  /\ UNCHANGED <<given, generator, near, active, work, idmap, sent, faults>>

UpdateFails ==
  /\ main = "confidence"
  /\ Fault
  /\ main' = "failed"
  /\ UNCHANGED <<given, generator, near, active, work, idmap, sent>>

-----------------------------------------------------------------------------
(* countRList: the counting goroutine.                                     *)

InRange(id, p) == {f \in Children(id) : p \in db.inside[id][f]}

(* countIdxFile, and countPartiFile below: the children in range, and the  *)
(* parent if the last one looked at is not, and all before it were.        *)
(* Children are looked at in any order.                                    *)
IdxCounts(f, p) ==
  LET out == Children(f) \ InRange(f, p)
  IN {InRange(f, p)} \cup
     (IF Cardinality(out) = 1 THEN {InRange(f, p) \cup {f}} ELSE {})

MustCountParent(f, p) == Cardinality(Children(f)) = 1 /\ InRange(f, p) = {}

IdxFile(f, p) ==
  IF Children(f) = {} \/ MustCountParent(f, p) THEN {{f}} ELSE IdxCounts(f, p)

PartiFile(e, p) ==
  LET counted == InRange(e, p)
      out == Children(e) \ counted
      each == {UNION {pick[f] : f \in counted} :
                 pick \in {pick \in [counted -> SUBSET Ids] :
                             \A f \in counted : pick[f] \in IdxFile(f, p)}}
  IN IF Cardinality(out) = 1 /\ \A f \in counted : Children(f) # {}
       THEN {ids \cup {e} : ids \in each} \cup (IF counted = {} THEN {} ELSE each)
       ELSE each

(* Mutant: the file itself is left out as well.                            *)
MutCounts(e, p) == {ids \ {input} : ids \in PartiFile(e, p)}

(* countEviFile: the sets of ids that may be counted for a place in an     *)
(* evidence file.  countFile compares the encoded hash of a file with the  *)
(* bare one of the input, so that no file is taken for the input.          *)
Counts(e, p) == IF Children(e) = {} THEN {{e}} ELSE PartiFile(e, p)

Counting(w) == Running /\ w \in DOMAIN work /\ work[w].at = "count"

Missing(e, p) == InRange(e, p) \cap db.missing # {}

Count(w, e, p) ==
  /\ Counting(w) /\ <<p, e>> \in work[w].left
  /\ ~Missing(e, p)
  /\ \E ids \in Counts(e, p) :
       idmap' = [id \in Ids |->
         IF id \in ids THEN idmap[id] + work[w].confidence ELSE idmap[id]]
  /\ work' = [work EXCEPT ![w].left = @ \ {<<p, e>>}]
  /\ UNCHANGED <<given, generator, main, near, active, sent, faults>>

CountFails(w, e, p) ==
  /\ Counting(w) /\ <<p, e>> \in work[w].left
  /\ (Missing(e, p) /\ UNCHANGED faults) \/ Fault
  /\ work' = [work EXCEPT ![w].at = "error"]
  /\ UNCHANGED <<given, generator, main, near, active, idmap, sent>>

CountEnds(w) ==
  /\ Counting(w) /\ work[w].left = {}
  /\ work' = [work EXCEPT ![w].at = "ok"]
  /\ UNCHANGED <<given, generator, main, near, active, idmap, sent, faults>>

-----------------------------------------------------------------------------
GeneratorStep ==
  SkipSeen \/ SkipUnique \/ Generate \/ GeneratorFails \/ CloseGenerator

MainStep ==
  \/ Take \/ TakeError \/ RangeEnds \/ NoWait \/ GeneratorFailed \/ PassOver
  \/ Spawn \/ Drained \/ UpdateConfidence \/ UpdateFails
  \/ \E w \in DOMAIN work : (Receive(w) \/ SecondReceive(w))

CountStep ==
  \E w \in DOMAIN work :
    \/ \E e \in Evidence, p \in Places : (Count(w, e, p) \/ CountFails(w, e, p))
    \/ CountEnds(w)

Next == GeneratorStep \/ MainStep \/ CountStep

Spec == Init /\ [][Next]_vars

(* A goroutine that can run does run.  Nothing is ever repeated, so that   *)
(* it is enough to ask that some goroutine runs.                           *)
FairSpec == Spec /\ WF_vars(Next)

-----------------------------------------------------------------------------
(* Types; no more than one goroutine over the limit is ever active.        *)
TypeOK ==
  /\ db \in Databases /\ input \in Ids /\ image \in Evidence /\ deep \in BOOLEAN
  /\ gpc \in {"next", "send", "sendErr", "closed", "gone"}
  /\ place \in Nat /\ seen \subseteq Places
  /\ main \in Over \cup {"range", "room", "start", "second", "drain",
                         "confidence"}
  /\ active \in 0 .. MaxThreads + 1
  /\ DOMAIN work \subseteq Places
  /\ work \in [DOMAIN work -> [at : {"count", "ok", "error", "gone"},
                               left : SUBSET (Places \X Evidence),
                               confidence : Int]]
  /\ idmap \in [Ids -> Int]
  /\ faults \in 0 .. MaxFaults

(* A result is only ever given when no call has failed, the whole file has *)
(* been looked at and every counting goroutine has ended and reported.     *)
ResultOfEverything ==
  main \in {"confidence", "done"} =>
    /\ faults = 0 /\ gpc = "closed"
    /\ \A w \in DOMAIN work : work[w].at = "gone" /\ work[w].left = {}

(* The places of what has been sent for one chunk are not among those of   *)
(* another: no place in an evidence file is counted twice.                 *)
PlacesOnce ==
  \A g, h \in sent : g # h => DOMAIN g.revmap \cap DOMAIN h.revmap = {}

(* What is counted for an evidence file without partitions is what was     *)
(* sent for it, whatever the order in which the goroutines count: the map  *)
(* of the result has lost nothing and counts nothing twice.                *)
Expected(e) ==
  LET places == {gp \in sent \X Places :
                   /\ gp[2] \in DOMAIN gp[1].revmap /\ e \in gp[1].revmap[gp[2]]
                   /\ ~Single(gp[1]) /\ e # input}
      of(n) == {gp \in places : gp[1].confidence = n}
  IN FullMatch * (Cardinality(of(FullMatch)) - Cardinality(of(0 - FullMatch)))
       + Cardinality({gpn \in places \X (1 .. FullMatch - 1) :
                        gpn[1][1].confidence \in gpn[2] .. FullMatch - 1})

CountedRight ==
  main = "done" =>
    \A e \in Evidence : Children(e) = {} => idmap[e] = Expected(e)

(* NearInFile returns, unless a counting goroutine fails: then the receive *)
(* that follows may have nobody to wait for.                               *)
NearEnds == <>(main \in Over \/ main = "second")
=============================================================================
