----------------------------- MODULE NearProofs -----------------------------
(***************************************************************************)
(* Proofs about looking for related files, in any database, with any       *)
(* number of counting goroutines and of failures.                          *)
(***************************************************************************)
EXTENDS Near, TLAPS, FiniteSetTheorems

-----------------------------------------------------------------------------
(* What the generator has sent, or is about to send.                       *)

Apart(g, h) == DOMAIN g.revmap \cap DOMAIN h.revmap = {}
Generated(g) ==
  g.at \in Places /\ g.confidence \in Int /\ DOMAIN g.revmap \subseteq seen

SentGood ==
  /\ \A g \in sent : DOMAIN g.revmap \subseteq seen
  /\ \A g, h \in sent : g # h => Apart(g, h)
  /\ gpc = "send" => /\ Generated(gen) /\ gen.at = place
                     /\ \A g \in sent : Apart(gen, g)

(* What is received has a goroutine of its own to come.                    *)
Holding == main \in {"room", "start"}
FreshNear ==
  /\ \A w \in DOMAIN work : w < place
  /\ Holding /\ gpc = "gone" => near = None
  /\ Holding /\ gpc # "gone" =>
       /\ Generated(near) /\ near.at < place
       /\ \A w \in DOMAIN work : w < near.at

(* Until an error is received, active is the number of goroutines that     *)
(* have not been heard of.                                                 *)
Unheard == {w \in DOMAIN work : work[w].at # "gone"}
Troubled == main \in {"second", "failed", "panic"}
Counted ==
  /\ IsFiniteSet(DOMAIN work)
  /\ ~Troubled => active = Cardinality(Unheard)
  /\ main = "start" => active <= MaxThreads

(* Every failed call is still to be heard of, and every goroutine that was *)
(* heard of has ended well.                                                *)
Told ==
  /\ faults > 0 /\ ~Troubled =>
       gpc \in {"sendErr", "gone"} \/ \E w \in DOMAIN work : work[w].at = "error"
  /\ \A w \in DOMAIN work :
       /\ work[w].at = "ok" => work[w].left = {}
       /\ work[w].at = "gone" => work[w].left = {} \/ Troubled
  /\ gpc = "gone" => Holding \/ Troubled
  /\ main \in {"drain", "confidence", "done"} => gpc = "closed"
  /\ main \in {"confidence", "done"} => active = 0

Given ==
  /\ db \in Databases /\ input \in db.inputs /\ image \in db.images[input]
  /\ place >= db.first[input]

IInv == TypeOK /\ Given /\ SentGood /\ FreshNear /\ Counted /\ Told

LEMMA PlaceTypes ==
  ASSUME Given
  PROVE  /\ Places \subseteq Nat /\ input \in Ids /\ image \in Evidence
         /\ db.first[input] \in Nat /\ db.last[input] \in Nat
         /\ db.first[input] .. db.last[input] \subseteq Places
<1>1. /\ db \in Databases /\ input \in db.inputs /\ image \in db.images[input]
  BY DEF Given
<1>2. /\ \A e \in DOMAIN db.content : DOMAIN db.content[e] \subseteq Nat
      /\ input \in DOMAIN db.first /\ db.first[input] \in Nat /\ db.last[input] \in Nat
      /\ image \in DOMAIN db.content
      /\ db.first[input] .. db.last[input] \subseteq DOMAIN db.content[image]
  BY <1>1, DatabasesAssumption
<1>3. DOMAIN db.content[image] \in {DOMAIN db.content[e] : e \in DOMAIN db.content}
  BY <1>2
<1>4. DOMAIN db.content[image] \subseteq Places
  BY <1>3 DEF Places, Evidence
<1>5. Places \subseteq Nat
  BY <1>2 DEF Places, Evidence
<1> QED
  BY <1>2, <1>4, <1>5 DEF Evidence, Ids

LEMMA InitInvariant == Init => IInv
<1> SUFFICES ASSUME Init PROVE IInv
  OBVIOUS
<1>1. DOMAIN work = {}
  BY DEF Init
<1>2. /\ db \in Databases /\ input \in db.inputs /\ image \in db.images[input]
      /\ place = db.first[input]
  BY DEF Init
<1>3. /\ input \in DOMAIN db.first /\ db.first[input] \in Nat
  BY <1>2, DatabasesAssumption
<1>4. Given
  BY <1>2, <1>3 DEF Given
<1>5. TypeOK
  <2>1. work \in [DOMAIN work -> [at : {"count", "ok", "error", "gone"},
                               left : SUBSET (Places \X Evidence),
                               confidence : Int]]
    BY <1>1 DEF Init
  <2> QED
    BY <1>1, <1>2, <1>3, <1>4, <2>1, PlaceTypes, BoundsAssumption DEF Init,
       TypeOK
<1>6. SentGood /\ FreshNear
  BY <1>1 DEF Init, SentGood, FreshNear, Holding
<1>7. Unheard = {}
  BY <1>1 DEF Unheard
<1>8. Counted
  BY <1>1, <1>7, FS_EmptySet DEF Init, Counted
<1>9. Told
  BY <1>1 DEF Init, Told
<1> QED
  BY <1>4, <1>5, <1>6, <1>8, <1>9 DEF IInv

-----------------------------------------------------------------------------
(* The generator.                                                          *)

LEMMA GeneratorKeeps ==
  ASSUME IInv, UNCHANGED Consumer, gpc = "next", Running,
         place' \in {place, place + 1},
         seen \subseteq seen', seen' \subseteq Places,
         gpc' \in {"next", "send", "sendErr", "closed"},
         gpc' = "send" => /\ Generated(gen)' /\ gen'.at = place'
                          /\ \A g \in sent : Apart(gen', g),
         UNCHANGED faults \/ (Fault /\ gpc' = "sendErr")
  PROVE  IInv'
<1>1. /\ UNCHANGED <<db, input, image, deep, main, near, active, work, idmap, sent>>
      /\ TypeOK /\ Given /\ SentGood /\ FreshNear /\ Counted /\ Told
  BY DEF IInv, Consumer, given
<1>2. Places' = Places /\ Evidence' = Evidence /\ Ids' = Ids
  BY <1>1 DEF Places, Evidence, Ids
<1>3. place \in Nat /\ place' \in Nat /\ place' >= place
  BY <1>1 DEF TypeOK
<1>4. Given'
  BY <1>1, <1>3, PlaceTypes DEF Given
<1>5. faults' \in 0 .. MaxFaults
  BY <1>1, BoundsAssumption DEF Fault, TypeOK
<1>6. TypeOK'
  BY <1>1, <1>2, <1>3, <1>5 DEF TypeOK
<1>7. SentGood'
  BY <1>1 DEF SentGood
<1>8. FreshNear'
  <2>1. \A w \in DOMAIN work : w \in Nat
    BY <1>1, PlaceTypes DEF TypeOK
  <2>2. Generated(near) => Generated(near)' /\ near.at \in Nat
    BY <1>1, <1>2, PlaceTypes DEF Generated
  <2> QED
    BY <2>1, <2>2, <1>1, <1>3 DEF FreshNear, Holding
<1>9. Counted'
  BY <1>1 DEF Counted, Unheard, Troubled
<1>10. Told'
  BY <1>1 DEF Told, Troubled, Holding
<1> QED
  BY <1>4, <1>6, <1>7, <1>8, <1>9, <1>10 DEF IInv

LEMMA GeneratorInvariant ==
  ASSUME IInv, GeneratorStep
  PROVE  IInv'
<1>1. TypeOK /\ Given /\ SentGood /\ place \in Nat /\ seen \subseteq Places
  BY DEF IInv, TypeOK
<1>2. place <= db.last[input] => place \in Places
  BY <1>1, PlaceTypes DEF Given
<1>3. CASE SkipSeen
  BY <1>1, <1>3, GeneratorKeeps DEF SkipSeen, Generating
<1>4. CASE SkipUnique
  BY <1>1, <1>2, <1>4, GeneratorKeeps DEF SkipUnique, Looking, Generating
<1>5. CASE Generate
  <2>1. /\ gpc = "next" /\ Running /\ gpc' = "send" /\ place' = place
        /\ place \in Places /\ place \notin seen
        /\ UNCHANGED Consumer /\ UNCHANGED faults
        /\ seen' = seen \cup {place} \cup {p \in Places : RevRel(Here, p) # {}}
    BY <1>2, <1>5 DEF Generate, Looking, Generating
  <2>2. PICK m \in Matches :
          gen' = [at |-> place, confidence |-> m.confidence,
                  revmap |->
                    [p \in Similar \cup {q \in {place} : m.files # {}} |->
                       IF p = place THEN m.files ELSE Elsewhere(p)]]
    BY <1>5 DEF Generate
  <2>3. m.confidence \in Int
    <3>1. CASE m \in Partial
      BY <3>1, BoundsAssumption DEF Partial, NoPartial
    <3>2. CASE m \notin Partial
      <4>1. m = [files |-> RevRel(Here, place), confidence |-> FullMatch]
        BY <3>2, <2>2 DEF Matches
      <4> QED
        BY <4>1, BoundsAssumption
    <3> QED
      BY <3>1, <3>2
  <2>4. /\ gen'.at = place /\ gen'.confidence = m.confidence
        /\ DOMAIN gen'.revmap = Similar \cup {q \in {place} : m.files # {}}
    BY <2>2
  <2>5. Similar \subseteq seen' /\ Similar \cap seen = {}
    BY <2>1 DEF Similar
  <2>6. DOMAIN gen'.revmap \subseteq seen' /\ DOMAIN gen'.revmap \cap seen = {}
    BY <2>1, <2>4, <2>5
  <2>7. Places' = Places
    BY <2>1 DEF Consumer, given, Places, Evidence
  <2>8. Generated(gen)'
    BY <2>1, <2>3, <2>4, <2>6, <2>7 DEF Generated
  <2>9. \A g \in sent : Apart(gen', g)
    BY <1>1, <2>6 DEF SentGood, Apart
  <2>10. seen \subseteq seen' /\ seen' \subseteq Places
    BY <1>1, <2>1
  <2> QED
    BY <2>1, <2>4, <2>8, <2>9, <2>10, GeneratorKeeps
<1>6. CASE GeneratorFails
  BY <1>1, <1>6, GeneratorKeeps DEF GeneratorFails, Looking, Generating
<1>7. CASE CloseGenerator
  BY <1>1, <1>7, GeneratorKeeps DEF CloseGenerator, Generating
<1> QED
  BY <1>3, <1>4, <1>5, <1>6, <1>7 DEF GeneratorStep

-----------------------------------------------------------------------------
(* The counting goroutines.                                                *)

Worker == [at : {"count", "ok", "error", "gone"},
           left : SUBSET (Places \X Evidence), confidence : Int]

(* A goroutine that has been heard of is one less to wait for.             *)
LEMMA OneLess ==
  ASSUME IsFiniteSet(DOMAIN work), NEW w \in DOMAIN work, work[w].at # "gone",
         work \in [DOMAIN work -> Worker], Gone(w)
  PROVE  /\ DOMAIN work' = DOMAIN work /\ work' \in [DOMAIN work -> Worker]
         /\ work'[w].at = "gone" /\ work'[w].left = work[w].left
         /\ \A v \in DOMAIN work : v # w => work'[v] = work[v]
         /\ Cardinality(Unheard)' = Cardinality(Unheard) - 1
<1>1. work' = [work EXCEPT ![w] = [work[w] EXCEPT !.at = "gone"]]
  BY DEF Gone
<1>2. work[w] \in Worker /\ [work[w] EXCEPT !.at = "gone"] \in Worker
  BY DEF Worker
<1>3. /\ DOMAIN work' = DOMAIN work /\ work' \in [DOMAIN work -> Worker]
      /\ work'[w].at = "gone" /\ work'[w].left = work[w].left
      /\ \A v \in DOMAIN work : v # w => work'[v] = work[v]
  BY <1>1, <1>2 DEF Worker
<1>4. Unheard' = Unheard \ {w} /\ w \in Unheard
  BY <1>3 DEF Unheard
<1>5. IsFiniteSet(Unheard)
  BY FS_Subset DEF Unheard
<1> QED
  BY <1>3, <1>4, <1>5, FS_RemoveElement

LEMMA SameUnheard ==
  ASSUME DOMAIN work' = DOMAIN work,
         \A w \in DOMAIN work : work'[w].at = "gone" <=> work[w].at = "gone"
  PROVE  Unheard' = Unheard
BY DEF Unheard

(* One goroutine counts on, or ends.                                       *)
LEMMA CountKeeps ==
  ASSUME IInv, NEW w \in DOMAIN work, work[w].at = "count", Running,
         UNCHANGED <<given, generator, main, near, active, sent>>,
         DOMAIN work' = DOMAIN work, work' \in [DOMAIN work -> Worker],
         \A v \in DOMAIN work : v # w => work'[v] = work[v],
         work'[w].at \in {"count", "ok", "error"},
         work'[w].at = "ok" => work'[w].left = {},
         idmap' \in [Ids -> Int],
         UNCHANGED faults \/ (Fault /\ work'[w].at = "error")
  PROVE  IInv'
<1>1. /\ UNCHANGED <<db, input, image, deep, gpc, place, seen, gen, main, near, active, sent>>
      /\ TypeOK /\ Given /\ SentGood /\ FreshNear /\ Counted /\ Told
  BY DEF IInv, given, generator
<1>2. Places' = Places /\ Evidence' = Evidence /\ Ids' = Ids
  BY <1>1 DEF Places, Evidence, Ids
<1>3. faults' \in 0 .. MaxFaults
  BY <1>1, BoundsAssumption DEF Fault, TypeOK
<1>4. TypeOK'
  BY <1>1, <1>2, <1>3 DEF TypeOK, Worker
<1>5. Given' /\ SentGood'
  BY <1>1, <1>2 DEF Given, SentGood, Generated
<1>6. FreshNear'
  BY <1>1, <1>2 DEF FreshNear, Holding, Generated
<1>7. Unheard' = Unheard
  BY SameUnheard
<1>8. Counted'
  BY <1>1, <1>7 DEF Counted, Troubled
<1>9. Told'
  <2>1. faults' > 0 /\ ~Troubled => gpc' \in {"sendErr", "gone"} \/ \E v \in DOMAIN work : work'[v].at = "error"
    <3>1. CASE work'[w].at = "error"
      BY <3>1
    <3>2. CASE UNCHANGED faults /\ work'[w].at # "error"
      BY <3>2, <1>1 DEF Told
    <3> QED
      BY <3>1, <3>2
  <2>2. \A v \in DOMAIN work :
          /\ work'[v].at = "ok" => work'[v].left = {}
          /\ work'[v].at = "gone" => work'[v].left = {} \/ Troubled
    BY <1>1 DEF Told
  <2> QED
    BY <2>1, <2>2, <1>1 DEF Told, Troubled, Holding
<1> QED
  BY <1>4, <1>5, <1>6, <1>8, <1>9 DEF IInv

LEMMA CountInvariant ==
  ASSUME IInv, CountStep
  PROVE  IInv'
<1>1. TypeOK /\ Given /\ work \in [DOMAIN work -> Worker]
  BY DEF IInv, TypeOK, Worker
<1>2. PICK w \in DOMAIN work :
        \/ \E e \in Evidence, p \in Places : (Count(w, e, p) \/ CountFails(w, e, p))
        \/ CountEnds(w)
  BY DEF CountStep
<1>3. work[w] \in Worker
  BY <1>1
<1>4. ASSUME NEW e \in Evidence, NEW p \in Places, Count(w, e, p) PROVE IInv'
  <2>1. /\ Running /\ work[w].at = "count"
        /\ work' = [work EXCEPT ![w] = [work[w] EXCEPT !.left = @ \ {<<p, e>>}]]
        /\ UNCHANGED <<given, generator, main, near, active, sent, faults>>
    BY <1>4 DEF Count, Counting
  <2>2. idmap' \in [Ids -> Int]
    <3>1. PICK ids \in Counts(e, p) :
            idmap' = [id \in Ids |->
              IF id \in ids THEN idmap[id] + work[w].confidence ELSE idmap[id]]
      BY <1>4 DEF Count
    <3>2. work[w].confidence \in Int /\ idmap \in [Ids -> Int]
      BY <1>1, <1>3 DEF Worker, TypeOK
    <3> QED
      BY <3>1, <3>2
  <2>3. [work[w] EXCEPT !.left = @ \ {<<p, e>>}] \in Worker
    BY <1>3 DEF Worker
  <2>4. /\ DOMAIN work' = DOMAIN work /\ work' \in [DOMAIN work -> Worker]
        /\ \A v \in DOMAIN work : v # w => work'[v] = work[v]
        /\ work'[w].at = "count"
    BY <1>1, <1>3, <2>1, <2>3 DEF Worker
  <2> QED
    BY <2>1, <2>2, <2>4, CountKeeps
<1>5. ASSUME NEW e \in Evidence, NEW p \in Places, CountFails(w, e, p) PROVE IInv'
  <2>1. /\ Running /\ work[w].at = "count" /\ (UNCHANGED faults \/ Fault)
        /\ work' = [work EXCEPT ![w] = [work[w] EXCEPT !.at = "error"]]
        /\ UNCHANGED <<given, generator, main, near, active, idmap, sent>>
    BY <1>5 DEF CountFails, Counting
  <2>2. [work[w] EXCEPT !.at = "error"] \in Worker
    BY <1>3 DEF Worker
  <2>3. /\ DOMAIN work' = DOMAIN work /\ work' \in [DOMAIN work -> Worker]
        /\ \A v \in DOMAIN work : v # w => work'[v] = work[v]
        /\ work'[w].at = "error"
    BY <1>1, <1>3, <2>1, <2>2 DEF Worker
  <2>4. idmap' \in [Ids -> Int]
    BY <1>1, <2>1 DEF TypeOK
  <2> QED
    BY <2>1, <2>3, <2>4, CountKeeps
<1>6. CASE CountEnds(w)
  <2>1. /\ Running /\ work[w].at = "count" /\ work[w].left = {}
        /\ work' = [work EXCEPT ![w] = [work[w] EXCEPT !.at = "ok"]]
        /\ UNCHANGED <<given, generator, main, near, active, idmap, sent, faults>>
    BY <1>6 DEF CountEnds, Counting
  <2>2. [work[w] EXCEPT !.at = "ok"] \in Worker
    BY <1>3 DEF Worker
  <2>3. /\ DOMAIN work' = DOMAIN work /\ work' \in [DOMAIN work -> Worker]
        /\ \A v \in DOMAIN work : v # w => work'[v] = work[v]
        /\ work'[w].at = "ok" /\ work'[w].left = {}
    BY <1>1, <1>3, <2>1, <2>2 DEF Worker
  <2>4. idmap' \in [Ids -> Int]
    BY <1>1, <2>1 DEF TypeOK
  <2> QED
    BY <2>1, <2>3, <2>4, CountKeeps
<1> QED
  BY <1>2, <1>4, <1>5, <1>6

-----------------------------------------------------------------------------
(* The collector.                                                          *)

(* Steps of the collector that receive nothing and start nothing.          *)
LEMMA MainKeeps ==
  ASSUME IInv, UNCHANGED <<given, generator, near, active, work, idmap, sent>>,
         UNCHANGED faults \/ (Fault /\ Troubled'),
         Troubled => Troubled',
         main' \in Over \cup {"range", "room", "start", "second", "drain", "confidence"},
         Holding' => Holding,
         main' = "start" => active <= MaxThreads,
         gpc = "gone" => Holding' \/ Troubled',
         main' \in {"drain", "confidence", "done"} => gpc = "closed",
         main' \in {"confidence", "done"} => active = 0
  PROVE  IInv'
<1>1. /\ UNCHANGED <<db, input, image, deep, gpc, place, seen, gen, near, active, work, idmap, sent>>
      /\ TypeOK /\ Given /\ SentGood /\ FreshNear /\ Counted /\ Told
  BY DEF IInv, given, generator
<1>2. Places' = Places /\ Evidence' = Evidence /\ Ids' = Ids
  BY <1>1 DEF Places, Evidence, Ids
<1>3. faults' \in 0 .. MaxFaults
  BY <1>1, BoundsAssumption DEF Fault, TypeOK
<1>4. TypeOK'
  BY <1>1, <1>2, <1>3 DEF TypeOK
<1>5. Given' /\ SentGood'
  BY <1>1, <1>2 DEF Given, SentGood, Generated
<1>6. FreshNear'
  BY <1>1, <1>2 DEF FreshNear, Generated
<1>7. Counted'
  BY <1>1 DEF Counted, Unheard
<1>8. Told'
  BY <1>1 DEF Told
<1> QED
  BY <1>4, <1>5, <1>6, <1>7, <1>8 DEF IInv

LEMMA TakeKeeps ==
  ASSUME IInv, Take
  PROVE  IInv'
<1>1. /\ main = "range" /\ gpc = "send" /\ near' = gen /\ sent' = sent \cup {gen}
      /\ gpc' = "next" /\ place' = place + 1 /\ main' = "room"
      /\ UNCHANGED <<db, input, image, deep, seen, gen, active, work, idmap, faults>>
      /\ TypeOK /\ Given /\ SentGood /\ FreshNear /\ Counted /\ Told
  BY DEF IInv, Take, given
<1>2. Places' = Places /\ Evidence' = Evidence /\ Ids' = Ids /\ place \in Nat
  BY <1>1 DEF Places, Evidence, Ids, TypeOK
<1>3. TypeOK'
  BY <1>1, <1>2 DEF TypeOK
<1>4. Given'
  BY <1>1, <1>2, PlaceTypes DEF Given
<1>5. SentGood'
  <2>1. /\ Generated(gen) /\ \A g \in sent : Apart(gen, g) /\ Apart(g, gen)
    BY <1>1 DEF SentGood, Apart
  <2>2. \A g \in sent' : DOMAIN g.revmap \subseteq seen
    BY <1>1, <2>1 DEF SentGood, Generated
  <2>3. \A g, h \in sent' : g # h => Apart(g, h)
    BY <1>1, <2>1 DEF SentGood
  <2> QED
    BY <1>1, <2>2, <2>3 DEF SentGood
<1>6. FreshNear'
  <2>1. Generated(gen) /\ gen.at = place
    BY <1>1 DEF SentGood
  <2>2. Generated(near)'
    BY <1>1, <1>2, <2>1 DEF Generated
  <2>3. \A w \in DOMAIN work : w < place /\ w \in Nat
    BY <1>1, PlaceTypes DEF FreshNear, TypeOK
  <2> QED
    BY <1>1, <1>2, <2>1, <2>2, <2>3 DEF FreshNear, Holding
<1>7. Counted'
  BY <1>1 DEF Counted, Unheard, Troubled
<1>8. Told'
  BY <1>1 DEF Told, Troubled, Holding
<1> QED
  BY <1>3, <1>4, <1>5, <1>6, <1>7, <1>8 DEF IInv

LEMMA TakeErrorKeeps ==
  ASSUME IInv, TakeError
  PROVE  IInv'
<1>1. /\ main = "range" /\ gpc = "sendErr" /\ near' = None /\ gpc' = "gone" /\ main' = "room"
      /\ UNCHANGED <<db, input, image, deep, place, seen, gen, active, work, idmap, sent, faults>>
      /\ TypeOK /\ Given /\ SentGood /\ FreshNear /\ Counted /\ Told
  BY DEF IInv, TakeError, given
<1>2. Places' = Places /\ Evidence' = Evidence /\ Ids' = Ids
  BY <1>1 DEF Places, Evidence, Ids
<1>3. TypeOK' /\ Given'
  BY <1>1, <1>2 DEF TypeOK, Given
<1>4. SentGood' /\ FreshNear'
  BY <1>1 DEF SentGood, FreshNear, Holding
<1>5. Counted' /\ Told'
  BY <1>1 DEF Counted, Unheard, Troubled, Told, Holding
<1> QED
  BY <1>3, <1>4, <1>5 DEF IInv

LEMMA ReceiveKeeps ==
  ASSUME IInv, NEW w \in DOMAIN work, Receive(w) \/ SecondReceive(w)
  PROVE  IInv'
<1>1. /\ UNCHANGED <<db, input, image, deep, gpc, place, seen, gen, near, idmap, sent, faults>>
      /\ TypeOK /\ Given /\ SentGood /\ FreshNear /\ Counted /\ Told
      /\ work[w].at \in {"ok", "error"} /\ Gone(w)
  BY DEF IInv, Receive, SecondReceive, given, generator, Ready
<1>2. Places' = Places /\ Evidence' = Evidence /\ Ids' = Ids
  BY <1>1 DEF Places, Evidence, Ids
<1>3. work \in [DOMAIN work -> Worker] /\ IsFiniteSet(DOMAIN work)
  BY <1>1 DEF TypeOK, Worker, Counted
<1>4. /\ DOMAIN work' = DOMAIN work /\ work' \in [DOMAIN work -> Worker]
      /\ work'[w].at = "gone" /\ work'[w].left = work[w].left
      /\ \A v \in DOMAIN work : v # w => work'[v] = work[v]
      /\ Cardinality(Unheard)' = Cardinality(Unheard) - 1
  BY <1>1, <1>3, OneLess
<1>5. Given' /\ SentGood'
  BY <1>1, <1>2 DEF Given, SentGood, Generated
<1>6. IsFiniteSet(Unheard') /\ Cardinality(Unheard') \in Nat
  BY <1>3, <1>4, FS_Subset, FS_CardinalityType DEF Unheard
<1>7. active \in 0 .. MaxThreads + 1 /\ MaxThreads \in Nat
  BY <1>1, BoundsAssumption DEF TypeOK
<1>8. CASE Receive(w) /\ work[w].at = "ok"
  <2>1. /\ active' = active - 1 /\ main' = IF main = "room" THEN "start" ELSE main
        /\ main = "room" \/ main = "drain"
    BY <1>8 DEF Receive, NeedsReport
  <2>2. active = Cardinality(Unheard)
    BY <1>1, <2>1 DEF Counted, Troubled
  <2>3. active' = Cardinality(Unheard')
    BY <1>4, <2>1, <2>2
  <2>4. active' \in 0 .. MaxThreads + 1 /\ active' <= MaxThreads
    BY <1>6, <1>7, <2>1, <2>3
  <2>5. TypeOK'
    BY <1>1, <1>2, <1>4, <2>1, <2>4 DEF TypeOK, Worker
  <2>6. FreshNear'
    BY <1>1, <1>2, <1>4, <2>1 DEF FreshNear, Holding, Generated
  <2>7. Counted'
    BY <1>3, <1>4, <2>1, <2>3, <2>4 DEF Counted
  <2>8. Told'
    <3>1. work[w].left = {}
      BY <1>1, <1>8 DEF Told
    <3>2. \A v \in DOMAIN work : v # w =>
            /\ work'[v].at = "ok" => work'[v].left = {}
            /\ work'[v].at = "gone" => work'[v].left = {}
      BY <1>1, <1>4, <2>1 DEF Told, Troubled
    <3>3. faults' > 0 => gpc' \in {"sendErr", "gone"} \/ \E v \in DOMAIN work : work'[v].at = "error"
      <4>1. faults > 0 => gpc \in {"sendErr", "gone"} \/ \E v \in DOMAIN work : work[v].at = "error"
        BY <1>1, <2>1 DEF Told, Troubled
      <4> QED
        BY <1>1, <1>4, <1>8, <4>1
    <3> QED
      BY <1>1, <1>4, <2>1, <3>1, <3>2, <3>3 DEF Told, Troubled, Holding
  <2> QED
    BY <1>5, <2>5, <2>6, <2>7, <2>8 DEF IInv
<1>9. CASE (Receive(w) /\ work[w].at # "ok") \/ SecondReceive(w)
  <2>1. main' \in {"second", "failed", "panic"} /\ active' = active
    BY <1>9 DEF Receive, SecondReceive
  <2>2. TypeOK'
    BY <1>1, <1>2, <1>4, <2>1 DEF TypeOK, Worker, Over
  <2>3. FreshNear' /\ Counted'
    BY <1>1, <1>3, <1>4, <2>1 DEF FreshNear, Holding, Counted, Troubled
  <2>4. Told'
    BY <1>1, <1>4, <2>1 DEF Told, Troubled
  <2> QED
    BY <1>5, <2>2, <2>3, <2>4 DEF IInv
<1> QED
  BY <1>8, <1>9

LEMMA SpawnKeeps ==
  ASSUME IInv, Spawn
  PROVE  IInv'
<1>1. /\ main = "start" /\ near # None /\ active' = active + 1 /\ main' = "range"
      /\ UNCHANGED <<db, input, image, deep, gpc, place, seen, gen, near, idmap, sent, faults>>
      /\ TypeOK /\ Given /\ SentGood /\ FreshNear /\ Counted /\ Told
  BY DEF IInv, Spawn, given, generator
<1>2. PICK n, new : /\ n = near.at
                    /\ new = [at |-> "count", left |-> ToCount(near), confidence |-> near.confidence]
  OBVIOUS
<1>3. work' = [w \in DOMAIN work \cup {n} |-> IF w = n THEN new ELSE work[w]]
  BY <1>2 DEF Spawn
<1>4. gpc # "gone" /\ Generated(near) /\ n < place /\ \A w \in DOMAIN work : w < n
  BY <1>1, <1>2 DEF FreshNear, Holding
<1>5. /\ Places' = Places /\ Evidence' = Evidence /\ Ids' = Ids
      /\ n \in Places /\ Places \subseteq Nat
  BY <1>1, <1>2, <1>4, PlaceTypes DEF Places, Evidence, Ids, Generated
<1>6. new \in Worker /\ new.at = "count"
  <2>1. DOMAIN near.revmap \subseteq Places
    BY <1>1, <1>4 DEF Generated, TypeOK
  <2>2. ToCount(near) \subseteq Places \X Evidence
    BY <2>1 DEF ToCount
  <2> QED
    BY <1>2, <1>4, <2>2 DEF Worker, Generated
<1>7. n \notin DOMAIN work
  BY <1>4, <1>5
<1>8. /\ DOMAIN work' = DOMAIN work \cup {n} /\ work'[n] = new
      /\ \A w \in DOMAIN work : work'[w] = work[w]
  BY <1>3, <1>7
<1>9. work' \in [DOMAIN work' -> Worker] /\ DOMAIN work' \subseteq Places
  BY <1>1, <1>3, <1>5, <1>6, <1>8 DEF TypeOK, Worker
<1>10. active = Cardinality(Unheard) /\ active <= MaxThreads /\ IsFiniteSet(DOMAIN work)
  BY <1>1 DEF Counted, Troubled
<1>11. IsFiniteSet(DOMAIN work') /\ active' = Cardinality(Unheard')
  <2>1. Unheard' = Unheard \cup {n} /\ n \notin Unheard
    BY <1>6, <1>7, <1>8 DEF Unheard
  <2>2. IsFiniteSet(Unheard)
    BY <1>10, FS_Subset DEF Unheard
  <2> QED
    BY <1>1, <1>8, <1>10, <2>1, <2>2, FS_AddElement
<1>12. TypeOK'
  <2>1. active' \in 0 .. MaxThreads + 1
    BY <1>1, <1>10, BoundsAssumption DEF TypeOK
  <2> QED
    BY <1>1, <1>5, <1>9, <2>1 DEF TypeOK, Worker
<1>13. Given' /\ SentGood'
  BY <1>1, <1>5 DEF Given, SentGood, Generated
<1>14. FreshNear'
  BY <1>1, <1>4, <1>8 DEF FreshNear, Holding
<1>15. Counted'
  BY <1>1, <1>11 DEF Counted
<1>16. Told'
  <2>1. \A w \in DOMAIN work' :
          /\ work'[w].at = "ok" => work'[w].left = {}
          /\ work'[w].at = "gone" => work'[w].left = {}
    BY <1>1, <1>6, <1>8 DEF Told, Troubled
  <2>2. faults' > 0 => gpc' \in {"sendErr", "gone"} \/ \E w \in DOMAIN work' : work'[w].at = "error"
    BY <1>1, <1>8 DEF Told, Troubled
  <2> QED
    BY <1>1, <1>4, <2>1, <2>2 DEF Told
<1> QED
  BY <1>12, <1>13, <1>14, <1>15, <1>16 DEF IInv

LEMMA MainInvariant ==
  ASSUME IInv, MainStep
  PROVE  IInv'
<1>1. TypeOK /\ FreshNear /\ Counted /\ Told
  BY DEF IInv
<1>2. CASE RangeEnds
  BY <1>1, <1>2, MainKeeps DEF RangeEnds, Troubled, Holding, Told
<1>3. CASE NoWait
  BY <1>1, <1>3, MainKeeps DEF NoWait, Troubled, Holding, Told
<1>4. CASE GeneratorFailed
  BY <1>1, <1>4, MainKeeps DEF GeneratorFailed, Over, Troubled, Holding, Told
<1>5. CASE PassOver
  <2>1. gpc # "gone"
    BY <1>1, <1>5 DEF PassOver, FreshNear, Holding
  <2> QED
    BY <1>1, <1>5, <2>1, MainKeeps DEF PassOver, Troubled, Holding, Told
<1>6. CASE Drained
  BY <1>1, <1>6, MainKeeps DEF Drained, Troubled, Holding, Told
<1>7. CASE UpdateConfidence
  BY <1>1, <1>7, MainKeeps DEF UpdateConfidence, Over, Troubled, Holding, Told
<1>8. CASE UpdateFails
  BY <1>1, <1>8, MainKeeps DEF UpdateFails, Over, Troubled, Holding, Told
<1> QED
  BY <1>2, <1>3, <1>4, <1>5, <1>6, <1>7, <1>8, TakeKeeps, TakeErrorKeeps,
     ReceiveKeeps, SpawnKeeps DEF MainStep

LEMMA StutterKeeps ==
  ASSUME IInv, UNCHANGED vars
  PROVE  IInv'
<1>1. /\ UNCHANGED <<db, input, image, deep, gpc, place, seen, gen, main, near>>
      /\ UNCHANGED <<active, work, idmap, sent, faults>>
  BY DEF vars, given, generator
<1>2. Places' = Places /\ Evidence' = Evidence /\ Ids' = Ids
  BY <1>1 DEF Places, Evidence, Ids
<1>3. TypeOK' /\ Given'
  BY <1>1, <1>2 DEF IInv, TypeOK, Given
<1>4. SentGood' /\ FreshNear'
  BY <1>1, <1>2 DEF IInv, SentGood, FreshNear, Generated, Holding
<1>5. Counted' /\ Told'
  BY <1>1 DEF IInv, Counted, Told, Unheard, Troubled, Holding
<1> QED
  BY <1>3, <1>4, <1>5 DEF IInv

(* The invariant: what has been sent is apart, what is received has no     *)
(* goroutine yet, goroutines are counted, and failures are told.           *)
THEOREM Invariance == Spec => []IInv
<1>1. IInv /\ [Next]_vars => IInv'
  BY GeneratorInvariant, MainInvariant, CountInvariant, StutterKeeps DEF Next
<1> QED
  BY <1>1, InitInvariant, PTL DEF Spec

-----------------------------------------------------------------------------
(* What follows from the invariant.                                        *)

(* Every variable has its type; getNearFile never has more goroutines than *)
(* one over its limit.                                                     *)
THEOREM TypeCorrect == Spec => []TypeOK
<1>1. IInv => TypeOK
  BY DEF IInv
<1> QED
  BY Invariance, <1>1, PTL

(* getNear: no place of an evidence file is sent for two chunks.           *)
THEOREM PlacesSentOnce == Spec => []PlacesOnce
<1>1. IInv => PlacesOnce
  BY DEF IInv, SentGood, Apart, PlacesOnce
<1> QED
  BY Invariance, <1>1, PTL

LEMMA ResultIsComplete ==
  ASSUME IInv
  PROVE  ResultOfEverything
<1> SUFFICES ASSUME main \in {"confidence", "done"}
             PROVE  /\ faults = 0 /\ gpc = "closed"
                    /\ \A w \in DOMAIN work : work[w].at = "gone" /\ work[w].left = {}
  BY DEF ResultOfEverything
<1>1. ~Troubled /\ gpc = "closed" /\ active = 0 /\ Cardinality(Unheard) = 0
  BY DEF IInv, Told, Counted, Troubled
<1>2. IsFiniteSet(Unheard)
  BY FS_Subset DEF IInv, Counted, Unheard
<1>3. Unheard = {}
  BY <1>1, <1>2, FS_EmptySet
<1>4. \A w \in DOMAIN work : work[w].at = "gone" /\ work[w].left = {}
  BY <1>1, <1>3 DEF Unheard, IInv, Told
<1>5. ~(faults > 0) /\ faults \in Nat
  BY <1>1, <1>4, BoundsAssumption DEF IInv, Told, TypeOK
<1> QED
  BY <1>1, <1>4, <1>5

(* getNearFile: a result is about the whole file, with every counting      *)
(* goroutine ended and no call failed, though it ranges over one channel   *)
(* and receives from another in between.                                   *)
THEOREM CompleteResult == Spec => []ResultOfEverything
BY Invariance, ResultIsComplete, PTL

-----------------------------------------------------------------------------
(* What is counted.                                                        *)

Confidences == {FullMatch, 0 - FullMatch} \cup 1 .. FullMatch - 1

(* The places of what was sent at which an evidence file is counted, those *)
(* at which it has been, and what they add up to.                          *)
Pairs(e) ==
  {gp \in sent \X Places :
     /\ gp[2] \in DOMAIN gp[1].revmap /\ e \in gp[1].revmap[gp[2]]
     /\ ~Single(gp[1]) /\ e # input}

Done(e) ==
  {gp \in Pairs(e) : /\ gp[1].at \in DOMAIN work
                     /\ <<gp[2], e>> \notin work[gp[1].at].left}

Of(pairs, n) == {gp \in pairs : gp[1].confidence = n}

Parts(pairs) ==
  {gpn \in pairs \X (1 .. FullMatch - 1) :
     gpn[1][1].confidence \in gpn[2] .. FullMatch - 1}

Value(pairs) ==
  FullMatch * (Cardinality(Of(pairs, FullMatch))
                 - Cardinality(Of(pairs, 0 - FullMatch)))
    + Cardinality(Parts(pairs))

Alike == \A g, h \in sent : g.at = h.at => g = h

(* Every goroutine counts for what was sent, and everything sent has its   *)
(* goroutine, or is about to.                                              *)
Source(w) ==
  \E g \in sent :
    /\ g.at = w /\ ~Single(g) /\ work[w].confidence = g.confidence
    /\ work[w].left \subseteq ToCount(g)

Sending ==
  /\ gpc = "send" => gen.confidence \in Confidences
  /\ \A g \in sent :
       g.confidence \in Confidences /\ g.at \in Places /\ g.at < place
  /\ Alike
  /\ Holding /\ gpc # "gone" => near \in sent

Sources ==
  /\ \A w \in DOMAIN work : Source(w)
  /\ ~Troubled => \A g \in sent :
       \/ Single(g) \/ g.at \in DOMAIN work
       \/ Holding /\ gpc # "gone" /\ g = near

Adds ==
  \A e \in Evidence :
    Children(e) = {} => IsFiniteSet(Done(e)) /\ idmap[e] = Value(Done(e))

SumInv == Sending /\ Sources /\ Adds

LEMMA Nested ==
  ASSUME Given
  PROVE  /\ Evidence \subseteq Ids
         /\ \A id \in Ids : Children(id) \subseteq Ids \ Evidence
BY NestingAssumption DEF Given, Evidence, Ids, Children

(* Counting a place of one evidence file counts no other one.              *)
LEMMA CountsWithin ==
  ASSUME Given, NEW e \in Evidence, NEW p, NEW ids \in Counts(e, p)
  PROVE  /\ \A d \in Evidence : d # e => d \notin ids
         /\ Children(e) = {} => ids = {e}
<1>1. CASE Children(e) = {}
  BY <1>1 DEF Counts
<1>2. CASE Children(e) # {}
  <2>1. ids \in PartiFile(e, p)
    BY <1>2 DEF Counts
  <2> DEFINE counted == InRange(e, p)
             picks == {pick \in [counted -> SUBSET Ids] :
                         \A f \in counted : pick[f] \in IdxFile(f, p)}
             each == {UNION {pick[f] : f \in counted} : pick \in picks}
  <2>a. \/ ids \in each
        \/ \E i \in each : ids = i \cup {e}
    BY <2>1 DEF PartiFile
  <2>b. PICK i \in each : ids = i \/ ids = i \cup {e}
    BY <2>a
  <2>c. PICK pick \in picks : i = UNION {pick[f] : f \in counted}
    BY <2>b
  <2>2. \A f \in counted : pick[f] \in IdxFile(f, p)
    BY <2>c
  <2>3. counted \subseteq Ids \ Evidence
    BY Nested DEF InRange
  <2>4. ASSUME NEW f \in counted PROVE pick[f] \cap Evidence = {}
    <3>1. pick[f] \in IdxFile(f, p)
      BY <2>2
    <3>2. pick[f] \subseteq {f} \cup Children(f)
      BY <3>1 DEF IdxFile, IdxCounts, InRange
    <3>3. f \in Ids \ Evidence /\ Children(f) \subseteq Ids \ Evidence
      BY <2>3, Nested
    <3>4. QED  BY <3>2, <3>3
  <2>5. \A d \in Evidence : d \notin i
    <3> HIDE DEF counted
    <3> QED
      BY <2>4, <2>c
  <2>6. QED  BY <2>b, <2>5, <1>2
<1>3. QED  BY <1>1, <1>2

LEMMA FiniteParts ==
  ASSUME NEW S, IsFiniteSet(S)
  PROVE  /\ IsFiniteSet(Parts(S)) /\ \A n : IsFiniteSet(Of(S, n))
         /\ Cardinality(Parts(S)) \in Nat
         /\ \A n : Cardinality(Of(S, n)) \in Nat
<1>1. IsFiniteSet(S \X (1 .. FullMatch - 1))
  <2>1. 1 \in Int /\ FullMatch - 1 \in Int
    BY BoundsAssumption
  <2>2. IsFiniteSet(1 .. FullMatch - 1)
    BY <2>1, FS_Interval
  <2>3. QED  BY <2>2, FS_Product
<1>2. IsFiniteSet(Parts(S))
  BY <1>1, FS_Subset DEF Parts
<1>3. \A n : IsFiniteSet(Of(S, n))
  BY FS_Subset DEF Of
<1>4. QED  BY <1>2, <1>3, FS_CardinalityType

LEMMA PartsOfOne ==
  ASSUME NEW x, NEW c \in Nat
  PROVE  IsFiniteSet({x} \X (1 .. c)) /\ Cardinality({x} \X (1 .. c)) = c
<1>1. IsFiniteSet({x}) /\ Cardinality({x}) = 1
  BY FS_Singleton
<1>2. IsFiniteSet(1 .. c) /\ Cardinality(1 .. c) = c
  <2>1. 1 \in Int /\ c \in Int
    OBVIOUS
  <2>2. /\ IsFiniteSet(1 .. c)
        /\ Cardinality(1 .. c) = IF 1 > c THEN 0 ELSE c - 1 + 1
    BY <2>1, FS_Interval
  <2>3. QED  BY <2>2
<1>3. /\ IsFiniteSet({x} \X (1 .. c))
      /\ Cardinality({x} \X (1 .. c)) = Cardinality({x}) * Cardinality(1 .. c)
  BY <1>1, <1>2, FS_Product
<1>4. QED  BY <1>1, <1>2, <1>3

LEMMA DisjointUnion ==
  ASSUME NEW A, IsFiniteSet(A), NEW B, IsFiniteSet(B), A \cap B = {}
  PROVE  Cardinality(A \cup B) = Cardinality(A) + Cardinality(B)
<1>1. Cardinality(A \cup B)
        = Cardinality(A) + Cardinality(B) - Cardinality(A \cap B)
  BY FS_Union
<1>2. /\ Cardinality(A \cap B) = 0
      /\ Cardinality(A) \in Nat /\ Cardinality(B) \in Nat
  BY FS_EmptySet, FS_CardinalityType
<1>3. QED  BY <1>1, <1>2

(* One more place counts with its confidence.                              *)
LEMMA ValueAdds ==
  ASSUME NEW S, IsFiniteSet(S), NEW x, x \notin S,
         NEW c \in Confidences, x[1].confidence = c
  PROVE  Value(S \cup {x}) = Value(S) + c
<1> DEFINE T == S \cup {x}
           F == FullMatch
<1>1. F \in Nat \ {0} /\ c \in Int
  BY BoundsAssumption DEF Confidences
<1>2. /\ IsFiniteSet(Parts(S)) /\ \A n : IsFiniteSet(Of(S, n))
      /\ Cardinality(Parts(S)) \in Nat
      /\ \A n : Cardinality(Of(S, n)) \in Nat
  BY FiniteParts
<1>3. ASSUME NEW n
      PROVE  Cardinality(Of(T, n)) = Cardinality(Of(S, n)) + (IF n = c THEN 1 ELSE 0)
  <2>1. CASE n = c
    <3>1. Of(T, n) = Of(S, n) \cup {x} /\ x \notin Of(S, n)
      BY <2>1 DEF Of
    <3>2. Cardinality(Of(S, n) \cup {x}) = Cardinality(Of(S, n)) + 1
      BY <3>1, <1>2, FS_AddElement
    <3>3. QED  BY <3>1, <3>2, <2>1, Zenon
  <2>2. CASE n # c
    <3>1. Of(T, n) = Of(S, n)
      BY <2>2 DEF Of
    <3>2. QED  BY <3>1, <2>2, <1>2
  <2>3. QED  BY <2>1, <2>2
<1> DEFINE k == IF c \in 1 .. F - 1 THEN c ELSE 0
<1>4. Cardinality(Parts(T)) = Cardinality(Parts(S)) + k
  <2>1. CASE c \in 1 .. F - 1
    <3>1. Parts(T) = Parts(S) \cup ({x} \X (1 .. c))
      BY <2>1, <1>1 DEF Parts
    <3>2. Parts(S) \cap ({x} \X (1 .. c)) = {}
      BY DEF Parts
    <3>c. c \in Nat
      BY <2>1, <1>1
    <3>3. IsFiniteSet({x} \X (1 .. c)) /\ Cardinality({x} \X (1 .. c)) = c
      BY <3>c, PartsOfOne, Zenon
    <3> HIDE DEF T
    <3>4. Cardinality(Parts(S) \cup ({x} \X (1 .. c)))
            = Cardinality(Parts(S)) + Cardinality({x} \X (1 .. c))
      BY <3>2, <3>3, <1>2, DisjointUnion
    <3>5. QED  BY <3>1, <3>3, <3>4, <2>1
  <2>2. CASE c \notin 1 .. F - 1
    <3>1. Parts(T) = Parts(S)
      BY <2>2, <1>1 DEF Parts, Confidences
    <3>2. QED  BY <3>1, <2>2, <1>2
  <2>3. QED  BY <2>1, <2>2
<1> HIDE DEF T
<1>5. \A i \in Int : F * (i + 1) = F * i + F /\ F * (i - 1) = F * i - F
  BY <1>1
<1> DEFINE a == Cardinality(Of(S, F))
           b == Cardinality(Of(S, 0 - F))
<1>6. /\ Cardinality(Of(T, F)) = a + (IF F = c THEN 1 ELSE 0)
      /\ Cardinality(Of(T, 0 - F)) = b + (IF 0 - F = c THEN 1 ELSE 0)
      /\ a \in Nat /\ b \in Nat
  BY <1>2, <1>3
<1> HIDE DEF a, b
<1>7. F * (Cardinality(Of(T, F)) - Cardinality(Of(T, 0 - F)))
        = F * (a - b) + (IF c = F THEN F ELSE IF c = 0 - F THEN 0 - F ELSE 0)
  <2>1. CASE c = F
    <3>1. /\ Cardinality(Of(T, F)) - Cardinality(Of(T, 0 - F)) = (a - b) + 1
          /\ a - b \in Int
      BY <2>1, <1>1, <1>6
    <3>2. QED  BY <3>1, <2>1, <1>5
  <2>2. CASE c = 0 - F
    <3>1. /\ Cardinality(Of(T, F)) - Cardinality(Of(T, 0 - F)) = (a - b) - 1
          /\ a - b \in Int /\ c # F
      BY <2>2, <1>1, <1>6
    <3>2. F * ((a - b) - 1) = F * (a - b) - F /\ F * (a - b) \in Int
      BY <3>1, <1>1, <1>5
    <3>3. QED  BY <3>1, <3>2, <2>2, <1>1
  <2>3. CASE c # F /\ c # 0 - F
    <3>1. /\ Cardinality(Of(T, F)) - Cardinality(Of(T, 0 - F)) = a - b
          /\ F * (a - b) \in Int
      BY <2>3, <1>1, <1>6
    <3>2. QED  BY <3>1, <2>3
  <2>4. QED  BY <2>1, <2>2, <2>3
<1>8. F * (a - b) \in Int /\ Cardinality(Parts(S)) \in Nat
  BY <1>1, <1>2, <1>6
<1>9. Value(S) = F * (a - b) + Cardinality(Parts(S))
  BY DEF Value, a, b
<1>10. Value(T) = F * (Cardinality(Of(T, F)) - Cardinality(Of(T, 0 - F)))
                    + Cardinality(Parts(T))
  BY DEF Value
<1>11. c = k + (IF c = F THEN F ELSE IF c = 0 - F THEN 0 - F ELSE 0)
  BY <1>1 DEF Confidences
<1>12. Value(T) = Value(S) + c
  BY <1>1, <1>4, <1>7, <1>8, <1>9, <1>10, <1>11
<1>13. QED  BY <1>12 DEF T

LEMMA NoneCounted == IsFiniteSet({}) /\ Value({}) = 0
<1>1. Parts({}) = {} /\ \A n : Of({}, n) = {}
  BY DEF Parts, Of
<1>2. IsFiniteSet({}) /\ Cardinality({}) = 0
  BY FS_EmptySet
<1>3. FullMatch * (0 - 0) + 0 = 0
  BY BoundsAssumption
<1>4. QED  BY <1>1, <1>2, <1>3 DEF Value

LEMMA SumInit == Init => SumInv
<1> SUFFICES ASSUME Init PROVE SumInv
  OBVIOUS
<1>1. /\ DOMAIN work = {} /\ sent = {} /\ main = "range" /\ gpc = "next"
      /\ idmap = [id \in Ids |-> 0]
  BY DEF Init
<1>2. Sending /\ Sources
  BY <1>1 DEF Sending, Sources, Alike, Holding
<1>3. Adds
  <2>1. Evidence \subseteq Ids
    BY InitInvariant, Nested DEF IInv
  <2>2. ASSUME NEW e \in Evidence
        PROVE  IsFiniteSet(Done(e)) /\ idmap[e] = Value(Done(e))
    <3>1. Done(e) = {} /\ idmap[e] = 0
      BY <1>1, <2>1 DEF Done, Pairs
    <3>2. QED  BY <3>1, NoneCounted
  <2>3. QED  BY <2>2 DEF Adds
<1>4. QED  BY <1>2, <1>3 DEF SumInv

LEMMA SameDatabase ==
  ASSUME UNCHANGED <<db, input>>
  PROVE  /\ Evidence' = Evidence /\ Places' = Places /\ Ids' = Ids
         /\ \A id : Children(id)' = Children(id)
         /\ \A g : ToCount(g)' = ToCount(g)
BY DEF Evidence, Places, Ids, Children, ToCount

(* Steps that send nothing, count nothing and start no goroutine.          *)
LEMMA SumKeeps ==
  ASSUME SumInv, UNCHANGED <<db, input, sent, idmap>>,
         place \in Nat, place' \in Nat, place' >= place,
         Places \subseteq Nat,
         gpc' = "send" => gen'.confidence \in Confidences,
         DOMAIN work' = DOMAIN work,
         \A w \in DOMAIN work : /\ work'[w].left = work[w].left
                                /\ work'[w].confidence = work[w].confidence,
         Holding' /\ gpc' # "gone" =>
           Holding /\ gpc # "gone" /\ near' = near,
         Troubled => Troubled',
         Holding /\ gpc # "gone" =>
           \/ Troubled' \/ Single(near)
           \/ Holding' /\ gpc' # "gone" /\ near' = near
  PROVE  SumInv'
<1>1. /\ Evidence' = Evidence /\ Places' = Places
      /\ \A id : Children(id)' = Children(id)
      /\ \A g : ToCount(g)' = ToCount(g)
  BY SameDatabase
<1>2. Sending'
  <2>1. \A g \in sent :
          g.confidence \in Confidences /\ g.at \in Places /\ g.at < place'
    <3>1. ASSUME NEW g \in sent PROVE g.at \in Places /\ g.at < place
      BY DEF SumInv, Sending
    <3>2. ASSUME NEW g \in sent PROVE g.at < place'
      <4>1. g.at \in Nat /\ g.at < place
        BY <3>1
      <4>2. QED  BY <4>1
    <3>3. QED  BY <3>1, <3>2 DEF SumInv, Sending
  <2>2. Alike'
    BY DEF SumInv, Sending, Alike
  <2>3. QED  BY <1>1, <2>1, <2>2 DEF SumInv, Sending
<1>3. Sources'
  <2>1. \A w \in DOMAIN work' : Source(w)'
    BY <1>1 DEF SumInv, Sources, Source
  <2>2. ~Troubled' => \A g \in sent :
          \/ Single(g) \/ g.at \in DOMAIN work'
          \/ Holding' /\ gpc' # "gone" /\ g = near'
    BY DEF SumInv, Sources
  <2>3. QED  BY <2>1, <2>2 DEF Sources
<1>4. Adds'
  <2>1. ASSUME NEW e PROVE Done(e)' = Done(e)
    <3>1. Pairs(e)' = Pairs(e)
      BY <1>1 DEF Pairs
    <3>2. QED  BY <3>1 DEF Done
  <2>2. QED  BY <1>1, <2>1 DEF SumInv, Adds
<1>5. QED  BY <1>2, <1>3, <1>4 DEF SumInv

LEMMA SumGenerator ==
  ASSUME IInv, SumInv, GeneratorStep
  PROVE  SumInv'
<1>1. /\ UNCHANGED <<db, input, main, near, work, idmap, sent>>
      /\ gpc = "next" /\ gpc' # "gone"
      /\ place' \in {place, place + 1}
  BY DEF GeneratorStep, SkipSeen, SkipUnique, Generate, GeneratorFails,
     CloseGenerator, Generating, Looking, Consumer, given
<1>2. place \in Nat /\ place' \in Nat /\ place' >= place
  BY <1>1 DEF IInv, TypeOK
<1>3. Places \subseteq Nat
  BY PlaceTypes DEF IInv
<1>4. gpc' = "send" => gen'.confidence \in Confidences
  <2>1. CASE Generate
    <3>1. PICK m \in Matches : gen'.confidence = m.confidence
      BY <2>1 DEF Generate
    <3>2. CASE m \in Partial
      BY <3>1, <3>2 DEF Partial, NoPartial, Confidences
    <3>3. CASE m \notin Partial
      <4>1. m = [files |-> RevRel(Here, place), confidence |-> FullMatch]
        BY <3>3, <3>1 DEF Matches
      <4>2. QED  BY <3>1, <4>1 DEF Confidences
    <3>4. QED  BY <3>2, <3>3
  <2>2. CASE ~Generate
    BY <1>1, <2>2 DEF GeneratorStep, SkipSeen, SkipUnique, GeneratorFails,
       CloseGenerator
  <2>3. QED  BY <2>1, <2>2
<1>5. QED
  BY <1>1, <1>2, <1>3, <1>4, SumKeeps DEF Holding, Troubled

LEMMA SumTake ==
  ASSUME IInv, SumInv, Take
  PROVE  SumInv'
<1>1. /\ UNCHANGED <<db, input, work, idmap>>
      /\ main = "range" /\ main' = "room" /\ gpc = "send" /\ gpc' = "next"
      /\ near' = gen /\ sent' = sent \cup {gen} /\ place' = place + 1
      /\ place \in Nat
  BY DEF Take, given, IInv, TypeOK
<1>2. /\ Evidence' = Evidence /\ Places' = Places
      /\ \A id : Children(id)' = Children(id)
      /\ \A g : ToCount(g)' = ToCount(g)
  BY <1>1, SameDatabase
<1>3. /\ gen.at = place /\ gen.at \in Places /\ place \notin DOMAIN work
  <2>1. DOMAIN work \subseteq Places /\ Places \subseteq Nat
    BY PlaceTypes DEF IInv, TypeOK
  <2>2. gen.at = place /\ gen.at \in Places /\ \A w \in DOMAIN work : w < place
    BY <1>1 DEF IInv, SentGood, Generated, FreshNear
  <2>3. QED  BY <1>1, <2>1, <2>2
<1>4. Places \subseteq Nat
  BY PlaceTypes DEF IInv
<1>5. Sending'
  <2>1. \A g \in sent :
          /\ g.confidence \in Confidences /\ g.at \in Places
          /\ g.at < place + 1 /\ g.at # place
    <3>1. ASSUME NEW g \in sent
          PROVE  g.at \in Places /\ g.at < place + 1 /\ g.at # place
      <4>1. g.at \in Places /\ g.at \in Nat /\ g.at < place
        BY <1>4 DEF SumInv, Sending
      <4>2. QED  BY <4>1, <1>1
    <3>2. QED  BY <3>1 DEF SumInv, Sending
  <2>2. /\ gen.confidence \in Confidences /\ gen.at \in Places
        /\ gen.at < place + 1
    BY <1>1, <1>3 DEF SumInv, Sending
  <2>3. Alike'
    BY <1>1, <1>3, <2>1 DEF SumInv, Sending, Alike
  <2>4. QED  BY <1>1, <1>2, <2>1, <2>2, <2>3 DEF Sending
<1>6. Sources'
  <2>1. \A w \in DOMAIN work' : Source(w)'
    BY <1>1, <1>2 DEF SumInv, Sources, Source
  <2>2. \A g \in sent' :
          Single(g) \/ g.at \in DOMAIN work' \/ g = near'
    BY <1>1 DEF SumInv, Sources, Troubled, Holding
  <2>3. QED  BY <1>1, <2>1, <2>2 DEF Sources, Holding
<1>7. Adds'
  <2>1. ASSUME NEW e PROVE Done(e)' = Done(e)
    <3>1. \A gp : gp \in Pairs(e)' /\ gp[1].at \in DOMAIN work
                    <=> gp \in Pairs(e) /\ gp[1].at \in DOMAIN work
      BY <1>1, <1>2, <1>3 DEF Pairs
    <3>2. QED  BY <1>1, <3>1 DEF Done
  <2>2. QED  BY <1>1, <1>2, <2>1 DEF SumInv, Adds
<1>8. QED  BY <1>5, <1>6, <1>7 DEF SumInv

LEMMA SumSpawn ==
  ASSUME IInv, SumInv, Spawn
  PROVE  SumInv'
<1>1. /\ UNCHANGED <<db, input, gpc, gen, place, near, sent, idmap>>
      /\ main = "start" /\ main' = "range" /\ near # None /\ ~Single(near)
  BY DEF Spawn, given, generator
<1>2. /\ Evidence' = Evidence /\ Places' = Places
      /\ \A id : Children(id)' = Children(id)
      /\ \A g : ToCount(g)' = ToCount(g)
  BY <1>1, SameDatabase
<1>3. /\ gpc # "gone" /\ near \in sent
      /\ near.at \in Nat /\ near.at \notin DOMAIN work
  <2>1. DOMAIN work \subseteq Places /\ Places \subseteq Nat
    BY PlaceTypes DEF IInv, TypeOK
  <2>2. gpc # "gone"
    BY <1>1 DEF IInv, FreshNear, Holding
  <2>3. /\ near \in sent /\ near.at \in Places
        /\ \A w \in DOMAIN work : w < near.at
    BY <1>1, <2>2 DEF IInv, FreshNear, Generated, Holding, SumInv, Sending
  <2>4. near.at \in Nat
    BY <2>1, <2>3
  <2>5. ~(near.at < near.at)
    BY <2>4
  <2>6. near.at \notin DOMAIN work
    BY <2>3, <2>5
  <2>7. QED  BY <2>2, <2>3, <2>4, <2>6
<1>4. /\ DOMAIN work' = DOMAIN work \cup {near.at}
      /\ work'[near.at].left = ToCount(near)
      /\ work'[near.at].confidence = near.confidence
      /\ \A w \in DOMAIN work : work'[w] = work[w]
  BY <1>3 DEF Spawn
<1>5. Sending'
  BY <1>1, <1>2 DEF SumInv, Sending, Alike, Holding
<1>6. Sources'
  <2>1. ASSUME NEW w \in DOMAIN work' PROVE Source(w)'
    <3>1. CASE w = near.at
      BY <3>1, <1>1, <1>2, <1>3, <1>4 DEF Source
    <3>2. CASE w \in DOMAIN work
      <4>1. Source(w)
        BY <3>2 DEF SumInv, Sources
      <4>2. QED  BY <3>2, <4>1, <1>1, <1>2, <1>4 DEF Source
    <3>3. QED  BY <3>1, <3>2, <1>4
  <2>2. \A g \in sent : Single(g) \/ g.at \in DOMAIN work'
    BY <1>1, <1>4 DEF SumInv, Sources, Troubled
  <2>3. QED  BY <1>1, <2>1, <2>2 DEF Sources
<1>7. Adds'
  <2>1. ASSUME NEW e \in Evidence PROVE Done(e)' = Done(e)
    <3>1. Pairs(e)' = Pairs(e)
      BY <1>1, <1>2 DEF Pairs
    <3>2. ASSUME NEW gp \in Pairs(e), gp[1].at = near.at
          PROVE  <<gp[2], e>> \in ToCount(near)
      <4>1. gp[1] = near
        BY <1>3, <3>2 DEF Pairs, SumInv, Sending, Alike
      <4>2. QED  BY <4>1 DEF Pairs, ToCount
    <3>3. ASSUME NEW gp \in Pairs(e)
          PROVE  gp \in Done(e)' <=> gp \in Done(e)
      <4>1. CASE gp[1].at = near.at
        BY <4>1, <1>3, <1>4, <3>1, <3>2 DEF Done
      <4>2. CASE gp[1].at # near.at
        BY <4>2, <1>4, <3>1 DEF Done
      <4>3. QED  BY <4>1, <4>2
    <3>4. Done(e)' \subseteq Pairs(e) /\ Done(e) \subseteq Pairs(e)
      BY <3>1 DEF Done
    <3>5. QED  BY <3>3, <3>4
  <2>2. QED  BY <1>1, <1>2, <2>1 DEF SumInv, Adds
<1>8. QED  BY <1>5, <1>6, <1>7 DEF SumInv

LEMMA SumCount ==
  ASSUME IInv, SumInv, NEW w \in DOMAIN work, NEW e \in Evidence,
         NEW p \in Places, Count(w, e, p)
  PROVE  SumInv'
<1>1. /\ UNCHANGED <<db, input, gpc, gen, place, main, near, sent>>
      /\ <<p, e>> \in work[w].left
      /\ work' = [work EXCEPT ![w] =
                    [work[w] EXCEPT !.left = @ \ {<<p, e>>}]]
  BY DEF Count, given, generator
<1>2. /\ Evidence' = Evidence /\ Places' = Places
      /\ \A id : Children(id)' = Children(id)
      /\ \A g : ToCount(g)' = ToCount(g)
  BY <1>1, SameDatabase
<1>3. work \in [DOMAIN work -> Worker] /\ Given /\ idmap \in [Ids -> Int]
  BY DEF IInv, TypeOK, Worker
<1>4. /\ DOMAIN work' = DOMAIN work
      /\ \A v \in DOMAIN work : v # w => work'[v] = work[v]
      /\ work'[w].left = work[w].left \ {<<p, e>>}
      /\ work'[w].confidence = work[w].confidence
  BY <1>1, <1>3 DEF Worker
<1>5. Sending'
  BY <1>1, <1>2 DEF SumInv, Sending, Alike, Holding
<1>6. Sources'
  <2>1. ASSUME NEW v \in DOMAIN work PROVE Source(v)'
    <3>1. Source(v)
      BY DEF SumInv, Sources
    <3>2. /\ work'[v].left \subseteq work[v].left
          /\ work'[v].confidence = work[v].confidence
      BY <1>4
    <3>3. QED  BY <3>1, <3>2, <1>1, <1>2 DEF Source
  <2>2. QED
    BY <2>1, <1>1, <1>4 DEF SumInv, Sources, Troubled, Holding
<1>7. PICK g \in sent :
        /\ g.at = w /\ ~Single(g) /\ work[w].confidence = g.confidence
        /\ work[w].left \subseteq ToCount(g)
  BY DEF SumInv, Sources, Source
<1> DEFINE x == <<g, p>>
<1>8. x \in Pairs(e) /\ x \notin Done(e) /\ x[1] = g /\ x[2] = p
  BY <1>1, <1>7 DEF ToCount, Pairs, Done
<1>9. \A d : Pairs(d)' = Pairs(d)
  BY <1>1, <1>2 DEF Pairs
<1>10. ASSUME NEW d, NEW gp \in Pairs(d), gp # x \/ d # e
       PROVE  gp \in Done(d)' <=> gp \in Done(d)
  <2>1. gp = <<gp[1], gp[2]>>
    BY DEF Pairs
  <2>2. CASE gp[1].at = w
    <3>1. gp[1] = g
      BY <1>7, <2>2 DEF Pairs, SumInv, Sending, Alike
    <3>2. <<gp[2], d>> # <<p, e>>
      BY <1>10, <2>1, <3>1
    <3>3. QED  BY <2>2, <3>2, <1>4, <1>9 DEF Done
  <2>3. CASE gp[1].at # w
    BY <2>3, <1>4, <1>9 DEF Done
  <2>4. QED  BY <2>2, <2>3
<1>11. \A d : Done(d)' \subseteq Pairs(d) /\ Done(d) \subseteq Pairs(d)
  BY <1>9 DEF Done
<1>12. x \in Done(e)'
  BY <1>4, <1>7, <1>8, <1>9 DEF Done
<1>13. Done(e)' = Done(e) \cup {x}
  BY <1>8, <1>10, <1>11, <1>12
<1>14. ASSUME NEW d, d # e PROVE Done(d)' = Done(d)
  BY <1>10, <1>11, <1>14
<1>15. PICK ids \in Counts(e, p) :
         idmap' = [id \in Ids |->
           IF id \in ids THEN idmap[id] + work[w].confidence ELSE idmap[id]]
  BY DEF Count
<1>16. Evidence \subseteq Ids
  BY <1>3, Nested
<1>17. Adds'
  <2>1. ASSUME NEW d \in Evidence, Children(d) = {}
        PROVE  IsFiniteSet(Done(d)') /\ idmap'[d] = Value(Done(d)')
    <3>0. IsFiniteSet(Done(d)) /\ idmap[d] = Value(Done(d))
      BY <2>1 DEF SumInv, Adds
    <3>1. CASE d = e
      <4>1. ids = {e}
        BY <1>3, <2>1, <3>1, CountsWithin
      <4>2. idmap'[d] = idmap[d] + g.confidence
        BY <1>7, <1>15, <1>16, <3>1, <4>1
      <4>3. g.confidence \in Confidences /\ x[1].confidence = g.confidence
        BY <1>8 DEF SumInv, Sending
      <4>4. Value(Done(d) \cup {x}) = Value(Done(d)) + g.confidence
        BY <1>8, <3>0, <3>1, <4>3, ValueAdds
      <4>5. IsFiniteSet(Done(d) \cup {x})
        BY <3>0, FS_AddElement
      <4>6. QED  BY <1>13, <3>0, <3>1, <4>2, <4>4, <4>5
    <3>2. CASE d # e
      <4>1. d \notin ids
        BY <1>3, <3>2, CountsWithin
      <4>2. idmap'[d] = idmap[d]
        BY <1>15, <1>16, <4>1
      <4>3. QED  BY <1>14, <3>0, <3>2, <4>2
    <3>3. QED  BY <3>1, <3>2
  <2>2. \A S : Value(S)' = Value(S)
    BY DEF Value, Parts, Of
  <2>3. QED  BY <1>2, <2>1, <2>2 DEF Adds
<1>18. QED  BY <1>5, <1>6, <1>17 DEF SumInv

LEMMA SumStep ==
  ASSUME IInv, SumInv, [Next]_vars
  PROVE  SumInv'
<1>1. place \in Nat /\ Places \subseteq Nat /\ work \in [DOMAIN work -> Worker]
  BY PlaceTypes DEF IInv, TypeOK, Worker
<1>2. gpc = "send" => gen.confidence \in Confidences
  BY DEF SumInv, Sending
<1>3. CASE MainStep
  <2>1. CASE RangeEnds \/ NoWait \/ Drained \/ UpdateConfidence \/ UpdateFails
    <3>1. /\ UNCHANGED <<db, input, sent, idmap, place, gpc, gen, work, near>>
          /\ ~Troubled
          /\ \/ main = "room" /\ main' = "start"
             \/ ~Holding /\ ~Holding'
      BY <2>1 DEF RangeEnds, NoWait, Drained, UpdateConfidence, UpdateFails,
         given, generator, Holding, Troubled
    <3>2. Holding' <=> Holding
      BY <3>1 DEF Holding
    <3>3. QED  BY <1>1, <1>2, <3>1, <3>2, SumKeeps
  <2>2. CASE GeneratorFailed \/ PassOver
    <3>1. /\ UNCHANGED <<db, input, sent, idmap, place, gpc, gen, work, near>>
          /\ (Troubled' \/ Single(near))
      BY <2>2 DEF GeneratorFailed, PassOver, given, generator, Holding, Troubled
    <3>2. ~Troubled
      BY <2>2 DEF GeneratorFailed, PassOver, Troubled
    <3>3. ~Holding'
      BY <2>2 DEF GeneratorFailed, PassOver, Holding
    <3>4. QED  BY <1>1, <1>2, <3>1, <3>2, <3>3, SumKeeps
  <2>3. CASE TakeError
    <3>1. /\ UNCHANGED <<db, input, sent, idmap, place, work>>
          /\ gpc' = "gone" /\ ~Holding /\ ~Troubled
      BY <2>3 DEF TakeError, given, Holding, Troubled
    <3>2. QED  BY <1>1, <3>1, SumKeeps
  <2>4. ASSUME NEW w \in DOMAIN work, Receive(w) \/ SecondReceive(w)
        PROVE  SumInv'
    <3>1. /\ UNCHANGED <<db, input, sent, idmap, place, gpc, gen, near>>
          /\ Gone(w)
      BY <2>4 DEF Receive, SecondReceive, given, generator
    <3>2. /\ Troubled => Troubled'
          /\ Holding' => Holding
          /\ Holding => Holding' \/ Troubled'
      BY <2>4 DEF Receive, SecondReceive, NeedsReport, Holding, Troubled
    <3>3. /\ DOMAIN work' = DOMAIN work
          /\ \A v \in DOMAIN work : /\ work'[v].left = work[v].left
                                    /\ work'[v].confidence = work[v].confidence
      BY <1>1, <3>1 DEF Gone, Worker
    <3>4. QED  BY <1>1, <1>2, <3>1, <3>2, <3>3, SumKeeps
  <2>5. QED
    BY <1>3, <2>1, <2>2, <2>3, <2>4, SumTake, SumSpawn DEF MainStep
<1>4. CASE CountStep
  <2>1. ASSUME NEW w \in DOMAIN work, NEW e \in Evidence, NEW p \in Places,
               CountFails(w, e, p)
        PROVE  SumInv'
    <3>1. /\ UNCHANGED <<db, input, sent, idmap, place, gpc, gen, near, main>>
          /\ work' = [work EXCEPT ![w] = [work[w] EXCEPT !.at = "error"]]
      BY <2>1 DEF CountFails, given, generator
    <3>2. /\ DOMAIN work' = DOMAIN work
          /\ \A v \in DOMAIN work : /\ work'[v].left = work[v].left
                                    /\ work'[v].confidence = work[v].confidence
      BY <1>1, <3>1 DEF Worker
    <3>3. QED
      BY <1>1, <1>2, <3>1, <3>2, SumKeeps DEF Holding, Troubled
  <2>2. ASSUME NEW w \in DOMAIN work, CountEnds(w)
        PROVE  SumInv'
    <3>1. /\ UNCHANGED <<db, input, sent, idmap, place, gpc, gen, near, main>>
          /\ work' = [work EXCEPT ![w] = [work[w] EXCEPT !.at = "ok"]]
      BY <2>2 DEF CountEnds, given, generator
    <3>2. /\ DOMAIN work' = DOMAIN work
          /\ \A v \in DOMAIN work : /\ work'[v].left = work[v].left
                                    /\ work'[v].confidence = work[v].confidence
      BY <1>1, <3>1 DEF Worker
    <3>3. QED
      BY <1>1, <1>2, <3>1, <3>2, SumKeeps DEF Holding, Troubled
  <2>3. QED  BY <1>4, <2>1, <2>2, SumCount DEF CountStep
<1>5. CASE UNCHANGED vars
  <2>1. UNCHANGED <<db, input, sent, idmap, place, gpc, gen, near, main, work>>
    BY <1>5 DEF vars, given, generator
  <2>2. QED  BY <1>1, <1>2, <2>1, SumKeeps DEF Holding, Troubled
<1>6. QED  BY <1>3, <1>4, <1>5, SumGenerator DEF Next

(* Every goroutine counts for something that was sent, everything sent has *)
(* a goroutine or is about to, and the map holds what has been counted.    *)
THEOREM SumInvariance == Spec => [](IInv /\ SumInv)
<1>1. Init => IInv /\ SumInv
  BY InitInvariant, SumInit
<1>2. IInv /\ SumInv /\ [Next]_vars => (IInv /\ SumInv)'
  <2>1. IInv /\ [Next]_vars => IInv'
    BY GeneratorInvariant, MainInvariant, CountInvariant, StutterKeeps DEF Next
  <2>2. QED  BY <2>1, SumStep
<1>3. QED  BY <1>1, <1>2, PTL DEF Spec

(* countRList: whatever the order in which the goroutines add to the map,  *)
(* an evidence file without partitions ends up with what was sent for it:  *)
(* nothing is lost and nothing counted twice.                              *)
THEOREM CountsAreRight == Spec => []CountedRight
<1>1. ASSUME IInv, SumInv PROVE CountedRight
  <2> SUFFICES ASSUME main = "done", NEW e \in Evidence, Children(e) = {}
               PROVE  idmap[e] = Expected(e)
    BY DEF CountedRight
  <2>1. \A w \in DOMAIN work : work[w].left = {}
    BY <1>1, ResultIsComplete DEF ResultOfEverything
  <2>2. \A g \in sent : Single(g) \/ g.at \in DOMAIN work
    BY <1>1 DEF SumInv, Sources, Troubled, Holding
  <2>3. Done(e) = Pairs(e)
    BY <2>1, <2>2 DEF Done, Pairs
  <2>4. idmap[e] = Value(Pairs(e))
    BY <1>1, <2>3 DEF SumInv, Adds
  <2>5. Expected(e) = Value(Pairs(e))
    BY DEF Expected, Value, Of, Parts, Pairs
  <2>6. QED  BY <2>4, <2>5
<1>2. QED  BY <1>1, SumInvariance, PTL
=============================================================================
