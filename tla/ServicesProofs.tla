--------------------------- MODULE ServicesProofs ---------------------------
(***************************************************************************)
(* What the small parts of MCServices promise, for any size of them.  They *)
(* share no variable, so each has an invariant of its own, kept by its own *)
(* steps and untouched by the others'; the last section puts them together. *)
(*                                                                         *)
(*   the in-memory session store, which implements SessionLife;            *)
(*   the pairing card, the panel and the page of a course;                 *)
(*   the dashboard, at the backend and in the web client;                  *)
(*   what upstreams' answers mean;                                         *)
(*   the coursework, the student's records and the list of courses.        *)
(***************************************************************************)
EXTENDS MCServices, FiniteSetTheorems, SequenceTheorems, WellFoundedInduction, TLAPS

-----------------------------------------------------------------------------
(* Sets in an order: the elements of a finite set can be numbered along any   *)
(* order of them, which is where the sequences of the models come from, and   *)
(* sets of numbers have their bounds.                                        *)

LEMMA OrderIsThere ==
    ASSUME NEW E, IsFiniteSet(E), NEW R,
           \A x \in E : <<x, x>> \notin R,
           \A x, y, z \in E : <<x, y>> \in R /\ <<y, z>> \in R => <<x, z>> \in R,
           \A x, y \in E : x # y => <<x, y>> \in R \/ <<y, x>> \in R
    PROVE  \E f \in [1..Cardinality(E) -> E] :
              /\ \A k, l \in 1..Cardinality(E) : k < l => <<f[k], f[l]>> \in R
              /\ \A x \in E : \E k \in 1..Cardinality(E) : f[k] = x
<1> DEFINE n == Cardinality(E)
           Below(x) == {y \in E : y = x \/ <<y, x>> \in R}
           rank == [x \in E |-> Cardinality(Below(x))]
<1>1. n \in Nat
  BY FS_CardinalityType
<1>2. \A x \in E : rank[x] \in 1..n
  <2> TAKE x \in E
  <2>1. Below(x) \in SUBSET E /\ x \in Below(x)
    OBVIOUS
  <2>2. IsFiniteSet(Below(x)) /\ Cardinality(Below(x)) <= n
    BY <2>1, FS_Subset
  <2>3. Cardinality(Below(x)) \in Nat /\ Cardinality(Below(x)) # 0
    BY <2>1, <2>2, FS_CardinalityType, FS_EmptySet
  <2> QED
    BY <1>1, <2>2, <2>3
<1>3. \A x, y \in E : <<x, y>> \in R => rank[x] < rank[y]
  <2> SUFFICES ASSUME NEW x \in E, NEW y \in E, <<x, y>> \in R PROVE rank[x] < rank[y]
    OBVIOUS
  <2>1. Below(x) \in SUBSET Below(y) /\ y \in Below(y) /\ y \notin Below(x)
    OBVIOUS
  <2>2. IsFiniteSet(Below(y))
    BY FS_Subset
  <2>3. Cardinality(Below(x)) <= Cardinality(Below(y))
        /\ Cardinality(Below(x)) # Cardinality(Below(y))
    BY <2>1, <2>2, FS_Subset
  <2>4. rank[x] = Cardinality(Below(x)) /\ rank[y] = Cardinality(Below(y))
    OBVIOUS
  <2> HIDE DEF rank, Below
  <2> QED
    BY <1>1, <1>2, <2>3, <2>4
<1> HIDE DEF rank
<1>4. rank \in Injection(E, 1..n)
  <2>1. rank \in [E -> 1..n]
    BY <1>2 DEF rank
  <2>2. \A x, y \in E : rank[x] = rank[y] => x = y
    <3> SUFFICES ASSUME NEW x \in E, NEW y \in E, rank[x] = rank[y], x # y PROVE FALSE
      OBVIOUS
    <3>1. <<x, y>> \in R \/ <<y, x>> \in R
      OBVIOUS
    <3>2. rank[x] < rank[y] \/ rank[y] < rank[x]
      BY <1>3, <3>1
    <3>3. rank[x] \in Int
      BY <1>2
    <3> QED
      BY <3>2, <3>3
  <2>3. IsInjective(rank)
    BY <2>1, <2>2 DEF IsInjective
  <2> QED
    BY <2>1, <2>3 DEF Injection
<1>5. rank \in Surjection(E, 1..n)
  <2>1. IsFiniteSet(1..n) /\ Cardinality(1..n) = n
    BY <1>1, FS_Interval
  <2> QED
    BY <1>4, <2>1, FS_Injection
<1>6. \A k \in 1..n : \E x \in E : rank[x] = k
  BY <1>5 DEF Surjection
<1> DEFINE f == [k \in 1..n |-> CHOOSE x \in E : rank[x] = k]
<1>7. f \in [1..n -> E] /\ \A k \in 1..n : rank[f[k]] = k
  BY <1>6
<1> HIDE DEF f
<1>8. \A k, l \in 1..n : k < l => <<f[k], f[l]>> \in R
  <2> SUFFICES ASSUME NEW k \in 1..n, NEW l \in 1..n, k < l PROVE <<f[k], f[l]>> \in R
    OBVIOUS
  <2>1. f[k] \in E /\ f[l] \in E /\ f[k] # f[l]
    BY <1>7
  <2>2. <<f[l], f[k]>> \in R => l < k
    BY <1>3, <1>7, <2>1
  <2> QED
    BY <2>1, <2>2
<1>9. \A x \in E : \E k \in 1..n : f[k] = x
  <2> TAKE x \in E
  <2>1. rank[x] \in 1..n /\ rank[f[rank[x]]] = rank[x] /\ f[rank[x]] \in E
    BY <1>2, <1>7
  <2>2. f[rank[x]] = x
    BY <1>4, <2>1 DEF Injection, IsInjective
  <2> QED
    BY <2>1, <2>2
<1> QED
  BY <1>7, <1>8, <1>9

\* A set as a sequence has the elements of the set, each of them once.
LEMMA SetAsSeq ==
    ASSUME NEW E, IsFiniteSet(E)
    PROVE  /\ SetToSeq(E) \in [1..Cardinality(E) -> E]
           /\ IsInjective(SetToSeq(E))
           /\ \A x \in E : \E k \in DOMAIN SetToSeq(E) : SetToSeq(E)[k] = x
<1>1. \E f \in [1..Cardinality(E) -> E] : IsInjective(f)
  BY FS_CardinalityType DEF ExistsBijection, Bijection, Injection
<1>2. SetToSeq(E) \in [1..Cardinality(E) -> E] /\ IsInjective(SetToSeq(E))
  BY <1>1 DEF SetToSeq
<1>3. SetToSeq(E) \in Surjection(1..Cardinality(E), E)
  <2>1. Cardinality(E) \in Nat
    BY FS_CardinalityType
  <2>2. Cardinality(1..Cardinality(E)) = Cardinality(E)
    BY <2>1, FS_Interval
  <2> QED
    BY <1>2, <2>2, FS_Injection DEF Injection
<1> QED
  BY <1>2, <1>3 DEF Surjection

\* A set of natural numbers has a least one.
LEMMA MinIsThere ==
    ASSUME NEW numbers \in SUBSET Nat, numbers # {}
    PROVE  Min(numbers) \in numbers /\ \A y \in numbers : Min(numbers) <= y
<1> DEFINE R == OpToRel(<, Nat)
<1>1. PICK x \in numbers : \A y \in numbers : ~ (<<y, x>> \in R)
  <2>1. IsWellFoundedOn(R, Nat)
    BY NatLessThanWellFounded DEF R
  <2> HIDE DEF R
  <2> QED
    BY <2>1, WFMin
<1>2. \A y \in numbers : ~ (y < x)
  BY <1>1 DEF OpToRel
<1>3. \A y \in numbers : x <= y
  BY <1>2
<1> QED
  BY <1>3 DEF Min

\* The greatest of some of the first numbers.
LEMMA MaxIsThere ==
    ASSUME NEW n \in Nat, NEW numbers \in SUBSET (0..n), numbers # {}
    PROVE  Max(numbers) \in numbers /\ \A y \in numbers : y <= Max(numbers)
<1> DEFINE distances == {n - x : x \in numbers}
<1>1. distances \in SUBSET Nat /\ distances # {}
  <2>1. \A x \in numbers : n - x \in Nat
    OBVIOUS
  <2>2. PICK x \in numbers : TRUE
    OBVIOUS
  <2>3. n - x \in distances
    OBVIOUS
  <2> QED
    BY <2>1, <2>3
<1>2. Min(distances) \in distances /\ \A d \in distances : Min(distances) <= d
  <2> HIDE DEF distances
  <2> QED
    BY <1>1, MinIsThere
<1>3. PICK x \in numbers : Min(distances) = n - x
  BY <1>2
<1>4. \A y \in numbers : n - x <= n - y
  BY <1>2, <1>3
<1>5. \A y \in numbers : x >= y
  BY <1>4
<1> QED
  BY <1>5 DEF Max

-----------------------------------------------------------------------------
(* The in-memory session store.  Its operations are atomic, so the invariant *)
(* is short: the variables have their types, and the record's generation is  *)
(* among those stored.  What a client has seen may be of any age; that it    *)
(* can do no harm is shown where it is used, in ReplaceRenews.               *)

MapRecords == [session : Sessions, expiresAt : Nat]

\* The generation of the record was stored, as every live one was.
RecordWasStored == Present => record.session.sessionGeneration \in stored

MapInv == MapTypeOK /\ RecordWasStored

-----------------------------------------------------------------------------
(* The invariant                                                             *)

LEMMA SlidType ==
    ASSUME now \in Nat, NEW s \in Sessions
    PROVE  /\ Slid(s) \in MapRecords
           /\ Slid(s) # NoRecord
           /\ Slid(s).session = s
           /\ ~ (now > Slid(s).expiresAt)
BY LifetimesAssumption, MapNullsAssumption DEF Slid, MapRecords

LEMMA LiveIsPresent ==
    ASSUME MapInv, NEW generation, Decision(generation) = "live"
    PROVE  /\ Present /\ ~ Expired
           /\ record \in MapRecords /\ record.session \in Sessions
BY DEF Decision, MapInv, MapTypeOK, Present, MapRecords

LEMMA LoginType ==
    ASSUME MapInv, NEW generation \in Generations, NEW capture \in Captures
    PROVE  /\ LoginSession(generation, capture) \in Sessions
           /\ LoginSession(generation, capture).sessionGeneration = generation
<1>1. capture \in [ssoCookie : Cookies \cup {NoCookie}, kulonCookie : Cookies,
                   siapCookie : Cookies \cup {NoCookie}, other : Others]
  BY MapCapturesAssumption
<1> QED
  BY <1>1 DEF LoginSession, Sessions, MapInv, MapTypeOK

\* A replacement that is accepted is a session of the generation of what its
\* caller saw.
LEMMA RenewalType ==
    ASSUME NEW s \in Sessions, NEW r, IsUpstreamCookieRenewal(s.sessionGeneration, s, r)
    PROVE  \E field \in CookieFields :
              /\ r[field] \in Cookies => r \in Sessions
              /\ r[field] # NoCookie /\ r[field] # s[field]
              /\ r = [s EXCEPT ![field] = r[field]]
              /\ r.sessionGeneration = s.sessionGeneration
<1>1. PICK field \in CookieFields : IsCookieRenewal(field, s.sessionGeneration, s, r)
  BY DEF IsUpstreamCookieRenewal
<1>2. r = [s EXCEPT ![field] = r[field]]
  BY <1>1 DEF IsCookieRenewal
<1>3. r[field] \in Cookies => r \in Sessions
  BY <1>2 DEF Sessions, CookieFields
<1> QED
  BY <1>1, <1>2, <1>3 DEF IsCookieRenewal

LEMMA ReplacementType ==
    ASSUME NEW s \in Sessions, NEW r \in Replacements(s)
    PROVE  r \in Sessions
BY DEF Replacements, Sessions, CookieFields

\* A record that is deleted, slid or left as it is, by a step that stores no
\* new generation.
LEMMA RecordStays ==
    ASSUME MapInv, stored' = stored, now' \in Nat,
           seen' \in [Clients -> Sessions \cup {NoSession}],
           \/ record' = NoRecord
           \/ record' = record
           \/ \E s \in Sessions : record' = Slid(s) /\ s.sessionGeneration \in stored
    PROVE  MapInv'
<1>1. /\ record \in MapRecords \cup {NoRecord}
      /\ now \in Nat
  BY DEF MapInv, MapTypeOK, MapRecords
<1>2. record' \in MapRecords \cup {NoRecord}
  BY <1>1, SlidType
<1>3. RecordWasStored'
  BY <1>1, SlidType DEF MapInv, RecordWasStored, Present
<1> QED
  BY <1>2, <1>3 DEF MapInv, MapTypeOK, MapRecords

LEMMA SetKeeps ==
    ASSUME MapInv, NEW generation \in Generations, NEW capture \in Captures,
           Set(generation, capture)
    PROVE  MapInv'
<1> DEFINE s == LoginSession(generation, capture)
<1>1. s \in Sessions /\ s.sessionGeneration = generation /\ now \in Nat
  BY LoginType DEF MapInv, MapTypeOK
<1>2. record' = Slid(s) /\ stored' = stored \cup {generation} /\ UNCHANGED <<now, seen>>
  BY DEF Set
<1>3. record' \in MapRecords /\ record'.session = s
  BY <1>1, <1>2, SlidType
<1> QED
  BY <1>1, <1>2, <1>3 DEF MapInv, MapTypeOK, MapRecords, RecordWasStored, Present

LEMMA ReadKeeps ==
    ASSUME MapInv, NEW c \in Clients, NEW generation, Read(c, generation)
    PROVE  MapInv'
<1>1. stored' = stored /\ now' = now /\ now \in Nat
  BY DEF Read, MapInv, MapTypeOK
<1>2. CASE Decision(generation) = "live"
  <2>1. record.session \in Sessions /\ Present
    BY <1>2, LiveIsPresent
  <2>2. record.session.sessionGeneration \in stored
    BY <2>1 DEF MapInv, RecordWasStored
  <2>3. /\ record' = Slid(record.session)
        /\ seen' \in [Clients -> Sessions \cup {NoSession}]
    BY <1>2, <2>1 DEF Read, MapInv, MapTypeOK
  <2> QED
    BY <1>1, <2>1, <2>2, <2>3, RecordStays
<1>3. CASE Decision(generation) # "live"
  <2>1. /\ record' = NoRecord \/ record' = record
        /\ seen' \in [Clients -> Sessions \cup {NoSession}]
    BY <1>3 DEF Read, DeleteIfDead, MapInv, MapTypeOK
  <2> QED
    BY <1>1, <2>1, RecordStays
<1> QED
  BY <1>2, <1>3

LEMMA ReplaceKeeps ==
    ASSUME MapInv, NEW c \in Clients, NEW r \in Replacements(seen[c]),
           ReplaceIfUnchanged(c, r)
    PROVE  MapInv'
<1>1. /\ seen[c] \in Sessions
      /\ stored' = stored /\ now' = now /\ seen' = seen /\ now \in Nat
      /\ seen \in [Clients -> Sessions \cup {NoSession}]
  BY DEF ReplaceIfUnchanged, MapInv, MapTypeOK
<1>2. r \in Sessions
  BY <1>1, ReplacementType
<1>3. CASE record' = NoRecord \/ record' = record
  BY <1>1, <1>3, RecordStays
<1>4. CASE /\ Decision(seen[c].sessionGeneration) = "live"
           /\ SameCapturedSession(record.session, seen[c])
           /\ IsUpstreamCookieRenewal(seen[c].sessionGeneration, seen[c], r)
           /\ record' = Slid(r)
  <2>1. Present /\ record.session = seen[c]
    BY <1>4, LiveIsPresent DEF SameCapturedSession
  <2>2. r.sessionGeneration = record.session.sessionGeneration
    BY <1>1, <1>4, <2>1, RenewalType
  <2>3. r.sessionGeneration \in stored
    BY <2>1, <2>2 DEF MapInv, RecordWasStored
  <2> QED
    BY <1>1, <1>2, <1>4, <2>3, RecordStays
<1> QED
  BY <1>3, <1>4 DEF ReplaceIfUnchanged, DeleteIfDead

LEMMA OthersKeep ==
    ASSUME MapInv,
           \/ \E generation \in stored : ClearIfGeneration(generation)
           \/ \E c \in Clients : All(c)
           \/ Tick \/ Restart
    PROVE  MapInv'
<1>1. CASE \E generation \in stored : ClearIfGeneration(generation)
  BY <1>1, RecordStays DEF ClearIfGeneration, MapInv, MapTypeOK
<1>2. CASE \E c \in Clients : All(c)
  <2>1. PICK c \in Clients : All(c)
    BY <1>2
  <2>2. Present => record.session \in Sessions
    BY DEF Present, MapInv, MapTypeOK
  <2>3. seen' \in [Clients -> Sessions \cup {NoSession}]
    BY <2>1, <2>2 DEF All, MapInv, MapTypeOK
  <2>4. /\ stored' = stored /\ now' \in Nat
        /\ record' = NoRecord \/ record' = record
    BY <2>1 DEF All, MapInv, MapTypeOK
  <2> QED
    BY <2>3, <2>4, RecordStays
<1>3. CASE Tick \/ Restart
  BY <1>3, RecordStays DEF Tick, Restart, MapInv, MapTypeOK
<1> QED
  BY <1>1, <1>2, <1>3

LEMMA MapInitially == MapInit => MapInv
BY DEF MapInit, MapInv, MapTypeOK, RecordWasStored, Present

LEMMA MapStepKeeps == MapInv /\ [MapNext]_mapVars => MapInv'
<1>1. ASSUME MapInv, UNCHANGED mapVars PROVE MapInv'
  BY <1>1 DEF mapVars, MapInv, MapTypeOK, RecordWasStored, Present
<1>2. ASSUME MapInv, MapNext PROVE MapInv'
  BY <1>2, SetKeeps, ReadKeeps, ReplaceKeeps, OthersKeep DEF MapNext
<1> QED
  BY <1>1, <1>2

\* The types of the Map adapter, and that what it holds was stored in it, are
\* kept by each of its operations.
THEOREM MapInvariant == MapSpec => []MapInv
BY MapInitially, MapStepKeeps, PTL DEF MapSpec

\* Every variable of the Map adapter keeps its type: a read never hands out
\* anything but a session or null.
THEOREM MapTypeCorrect == MapSpec => []MapTypeOK
<1>1. MapInv => MapTypeOK
  BY DEF MapInv
<1> QED
  BY <1>1, MapInvariant, PTL

-----------------------------------------------------------------------------
(* Refinement                                                                *)

LEMMA MapRecordTypes ==
    ASSUME MapInv
    PROVE  /\ MapRecord \in Sessions \cup {NoSession}
           /\ MapRecord # NoSession => /\ Present /\ ~ Expired
                                       /\ MapRecord = record.session
                                       /\ MapGeneration = {MapRecord.sessionGeneration}
                                       /\ MapRecord.sessionGeneration \in stored
           /\ MapRecord = NoSession => MapGeneration = {}
<1>1. Present => record.session \in Sessions /\ record.session.sessionGeneration \in stored
  BY DEF MapInv, MapTypeOK, RecordWasStored, Present
<1> QED
  BY <1>1 DEF MapRecord, MapGeneration

LEMMA MapEndingIsStored ==
    ASSUME MapInv
    PROVE  MapLife!Ending = stored
BY MapRecordTypes DEF MapLife!Ending, MapLife!Live

LEMMA MapRecordGone ==
    ASSUME MapInv, MapRecord' = NoSession, stored' = stored
    PROVE  MapLife!End \/ UNCHANGED <<MapRecord, stored \ MapGeneration>>
<1>1. MapGeneration' = {}
  BY DEF MapGeneration
<1>2. CASE MapRecord = NoSession
  BY <1>1, <1>2, MapRecordTypes
<1>3. CASE MapRecord # NoSession
  BY <1>1, <1>3, MapEndingIsStored DEF MapLife!End, MapLife!Live
<1> QED
  BY <1>2, <1>3

LEMMA MapRecordKept ==
    ASSUME MapRecord' = MapRecord, stored' = stored
    PROVE  UNCHANGED <<MapRecord, stored \ MapGeneration>>
BY DEF MapGeneration

\* What is slid is what a caller finds.
LEMMA MapRecordSlid ==
    ASSUME MapInv, NEW s \in Sessions, record' = Slid(s), now' = now
    PROVE  MapRecord' = s
<1>1. now \in Nat
  BY DEF MapInv, MapTypeOK
<1> QED
  BY <1>1, SlidType DEF MapRecord, Present, Expired

LEMMA SetEstablishes ==
    ASSUME MapInv, NEW generation \in Generations, NEW capture \in Captures,
           Set(generation, capture)
    PROVE  MapLife!Establish
<1> DEFINE s == LoginSession(generation, capture)
<1>1. s \in Sessions /\ s.sessionGeneration = generation
  BY LoginType
<1>2. MapRecord' = s
  BY <1>1, MapRecordSlid DEF Set
<1>3. s # NoSession
  BY <1>1, MapNullsAssumption
<1>4. MapGeneration' = {generation}
  BY <1>1, <1>2, <1>3 DEF MapGeneration
<1>5. stored' \ MapGeneration' = stored /\ generation \notin stored
  BY <1>4 DEF Set
<1> QED
  BY <1>1, <1>2, <1>5, MapEndingIsStored DEF MapLife!Establish, MapLife!Sessions, Sessions

\* The snapshot a renewal starts from may be as old as it likes: the record is
\* still that snapshot when it is replaced, or nothing is.
LEMMA ReplaceRenews ==
    ASSUME MapInv, NEW c \in Clients, NEW r \in Replacements(seen[c]),
           ReplaceIfUnchanged(c, r)
    PROVE  \/ \E field \in CookieFields, cookie \in Cookies : MapLife!Renew(field, cookie)
           \/ MapLife!End
           \/ UNCHANGED <<MapRecord, stored \ MapGeneration>>
<1>1. /\ seen[c] \in Sessions
      /\ stored' = stored /\ now' = now
  BY DEF ReplaceIfUnchanged, MapInv, MapTypeOK
<1>2. r \in Sessions
  BY <1>1, ReplacementType
<1>3. CASE record' = NoRecord
  BY <1>1, <1>3, MapRecordGone DEF MapRecord, Present
<1>4. CASE record' = record
  BY <1>1, <1>4, MapRecordKept DEF MapRecord, Present, Expired
<1>5. CASE /\ Decision(seen[c].sessionGeneration) = "live"
           /\ SameCapturedSession(record.session, seen[c])
           /\ IsUpstreamCookieRenewal(seen[c].sessionGeneration, seen[c], r)
           /\ record' = Slid(r)
  <2>1. MapRecord = seen[c] /\ seen[c] # NoSession
    BY <1>1, <1>5, LiveIsPresent, MapNullsAssumption DEF SameCapturedSession, MapRecord
  <2>2. MapRecord' = r /\ r # NoSession
    BY <1>1, <1>2, <1>5, MapRecordSlid, MapNullsAssumption
  <2>3. PICK field \in CookieFields :
              /\ r[field] # NoCookie /\ r[field] # seen[c][field]
              /\ r = [seen[c] EXCEPT ![field] = r[field]]
              /\ r.sessionGeneration = seen[c].sessionGeneration
    BY <1>1, <1>5, RenewalType
  <2>4. r[field] \in Cookies
    BY <1>2, <2>3 DEF Sessions, CookieFields
  <2>5. MapGeneration' = MapGeneration
    BY <2>1, <2>2, <2>3 DEF MapGeneration
  <2>6. MapLife!Renew(field, r[field])
    BY <1>1, <2>1, <2>2, <2>3, <2>5 DEF MapLife!Renew, MapLife!Live
  <2> QED
    BY <2>4, <2>6
<1> QED
  BY <1>3, <1>4, <1>5 DEF ReplaceIfUnchanged, DeleteIfDead

LEMMA ReadEndsOrKeeps ==
    ASSUME MapInv, NEW c \in Clients, NEW generation, Read(c, generation)
    PROVE  MapLife!End \/ UNCHANGED <<MapRecord, stored \ MapGeneration>>
<1>1. stored' = stored /\ now' = now
  BY DEF Read
<1>2. CASE Decision(generation) = "live"
  <2>1. record.session \in Sessions /\ MapRecord = record.session
    BY <1>2, LiveIsPresent DEF MapRecord
  <2>2. MapRecord' = record.session
    BY <1>1, <1>2, <2>1, MapRecordSlid DEF Read
  <2> QED
    BY <1>1, <2>1, <2>2, MapRecordKept
<1>3. CASE Decision(generation) # "live"
  <2>1. record' = NoRecord \/ record' = record
    BY <1>3 DEF Read, DeleteIfDead
  <2>2. MapRecord' = NoSession \/ MapRecord' = MapRecord
    BY <1>1, <2>1 DEF MapRecord, Present, Expired
  <2> QED
    BY <1>1, <2>2, MapRecordGone, MapRecordKept
<1> QED
  BY <1>2, <1>3

\* A tick may be the one at which the sliding lifetime ends.
LEMMA OthersEndOrKeep ==
    ASSUME MapInv,
           \/ \E generation \in stored : ClearIfGeneration(generation)
           \/ \E c \in Clients : All(c)
           \/ Tick \/ Restart
           \/ UNCHANGED mapVars
    PROVE  MapLife!End \/ UNCHANGED <<MapRecord, stored \ MapGeneration>>
<1>1. stored' = stored
  BY DEF ClearIfGeneration, All, Tick, Restart, mapVars
<1>2. \/ record' = NoRecord
      \/ record' = record /\ now' \in {now, now + 1}
  BY DEF ClearIfGeneration, All, Tick, Restart, mapVars
<1>3. record # NoRecord => record.expiresAt \in Nat /\ now \in Nat
  BY DEF MapInv, MapTypeOK
<1>4. MapRecord' = NoSession \/ MapRecord' = MapRecord
  BY <1>2, <1>3 DEF MapRecord, Present, Expired
<1> QED
  BY <1>1, <1>4, MapRecordGone, MapRecordKept

\* The Map adapter implements SessionLife, as the Redis adapter does: a session
\* that was cleared, replaced or expired never comes back, whatever snapshot of
\* it a caller still holds, and a renewal changes one cookie of the live one.
THEOREM MapImplementsLife == MapSpec => MapLifeRefined
<1>1. MapInit => MapLife!LifeInit
  BY DEF MapInit, MapRecord, MapGeneration, Present, MapLife!LifeInit
<1>2. MapInv /\ [MapNext]_mapVars => [MapLife!LifeNext]_(MapLife!lifeVars)
  <2> SUFFICES ASSUME MapInv, [MapNext]_mapVars
               PROVE  [MapLife!LifeNext]_(MapLife!lifeVars)
    OBVIOUS
  <2>1. CASE \E generation \in Generations, capture \in Captures : Set(generation, capture)
    BY <2>1, SetEstablishes DEF MapLife!LifeNext
  <2>2. CASE \E c \in Clients, generation \in stored \cup {NoGeneration} : Read(c, generation)
    BY <2>2, ReadEndsOrKeeps DEF MapLife!LifeNext, MapLife!lifeVars
  <2>3. CASE \E c \in Clients :
               seen[c] # NoSession
               /\ \E r \in Replacements(seen[c]) : ReplaceIfUnchanged(c, r)
    BY <2>3, ReplaceRenews
       DEF MapLife!LifeNext, MapLife!lifeVars, MapLife!CookieFields, CookieFields
  <2>4. CASE \/ \E generation \in stored : ClearIfGeneration(generation)
             \/ \E c \in Clients : All(c)
             \/ Tick \/ Restart
             \/ UNCHANGED mapVars
    BY <2>4, OthersEndOrKeep DEF MapLife!LifeNext, MapLife!lifeVars
  <2> QED
    BY <2>1, <2>2, <2>3, <2>4 DEF MapNext
<1> QED
  BY <1>1, <1>2, MapInvariant, PTL DEF MapSpec, MapLifeRefined, MapLife!LifeSpec

-----------------------------------------------------------------------------
(* The pairing card.  A handle is set exactly if its timer ticks, and a code *)
(* on a mounted card is asked about, or about to be replaced.                *)

CardTypes ==
    /\ issued \in Nat
    /\ card \in [mounted : BOOLEAN, data : Nat, loading : BOOLEAN, error : BOOLEAN,
                 consumed : BOOLEAN]
    /\ timers \in [poll : Nat, refresh : BOOLEAN, countdown : Nat,
                   polling : SUBSET Nat, refreshes : Nat, counting : SUBSET Nat]

HandlesTell(t) ==
    /\ t.polling = IF t.poll = NoCode THEN {} ELSE {t.poll}
    /\ t.counting = IF t.countdown = NoCode THEN {} ELSE {t.countdown}
    /\ t.refreshes = IF t.refresh THEN 1 ELSE 0

Watched1(c, t) ==
    c.data # NoCode =>
        /\ t.countdown \in {NoCode, c.data}
        /\ c.mounted => \/ t.poll = c.data /\ ~ t.refresh
                        \/ t.poll = NoCode /\ t.refresh /\ c.consumed

CardInv == CardTypes /\ HandlesTell(timers) /\ Watched1(card, timers)

Timers == [poll : Nat, refresh : BOOLEAN, countdown : Nat,
           polling : SUBSET Nat, refreshes : Nat, counting : SUBSET Nat]

LEMMA StopPollingShape ==
    ASSUME NEW t \in Timers, HandlesTell(t)
    PROVE  /\ stopPolling(t) \in Timers /\ HandlesTell(stopPolling(t))
           /\ stopPolling(t).poll = NoCode /\ ~ stopPolling(t).refresh
           /\ stopPolling(t).countdown = t.countdown
           /\ stopPolling(t).polling = {} /\ stopPolling(t).refreshes = 0
<1>1. /\ t.polling \ {t.poll} = {}
      /\ (IF t.refresh THEN t.refreshes - 1 ELSE t.refreshes) = 0
  BY DEF HandlesTell, Timers
<1>2. stopPolling(t) = [t EXCEPT !.polling = {}, !.poll = NoCode, !.refreshes = 0,
                                 !.refresh = FALSE]
  BY <1>1 DEF stopPolling, Timers
<1>3. PICK u : u = [t EXCEPT !.polling = {}, !.poll = NoCode, !.refreshes = 0,
                             !.refresh = FALSE]
  OBVIOUS
<1>4. /\ u \in Timers
      /\ u.poll = NoCode /\ u.polling = {} /\ ~ u.refresh /\ u.refreshes = 0
      /\ u.countdown = t.countdown /\ u.counting = t.counting
  BY <1>3 DEF Timers, NoCode
<1> QED
  BY <1>2, <1>3, <1>4 DEF HandlesTell

LEMMA StopTimerShape ==
    ASSUME NEW t \in Timers, HandlesTell(t)
    PROVE  /\ stopTimer(t) \in Timers /\ HandlesTell(stopTimer(t))
           /\ stopTimer(t).countdown = NoCode /\ stopTimer(t).counting = {}
           /\ stopTimer(t).poll = t.poll /\ stopTimer(t).refresh = t.refresh
BY DEF stopTimer, HandlesTell, Timers, NoCode

LEMMA StartTimerShape ==
    ASSUME NEW t \in Timers, HandlesTell(t), NEW code \in Nat \ {0}
    PROVE  /\ startTimer(t, code) \in Timers /\ HandlesTell(startTimer(t, code))
           /\ startTimer(t, code).countdown = code
<1>1. PICK u \in Timers : u = stopTimer(t)
  BY StopTimerShape
<1>2. HandlesTell(u) /\ u.countdown = NoCode /\ u.counting = {}
  BY <1>1, StopTimerShape
<1>3. startTimer(t, code) = [u EXCEPT !.countdown = code, !.counting = {code}]
  BY <1>1, <1>2 DEF startTimer, Timers
<1>4. PICK w : w = [u EXCEPT !.countdown = code, !.counting = {code}]
  OBVIOUS
<1>5. /\ w \in Timers /\ w.countdown = code /\ w.counting = {code}
      /\ w.polling = u.polling /\ w.poll = u.poll /\ w.refresh = u.refresh
      /\ w.refreshes = u.refreshes
  BY <1>4 DEF Timers
<1> QED
  BY <1>2, <1>3, <1>4, <1>5 DEF HandlesTell, NoCode

LEMMA StartPollingShape ==
    ASSUME NEW t \in Timers, HandlesTell(t), NEW code \in Nat \ {0}
    PROVE  /\ startPolling(t, code) \in Timers /\ HandlesTell(startPolling(t, code))
           /\ startPolling(t, code).countdown = t.countdown
           /\ startPolling(t, code).poll = code /\ ~ startPolling(t, code).refresh
<1>1. PICK u \in Timers : u = stopPolling(t)
  BY StopPollingShape
<1>2. /\ HandlesTell(u) /\ u.countdown = t.countdown /\ ~ u.refresh
      /\ u.poll = NoCode /\ u.polling = {}
  BY <1>1, StopPollingShape
<1>3. startPolling(t, code) = [u EXCEPT !.poll = code, !.polling = {code}]
  BY <1>1, <1>2 DEF startPolling, Timers
<1>4. PICK w : w = [u EXCEPT !.poll = code, !.polling = {code}]
  OBVIOUS
<1>5. /\ w \in Timers /\ w.poll = code /\ w.polling = {code}
      /\ w.counting = u.counting /\ w.countdown = u.countdown /\ w.refresh = u.refresh
      /\ w.refreshes = u.refreshes
  BY <1>4 DEF Timers
<1> QED
  BY <1>2, <1>3, <1>4, <1>5 DEF HandlesTell, NoCode

LEMMA RequestKeeps ==
    ASSUME CardInv, requestCode(timers)
    PROVE  CardInv'
<1>1. timers \in Timers /\ HandlesTell(timers)
  BY DEF CardInv, CardTypes, Timers
<1>2. timers' \in Timers /\ HandlesTell(timers')
  BY <1>1, StopPollingShape DEF requestCode
<1>3. /\ issued' = issued /\ card'.data = NoCode
      /\ card' \in [mounted : BOOLEAN, data : Nat, loading : BOOLEAN, error : BOOLEAN,
                    consumed : BOOLEAN]
  BY DEF requestCode, CardInv, CardTypes, NoCode
<1> QED
  BY <1>2, <1>3 DEF CardInv, CardTypes, Timers, Watched1

LEMMA CodeAnswersKeeps ==
    ASSUME CardInv, CodeAnswers
    PROVE  CardInv'
<1>1. timers \in Timers /\ HandlesTell(timers) /\ issued + 1 \in Nat \ {0}
  BY DEF CardInv, CardTypes, Timers
<1>2. PICK u \in Timers : u = startTimer(timers, issued + 1)
  BY <1>1, StartTimerShape
<1>3. HandlesTell(u) /\ u.countdown = issued + 1
  BY <1>1, <1>2, StartTimerShape
<1>4. timers' = startPolling(u, issued + 1)
  BY <1>2 DEF CodeAnswers
<1>5. /\ timers' \in Timers /\ HandlesTell(timers')
      /\ timers'.countdown = issued + 1 /\ timers'.poll = issued + 1 /\ ~ timers'.refresh
  BY <1>1, <1>3, <1>4, StartPollingShape
<1>6. /\ issued' = issued + 1 /\ card'.data = issued + 1
      /\ card' \in [mounted : BOOLEAN, data : Nat, loading : BOOLEAN, error : BOOLEAN,
                    consumed : BOOLEAN]
  BY <1>1 DEF CodeAnswers, CardInv, CardTypes
<1> QED
  BY <1>1, <1>5, <1>6 DEF CardInv, CardTypes, Timers, Watched1

LEMMA StatusKeeps ==
    ASSUME CardInv, NEW code, StatusAnswers(code)
    PROVE  CardInv'
<1>1. timers \in Timers /\ HandlesTell(timers)
  BY DEF CardInv, CardTypes, Timers
<1>2. issued' = issued
  BY DEF StatusAnswers
<1>3. CASE UNCHANGED <<card, timers>>
  BY <1>2, <1>3 DEF CardInv, CardTypes
<1>4. CASE /\ card' = [card EXCEPT !.consumed = TRUE]
           /\ timers' = [stopPolling(timers) EXCEPT !.refresh = TRUE, !.refreshes = @ + 1]
  <2>1. PICK u \in Timers : u = stopPolling(timers)
    BY <1>1, StopPollingShape
  <2>2. /\ HandlesTell(u) /\ u.poll = NoCode /\ ~ u.refresh
        /\ u.countdown = timers.countdown /\ u.refreshes = 0
    BY <1>1, <2>1, StopPollingShape
  <2>3. timers' = [u EXCEPT !.refresh = TRUE, !.refreshes = 1]
    BY <1>4, <2>1, <2>2 DEF Timers
  <2>4. /\ timers' \in Timers /\ HandlesTell(timers')
        /\ timers'.poll = NoCode /\ timers'.refresh /\ timers'.countdown = timers.countdown
    BY <2>2, <2>3 DEF Timers, HandlesTell
  <2>5. /\ card' \in [mounted : BOOLEAN, data : Nat, loading : BOOLEAN, error : BOOLEAN,
                      consumed : BOOLEAN]
        /\ card'.data = card.data /\ card'.mounted = card.mounted /\ card'.consumed
    BY <1>4 DEF CardInv, CardTypes
  <2> QED
    BY <1>2, <2>4, <2>5 DEF CardInv, CardTypes, Timers, Watched1
<1> QED
  BY <1>3, <1>4 DEF StatusAnswers

LEMMA CountdownKeeps ==
    ASSUME CardInv, CountdownEnds
    PROVE  CardInv'
<1>1. timers \in Timers /\ HandlesTell(timers)
  BY DEF CardInv, CardTypes, Timers
<1>2. timers' = stopTimer(timers) /\ UNCHANGED <<card, issued>>
  BY DEF CountdownEnds
<1> QED
  BY <1>1, <1>2, StopTimerShape DEF CardInv, CardTypes, Timers, Watched1

LEMMA UnmountKeeps ==
    ASSUME CardInv, Unmount
    PROVE  CardInv'
<1>1. timers \in Timers /\ HandlesTell(timers)
  BY DEF CardInv, CardTypes, Timers
<1>2. PICK u \in Timers : u = stopTimer(timers)
  BY <1>1, StopTimerShape
<1>3. HandlesTell(u) /\ u.countdown = NoCode
  BY <1>1, <1>2, StopTimerShape
<1>4. timers' = stopPolling(u) /\ issued' = issued
  BY <1>2 DEF Unmount
<1>5. timers' \in Timers /\ HandlesTell(timers') /\ timers'.countdown = NoCode
  BY <1>3, <1>4, StopPollingShape
<1>6. /\ card' \in [mounted : BOOLEAN, data : Nat, loading : BOOLEAN, error : BOOLEAN,
                    consumed : BOOLEAN]
      /\ ~ card'.mounted
  BY DEF Unmount, CardInv, CardTypes
<1> QED
  BY <1>4, <1>5, <1>6 DEF CardInv, CardTypes, Timers, Watched1

LEMMA CardQuietKeeps ==
    ASSUME CardInv,
           \/ CodeFails
           \/ \E code \in Codes : PollTick(code) \/ CodeUsed(code)
           \/ UNCHANGED cardVars
    PROVE  CardInv'
<1>1. /\ UNCHANGED <<timers, issued>>
      /\ \/ card' = card
         \/ card' = [card EXCEPT !.error = TRUE, !.loading = FALSE]
  BY DEF CodeFails, PollTick, CodeUsed, cardVars
<1>2. /\ card' \in [mounted : BOOLEAN, data : Nat, loading : BOOLEAN, error : BOOLEAN,
                    consumed : BOOLEAN]
      /\ card'.data = card.data /\ card'.mounted = card.mounted
      /\ card'.consumed = card.consumed
  BY <1>1 DEF CardInv, CardTypes
<1> QED
  BY <1>1, <1>2 DEF CardInv, CardTypes, Watched1

LEMMA CardKeeps == CardInv /\ [CardNext]_cardVars => CardInv'
BY RequestKeeps, CodeAnswersKeeps, StatusKeeps, CountdownKeeps, UnmountKeeps, CardQuietKeeps
   DEF CardNext, Click, RefreshFires

LEMMA CardInitially == CardInit => CardInv
BY DEF CardInit, CardInv, CardTypes, HandlesTell, Watched1, NoTimer, NoCode

LEMMA CardTells == CardInv => CardWatchesShownCode /\ OneTimerEach
<1> SUFFICES ASSUME CardInv PROVE CardWatchesShownCode /\ OneTimerEach
  OBVIOUS
<1>1. /\ timers.polling = {} \/ timers.polling = {timers.poll}
      /\ timers.counting = {} \/ timers.counting = {timers.countdown}
      /\ timers.refreshes \in {0, 1}
  BY DEF CardInv, HandlesTell
<1>2. ASSUME NEW ticking, NEW x, ticking = {} \/ ticking = {x}
      PROVE  Cardinality(ticking) <= 1
  <2>1. Cardinality({}) = 0 /\ Cardinality({x}) = 1
    BY FS_EmptySet, FS_Singleton
  <2> QED
    BY <1>2, <2>1
<1>3. CardWatchesShownCode
  BY DEF CardInv, CardTypes, HandlesTell, Watched1, CardWatchesShownCode, NoCode
<1> QED
  <2>1. Cardinality(timers.polling) <= 1 /\ Cardinality(timers.counting) <= 1
    BY <1>1, <1>2
  <2> QED
    BY <1>1, <1>3, <2>1 DEF OneTimerEach

LEMMA RemoveAtShape ==
    ASSUME NEW Elems, NEW s \in Seq(Elems), NEW n \in DOMAIN s
    PROVE  /\ RemoveAt(s, n) \in Seq(Elems)
           /\ Len(RemoveAt(s, n)) = Len(s) - 1
           /\ \A i \in DOMAIN RemoveAt(s, n) : \E j \in DOMAIN s : RemoveAt(s, n)[i] = s[j]
<1>1. n \in 1..Len(s) /\ Len(s) \in Nat /\ \A i \in 1..Len(s) : s[i] \in Elems
  OBVIOUS
<1>2. PICK a : a = SubSeq(s, 1, n - 1)
  OBVIOUS
<1>3. /\ a \in Seq(Elems) /\ Len(a) = n - 1
      /\ \A i \in 1..(n - 1) : a[i] = s[i]
  BY <1>1, <1>2
<1>4. PICK b : b = SubSeq(s, n + 1, Len(s))
  OBVIOUS
<1>5. /\ b \in Seq(Elems) /\ Len(b) = Len(s) - n
      /\ \A i \in 1..(Len(s) - n) : b[i] = s[n + i]
  BY <1>1, <1>4
<1>6. RemoveAt(s, n) = a \o b
  BY <1>2, <1>4 DEF RemoveAt
<1>7. a \o b \in Seq(Elems) /\ Len(a \o b) = Len(s) - 1
  BY <1>1, <1>3, <1>5
<1>8. ASSUME NEW i \in 1..(Len(s) - 1) PROVE \E j \in DOMAIN s : (a \o b)[i] = s[j]
  <2>1. CASE i <= n - 1
    <3>1. (a \o b)[i] = s[i] /\ i \in DOMAIN s
      BY <1>1, <1>3, <1>5, <2>1
    <3> QED
      BY <3>1
  <2>2. CASE i > n - 1
    <3>1. PICK k \in 1..(Len(s) - n) : k = i - (n - 1)
      BY <1>1, <2>2
    <3>2. (a \o b)[Len(a) + k] = b[k]
      BY <1>3, <1>5
    <3>3. i = Len(a) + k
      BY <1>1, <1>3, <3>1
    <3>4. b[k] = s[n + k] /\ n + k \in DOMAIN s
      BY <1>1, <1>5
    <3> QED
      BY <3>2, <3>4, <3>3
  <2>3. i <= n - 1 \/ i > n - 1
    BY <1>1
  <2> QED
    BY <2>1, <2>2, <2>3
<1>9. DOMAIN (a \o b) = 1..(Len(s) - 1)
  BY <1>1, <1>7
<1> QED
  BY <1>6, <1>7, <1>8, <1>9

-----------------------------------------------------------------------------
(* The panel.                                                                *)

PanelShape ==
    [open : BOOLEAN, item : Items \cup {Nothing}, loading : BOOLEAN, error : BOOLEAN,
     detail : Items \cup {Nothing}, reads : Seq(Items), alone : BOOLEAN, failed : BOOLEAN,
     opens : Int]

\* What a lone load leaves behind.
LoneLoad(p) ==
    \/ p.reads = <<p.item>> /\ p.loading /\ ~ p.error
    \/ /\ p.reads = <<>> /\ ~ p.loading
       /\ p.error = p.failed
       /\ ~ p.failed => p.detail = p.item

PanelInv ==
    /\ panel \in PanelShape
    /\ panel.item \in WithPage =>
          /\ panel.loading \/ panel.error \/ panel.detail # Nothing
          /\ panel.alone => LoneLoad(panel)

LEMMA OpenPanelKeeps ==
    ASSUME PanelInv, NEW i \in Items, OpenPanel(i)
    PROVE  PanelInv'
<1>1. PICK p : p = [panel EXCEPT !.open = TRUE, !.item = i, !.opens = @ + 1]
  OBVIOUS
<1>2. p \in PanelShape /\ p.item = i
  <2>1. panel \in PanelShape /\ panel.opens + 1 \in Int
    BY DEF PanelInv, PanelShape
  <2> QED
    BY <1>1, <2>1 DEF PanelShape
<1>3. CASE i \in WithPage
  <2>1. panel' = [p EXCEPT !.loading = TRUE, !.error = FALSE, !.alone = (p.reads = <<>>),
                           !.reads = Append(p.reads, i)]
    BY <1>1, <1>2, <1>3 DEF OpenPanel, Load, PanelShape
  <2>2. /\ Append(p.reads, i) \in Seq(Items)
        /\ p.reads = <<>> => Append(p.reads, i) = <<i>>
    <3>1. p.reads \in Seq(Items)
      BY <1>2 DEF PanelShape
    <3>2. Append(<<>>, i) = <<i>>
      OBVIOUS
    <3>3. Append(p.reads, i) \in Seq(Items)
      BY <3>1
    <3> QED
      BY <3>2, <3>3
  <2>3. /\ panel' \in PanelShape
        /\ panel'.loading /\ ~ panel'.error /\ panel'.alone = (p.reads = <<>>)
        /\ panel'.reads = Append(p.reads, i) /\ panel'.item = i
    BY <1>2, <2>1, <2>2 DEF PanelShape
  <2> QED
    BY <2>2, <2>3 DEF PanelInv, LoneLoad
<1>4. CASE i \notin WithPage
  BY <1>1, <1>2, <1>4 DEF OpenPanel, PanelInv
<1> QED
  BY <1>3, <1>4

LEMMA DetailAnswersKeeps ==
    ASSUME PanelInv, NEW n, DetailAnswers(n)
    PROVE  PanelInv'
<1>1. panel \in PanelShape /\ n \in DOMAIN panel.reads
  BY DEF PanelInv, DetailAnswers
<1>2. PICK failed \in BOOLEAN :
         panel' = [panel EXCEPT !.loading = FALSE, !.reads = RemoveAt(@, n),
                                !.detail = IF failed THEN Nothing ELSE panel.reads[n],
                                !.error = @ \/ failed, !.failed = failed]
  BY DEF DetailAnswers
<1>3. panel.reads \in Seq(Items) /\ panel.reads[n] \in Items
  BY <1>1 DEF PanelShape
<1>4. /\ RemoveAt(panel.reads, n) \in Seq(Items)
      /\ Len(RemoveAt(panel.reads, n)) = Len(panel.reads) - 1
  BY <1>1, <1>3, RemoveAtShape
<1>5. PICK d \in Items \cup {Nothing} : d = IF failed THEN Nothing ELSE panel.reads[n]
  BY <1>3
<1>6. PICK r \in Seq(Items) : r = RemoveAt(panel.reads, n)
  BY <1>4
<1>7. panel' = [panel EXCEPT !.loading = FALSE, !.reads = r, !.detail = d,
                             !.error = @ \/ failed, !.failed = failed]
  BY <1>1, <1>2, <1>5, <1>6 DEF PanelShape
<1>8. /\ panel' \in PanelShape
      /\ ~ panel'.loading /\ panel'.reads = r /\ panel'.detail = d
      /\ panel'.error = (panel.error \/ failed) /\ panel'.failed = failed
      /\ panel'.item = panel.item /\ panel'.alone = panel.alone
  BY <1>1, <1>7 DEF PanelShape
<1>9. panel'.error \/ panel'.detail # Nothing
  BY <1>3, <1>5, <1>8, ScreensAssumption
<1>10. ASSUME panel.item \in WithPage, panel.alone PROVE LoneLoad(panel')
  <2>1. panel.reads = <<panel.item>> /\ ~ panel.error
    BY <1>1, <1>10 DEF PanelInv, LoneLoad
  <2>2. n = 1 /\ panel.reads[n] = panel.item /\ r = <<>>
    BY <1>1, <1>4, <1>6, <2>1
  <2> QED
    BY <1>5, <1>8, <2>1, <2>2 DEF LoneLoad
<1> QED
  BY <1>8, <1>9, <1>10 DEF PanelInv

LEMMA PanelKeeps == PanelInv /\ [PanelNext]_screenVars => PanelInv'
<1>1. ASSUME PanelInv, ClosePanel PROVE PanelInv'
  <2>1. /\ panel' \in PanelShape
        /\ panel'.item = panel.item /\ panel'.loading = panel.loading
        /\ panel'.error = panel.error /\ panel'.detail = panel.detail
        /\ panel'.alone = panel.alone /\ panel'.reads = panel.reads
        /\ panel'.failed = panel.failed
    BY <1>1 DEF PanelInv, PanelShape, ClosePanel
  <2> QED
    BY <1>1, <2>1 DEF PanelInv, LoneLoad
<1>2. ASSUME PanelInv, UNCHANGED screenVars PROVE PanelInv'
  BY <1>2 DEF PanelInv, screenVars, PanelShape, LoneLoad
<1> QED
  BY <1>1, <1>2, OpenPanelKeeps, DetailAnswersKeeps DEF PanelNext

LEMMA PanelInitially == ScreensInit => PanelInv
<1> SUFFICES ASSUME ScreensInit PROVE PanelInv
  OBVIOUS
<1>1. panel \in PanelShape /\ panel.item = Nothing
  BY DEF ScreensInit, PanelShape
<1> QED
  BY <1>1, ScreensAssumption DEF PanelInv

LEMMA PanelShows == PanelInv => PanelShowsWhatWasOpened
<1> SUFFICES ASSUME PanelInv, panel.open, panel.item \in WithPage
             PROVE  /\ ShownInPanel # Nothing
                    /\ panel.alone =>
                          ShownInPanel = IF panel.reads # <<>> THEN "spinner"
                                         ELSE IF panel.failed THEN "error" ELSE panel.item
  BY DEF PanelShowsWhatWasOpened
<1>1. ShownInPanel # Nothing
  BY ScreensAssumption DEF PanelInv, ShownInPanel
<1>2. ASSUME panel.alone, panel.reads = <<panel.item>> /\ panel.loading
      PROVE  panel.reads # <<>> /\ ShownInPanel = "spinner"
  BY <1>2 DEF ShownInPanel
<1>3. ASSUME panel.alone, panel.reads = <<>>, ~ panel.loading, panel.error = panel.failed,
             ~ panel.failed => panel.detail = panel.item
      PROVE  ShownInPanel = IF panel.failed THEN "error" ELSE panel.item
  BY <1>3 DEF ShownInPanel
<1> QED
  BY <1>1, <1>2, <1>3 DEF PanelInv, LoneLoad

-----------------------------------------------------------------------------
(* The page of a course.                                                     *)

CourseLoads == [step : {"lists", "content"}, from : Items, course : Items \cup {Nothing}]

ViewShape(v) ==
    /\ DOMAIN v = {"course", "content", "open", "loading", "error", "expired", "recovering",
                   "wiped", "stray", "loads", "opens"}
    /\ v.course \in Items /\ v.content \in Items \cup {Nothing}
    /\ v.loads \in Seq(CourseLoads)
    /\ v.loading \in BOOLEAN /\ v.error \in BOOLEAN /\ v.wiped \in BOOLEAN
    /\ v.stray \in BOOLEAN

\* Whose content a page has, or may get.
OwnContent(v) ==
    /\ ~ v.stray => /\ v.content \in {Nothing, v.course}
                    /\ \A i \in DOMAIN v.loads :
                          v.loads[i].step = "content" => v.loads[i].course = v.course
    /\ \A i \in DOMAIN v.loads : v.loads[i].step = "content" => v.loads[i].course \in Items

NeverBlank(v) ==
    ~ v.wiped /\ v.recovering \in {"no", "asked"} /\ ~ v.loading => v.content # Nothing \/ v.error

OpenedAtFirst == view.content # Nothing => view.open = initializeSectionCollapse(outline)

ViewInv == ViewShape(view) /\ OwnContent(view) /\ NeverBlank(view) /\ OpenedAtFirst

LEMMA OpenedStays ==
    ASSUME UNCHANGED <<clock, outline>>
    PROVE  initializeSectionCollapse(outline)' = initializeSectionCollapse(outline)
BY DEF initializeSectionCollapse, isCurrentWeekSection, SelectInSeq

LEMMA NewViewIsFine ==
    ASSUME NEW c \in Items, NEW opens, view' = NewView(c, opens)
    PROVE  ViewInv'
<1>1. PICK l : l = [step |-> "lists", from |-> c, course |-> Nothing]
  OBVIOUS
<1>2. l \in CourseLoads /\ l.step # "content"
  BY <1>1 DEF CourseLoads
<1>3. PICK w : w = <<l>>
  OBVIOUS
<1>4. w \in Seq(CourseLoads) /\ \A i \in DOMAIN w : w[i].step # "content"
  BY <1>2, <1>3
<1>5. view' = [course |-> c, content |-> Nothing, open |-> {}, loading |-> TRUE, error |-> FALSE,
               expired |-> FALSE, recovering |-> "no", wiped |-> FALSE, stray |-> FALSE,
               loads |-> w, opens |-> opens]
  BY <1>1, <1>3 DEF NewView
<1> HIDE DEF CourseLoads
<1>6. /\ ViewShape(view') /\ view'.content = Nothing /\ view'.loading /\ view'.loads = w
  BY <1>4, <1>5 DEF ViewShape
<1>7. OwnContent(view') /\ NeverBlank(view')
  BY <1>4, <1>6 DEF OwnContent, NeverBlank
<1>8. OpenedAtFirst'
  BY <1>6 DEF OpenedAtFirst
<1> QED
  BY <1>6, <1>7, <1>8 DEF ViewInv

LEMMA GoToKeeps ==
    ASSUME ViewInv, NEW c \in Items, GoTo(c)
    PROVE  ViewInv'
<1>1. ViewShape(view) /\ OwnContent(view)
  BY DEF ViewInv
<1>2. PICK l : l = [step |-> "lists", from |-> c, course |-> Nothing]
  OBVIOUS
<1>3. l \in CourseLoads /\ l.step # "content"
  BY <1>2 DEF CourseLoads
<1>4. PICK w : w = Append(view.loads, l)
  OBVIOUS
<1>5. view.loads \in Seq(CourseLoads)
  BY <1>1 DEF ViewShape
<1>6. /\ w \in Seq(CourseLoads)
      /\ \A i \in DOMAIN w : w[i] = l \/ (i \in DOMAIN view.loads /\ w[i] = view.loads[i])
  BY <1>3, <1>4, <1>5
<1>7. PICK stray : stray = (\/ view.stray /\ view.loads # <<>>
                            \/ view.recovering # "no"
                            \/ \E k \in Range(view.loads) : k.step = "content")
  OBVIOUS
<1>8. stray \in BOOLEAN
  BY <1>7
<1>9. view' = [view EXCEPT !.course = c, !.content = Nothing, !.loading = TRUE, !.error = FALSE,
                           !.expired = FALSE, !.opens = @ + 1, !.loads = w, !.stray = stray]
  BY <1>1, <1>2, <1>4, <1>7 DEF GoTo, ViewShape
<1>10. /\ DOMAIN view' = DOMAIN view
       /\ view'.course = c /\ view'.content = Nothing /\ view'.loading = TRUE
       /\ view'.error = FALSE /\ view'.loads = w /\ view'.stray = stray /\ view'.wiped = view.wiped
  BY <1>1, <1>9 DEF ViewShape
<1>11. ViewShape(view')
  BY <1>1, <1>6, <1>8, <1>10 DEF ViewShape
<1>12. NeverBlank(view') /\ OpenedAtFirst'
  BY <1>10 DEF NeverBlank, OpenedAtFirst
<1>13. ASSUME ~ stray, NEW i \in DOMAIN w PROVE w[i].step # "content"
  <2>1. \A j \in DOMAIN view.loads : view.loads[j].step # "content"
    BY <1>7, <1>13 DEF Range
  <2> QED
    BY <1>3, <1>6, <2>1
<1>14. \A i \in DOMAIN w : w[i].step = "content" => w[i].course \in Items
  BY <1>1, <1>3, <1>6 DEF OwnContent
<1>15. OwnContent(view')
  BY <1>10, <1>13, <1>14 DEF OwnContent
<1> QED
  BY <1>11, <1>12, <1>15 DEF ViewInv

LEMMA ListsSettleKeeps ==
    ASSUME ViewInv, NEW n, ListsSettle(n)
    PROVE  ViewInv'
<1>1. ViewShape(view) /\ OwnContent(view) /\ n \in DOMAIN view.loads
  BY DEF ViewInv, ListsSettle
<1>2. view.loads \in Seq(CourseLoads)
  BY <1>1 DEF ViewShape
<1>3. PICK l : l = [view.loads[n] EXCEPT !.step = "content", !.course = view.course]
  OBVIOUS
<1>4. l \in CourseLoads /\ l.course = view.course
  <2>1. view.loads[n] \in CourseLoads /\ view.course \in Items
    BY <1>1, <1>2 DEF ViewShape
  <2> QED
    BY <1>3, <2>1 DEF CourseLoads
<1>5. PICK w : w = [view.loads EXCEPT ![n] = l]
  OBVIOUS
<1>6. /\ w \in Seq(CourseLoads) /\ DOMAIN w = DOMAIN view.loads /\ w[n] = l
      /\ \A i \in DOMAIN view.loads : i # n => w[i] = view.loads[i]
  BY <1>1, <1>2, <1>4, <1>5
<1>7. view' = [view EXCEPT !.loads = w]
  <2>1. view' = [view EXCEPT !.loads[n].step = "content", !.loads[n].course = view.course]
    BY DEF ListsSettle, CourseAsked
  <2>2. PICK u : u = [view.loads EXCEPT ![n] = [@ EXCEPT !.step = "content"]]
    OBVIOUS
  <2>3. w = [u EXCEPT ![n].course = view.course]
    BY <1>1, <1>2, <1>3, <1>5, <2>2
  <2>4. view' = [[view EXCEPT !.loads = u] EXCEPT !.loads[n].course = view.course]
    BY <1>1, <2>1, <2>2 DEF ViewShape
  <2> QED
    BY <1>1, <2>3, <2>4 DEF ViewShape
<1>8. /\ DOMAIN view' = DOMAIN view /\ view'.loads = w
      /\ view'.course = view.course /\ view'.content = view.content /\ view'.open = view.open
      /\ view'.loading = view.loading /\ view'.error = view.error
      /\ view'.wiped = view.wiped /\ view'.stray = view.stray
      /\ view'.recovering = view.recovering
  BY <1>1, <1>7 DEF ViewShape
<1>9. ViewShape(view')
  BY <1>1, <1>6, <1>8 DEF ViewShape
<1>10. NeverBlank(view') /\ OpenedAtFirst'
  BY <1>8, OpenedStays DEF ViewInv, NeverBlank, OpenedAtFirst, ListsSettle
<1>11. OwnContent(view')
  BY <1>1, <1>4, <1>6, <1>8 DEF OwnContent, ViewShape
<1> QED
  BY <1>9, <1>10, <1>11 DEF ViewInv

\* A view without one of its loads.
LEMMA EndedShape ==
    ASSUME ViewInv, NEW n \in DOMAIN view.loads, NEW v, v = Ended(n)
    PROVE  /\ ViewShape(v) /\ OwnContent(v) /\ ~ v.loading
           /\ v.course = view.course /\ v.content = view.content /\ v.open = view.open
           /\ v.error = view.error /\ v.wiped = view.wiped /\ v.stray = view.stray
           /\ v.recovering = view.recovering /\ v.expired = view.expired
<1>1. ViewShape(view) /\ OwnContent(view) /\ view.loads \in Seq(CourseLoads)
  BY DEF ViewInv, ViewShape
<1>2. PICK w : w = RemoveAt(view.loads, n)
  OBVIOUS
<1>3. /\ w \in Seq(CourseLoads)
      /\ \A i \in DOMAIN w : \E j \in DOMAIN view.loads : w[i] = view.loads[j]
  BY <1>1, <1>2, RemoveAtShape
<1>4. v = [view EXCEPT !.loading = FALSE, !.loads = w]
  BY <1>1, <1>2 DEF Ended, ViewShape
<1>5. /\ DOMAIN v = DOMAIN view /\ v.loads = w /\ ~ v.loading /\ v.loading \in BOOLEAN
      /\ v.course = view.course /\ v.content = view.content /\ v.open = view.open
      /\ v.error = view.error /\ v.wiped = view.wiped /\ v.stray = view.stray
      /\ v.recovering = view.recovering /\ v.expired = view.expired
  BY <1>1, <1>4 DEF ViewShape
<1>6. ViewShape(v)
  BY <1>1, <1>3, <1>5 DEF ViewShape
<1>7. OwnContent(v)
  BY <1>1, <1>3, <1>5 DEF OwnContent
<1> QED
  BY <1>5, <1>6, <1>7

LEMMA ContentAnswersKeeps ==
    ASSUME ViewInv, NEW n, ContentAnswers(n)
    PROVE  ViewInv'
<1>1. /\ n \in DOMAIN view.loads /\ view.loads[n].step = "content"
      /\ UNCHANGED <<clock, outline>>
  BY DEF ContentAnswers
<1>2. PICK v : v = Ended(n)
  OBVIOUS
<1>3. /\ ViewShape(v) /\ OwnContent(v) /\ ~ v.loading
      /\ v.course = view.course /\ v.content = view.content /\ v.open = view.open
      /\ v.error = view.error /\ v.wiped = view.wiped /\ v.stray = view.stray
      /\ v.recovering = view.recovering /\ v.expired = view.expired
  BY <1>1, <1>2, EndedShape
<1>4. CASE view' = v /\ view.wiped
  BY <1>1, <1>3, <1>4, OpenedStays DEF ViewInv, NeverBlank, OpenedAtFirst
<1>5. CASE view' = [v EXCEPT !.content = view.loads[n].course,
                             !.open = initializeSectionCollapse(outline)]
  <2>1. PICK d \in Items : d = view.loads[n].course /\ (~ view.stray => d = view.course)
    BY <1>1 DEF ViewInv, OwnContent
  <2>2. PICK o : o = initializeSectionCollapse(outline)
    OBVIOUS
  <2>3. view' = [v EXCEPT !.content = d, !.open = o]
    BY <1>5, <2>1, <2>2
  <2>4. /\ DOMAIN view' = DOMAIN v /\ view'.content = d /\ view'.open = o
        /\ view'.loads = v.loads /\ view'.loading = v.loading
        /\ view'.course = v.course /\ view'.error = v.error /\ view'.wiped = v.wiped
        /\ view'.stray = v.stray
    BY <1>3, <2>3 DEF ViewShape
  <2>5. ViewShape(view')
    BY <1>3, <2>4 DEF ViewShape
  <2>6. OwnContent(view')
    BY <1>3, <2>1, <2>4 DEF OwnContent
  <2>7. d # Nothing
    BY <2>1, ScreensAssumption
  <2>8. OpenedAtFirst'
    BY <1>1, <2>2, <2>4, OpenedStays DEF OpenedAtFirst
  <2> QED
    BY <2>4, <2>5, <2>6, <2>7, <2>8 DEF ViewInv, NeverBlank
<1>6. CASE \E expired \in BOOLEAN : view' = [v EXCEPT !.error = TRUE, !.expired = @ \/ expired]
  <2>1. PICK expired \in BOOLEAN : view' = [v EXCEPT !.error = TRUE, !.expired = @ \/ expired]
    BY <1>6
  <2>2. /\ DOMAIN view' = DOMAIN v /\ view'.error /\ view'.error \in BOOLEAN
        /\ view'.content = v.content /\ view'.open = v.open
        /\ view'.loads = v.loads /\ view'.loading = v.loading
        /\ view'.course = v.course /\ view'.wiped = v.wiped /\ view'.stray = v.stray
    BY <1>3, <2>1 DEF ViewShape
  <2>3. ViewShape(view') /\ OwnContent(view')
    BY <1>3, <2>2 DEF ViewShape, OwnContent
  <2>4. OpenedAtFirst'
    BY <1>1, <1>3, <2>2, OpenedStays DEF ViewInv, OpenedAtFirst
  <2> QED
    BY <2>2, <2>3, <2>4 DEF ViewInv, NeverBlank
<1> QED
  BY <1>2, <1>4, <1>5, <1>6 DEF ContentAnswers

\* The steps of the session change no content and no load.
LEMMA SessionStepKeeps ==
    ASSUME ViewInv, Wiped \/ relogin \/ Recovers \/ RecoveryFails
    PROVE  ViewInv'
<1>1. ViewShape(view) /\ UNCHANGED <<clock, outline>>
  BY DEF ViewInv, Wiped, relogin, Recovers, RecoveryFails
<1>2. /\ DOMAIN view' = DOMAIN view /\ view'.content = view.content /\ view'.open = view.open
      /\ view'.loads = view.loads /\ view'.loading = view.loading
      /\ view'.course = view.course /\ view'.stray = view.stray
      /\ view'.wiped \in BOOLEAN /\ view'.error \in BOOLEAN
  BY <1>1 DEF ViewShape, Wiped, relogin, Recovers, RecoveryFails
<1>3. ViewShape(view') /\ OwnContent(view')
  BY <1>1, <1>2 DEF ViewInv, ViewShape, OwnContent
<1>4. OpenedAtFirst'
  BY <1>1, <1>2, OpenedStays DEF ViewInv, OpenedAtFirst
<1>5. NeverBlank(view')
  <2>1. CASE Wiped
    <3>1. view'.wiped
      BY <1>1, <2>1 DEF ViewShape, Wiped
    <3> QED
      BY <3>1 DEF NeverBlank
  <2>2. CASE relogin
    <3>1. view.recovering = "no" /\ view'.error = view.error /\ view'.wiped = view.wiped
      BY <1>1, <2>2 DEF ViewShape, relogin
    <3> QED
      BY <1>2, <3>1 DEF ViewInv, NeverBlank
  <2>3. CASE Recovers
    <3>1. view'.recovering = "reading"
      BY <1>1, <2>3 DEF ViewShape, Recovers
    <3> QED
      BY <3>1 DEF NeverBlank
  <2>4. CASE RecoveryFails
    <3>1. PICK cancelled \in BOOLEAN :
             view' = [view EXCEPT !.recovering = "no", !.error = @ \/ ~ cancelled]
      BY <2>4 DEF RecoveryFails
    <3>2. /\ view.recovering = "asked" /\ view'.wiped = view.wiped
          /\ view'.error = (view.error \/ ~ cancelled)
      BY <1>1, <2>4, <3>1 DEF ViewShape, RecoveryFails
    <3> QED
      BY <1>2, <3>2 DEF ViewInv, NeverBlank
  <2> QED
    BY <2>1, <2>2, <2>3, <2>4
<1> QED
  BY <1>3, <1>4, <1>5 DEF ViewInv

LEMMA ViewKeeps == ViewInv /\ [CourseViewNext]_screenVars => ViewInv'
<1>1. ASSUME ViewInv, Remount PROVE ViewInv'
  <2>1. view.course \in Items
    BY <1>1 DEF ViewInv, ViewShape
  <2> QED
    BY <1>1, <2>1, NewViewIsFine DEF Remount
<1>2. ASSUME ViewInv, UNCHANGED screenVars PROVE ViewInv'
  BY <1>2, OpenedStays DEF ViewInv, screenVars, ViewShape, OwnContent, NeverBlank, OpenedAtFirst
<1> QED
  BY <1>1, <1>2, GoToKeeps, ListsSettleKeeps, ContentAnswersKeeps, SessionStepKeeps
     DEF CourseViewNext

LEMMA FirstViewIsFine ==
    ASSUME NEW c \in Items, NEW opens, view = NewView(c, opens)
    PROVE  ViewInv
<1>1. PICK l : l = [step |-> "lists", from |-> c, course |-> Nothing]
  OBVIOUS
<1>2. l \in CourseLoads /\ l.step # "content"
  BY <1>1 DEF CourseLoads
<1>3. PICK w : w = <<l>>
  OBVIOUS
<1>4. w \in Seq(CourseLoads) /\ \A i \in DOMAIN w : w[i].step # "content"
  BY <1>2, <1>3
<1>5. view = [course |-> c, content |-> Nothing, open |-> {}, loading |-> TRUE, error |-> FALSE,
              expired |-> FALSE, recovering |-> "no", wiped |-> FALSE, stray |-> FALSE,
              loads |-> w, opens |-> opens]
  BY <1>1, <1>3 DEF NewView
<1>6. /\ ViewShape(view) /\ view.content = Nothing /\ view.loading /\ view.loads = w
  BY <1>4, <1>5 DEF ViewShape
<1> QED
  BY <1>4, <1>6 DEF ViewInv, OwnContent, NeverBlank, OpenedAtFirst

LEMMA PageInitially == ScreensInit => ViewInv
BY FirstViewIsFine DEF ScreensInit

LEMMA PageShows == ViewInv => ViewShowsItsCourse /\ SectionIsOpen
<1> SUFFICES ASSUME ViewInv PROVE ViewShowsItsCourse /\ SectionIsOpen
  OBVIOUS
<1>1. ViewShowsItsCourse
  BY DEF ViewInv, OwnContent, NeverBlank, ViewShowsItsCourse
<1>2. ASSUME view.content # Nothing, outline # <<>>
      PROVE  /\ view.open # {}
             /\ Cardinality(view.open) > 1 =>
                   \A i \in view.open : outline[i].dateRange.year \in {NoYear, clock.year}
  <2> DEFINE current == {i \in DOMAIN outline : isCurrentWeekSection(outline[i].dateRange)}
  <2>1. (view.open = current /\ current # {}) \/ \E x : view.open = {x}
    BY <1>2 DEF ViewInv, OpenedAtFirst, initializeSectionCollapse
  <2>2. CASE view.open = current /\ current # {}
    BY <2>2 DEF isCurrentWeekSection
  <2>3. CASE \E x : view.open = {x}
    <3>1. PICK x : view.open = {x}
      BY <2>3
    <3>2. Cardinality({x}) = 1
      BY FS_Singleton
    <3> QED
      BY <3>1, <3>2
  <2> QED
    BY <2>1, <2>2, <2>3
<1> QED
  BY <1>1, <1>2 DEF SectionIsOpen

-----------------------------------------------------------------------------
(* The dashboard, at the backend.                                            *)

\* A slice is where a run may be, and a payload was made of settled slices.
SliceStates == {Running, Fulfilled} \cup {Rejected(e) : e \in Exceptions \cup {SessionDead}}

ServerInv ==
    /\ DOMAIN slices = Slices
    /\ \A s \in Slices : slices[s] \in SliceStates
    /\ answer.kind = "payload" => /\ answer = getDashboard(slices)
                                  /\ \A t \in Slices : slices[t].step # "running"

LEMMA ServerInitially == DashInit => ServerInv
BY DEF DashInit, ServerInv, SliceStates, NoAnswerYet

LEMMA SliceEndsKeeps ==
    ASSUME ServerInv, NEW s \in Slices, SliceEnds(s)
    PROVE  ServerInv'
<1>1. PICK outcome \in (IF alive THEN {Fulfilled} ELSE {Rejected(SessionDead)})
                       \cup {Rejected(e) : e \in Exceptions} :
         /\ slices' = [slices EXCEPT ![s] = outcome]
         /\ answer' = IF \A t \in Slices : [slices EXCEPT ![s] = outcome][t].step # "running"
                      THEN getDashboard([slices EXCEPT ![s] = outcome]) ELSE answer
  BY DEF SliceEnds
<1>2. outcome \in SliceStates
  BY <1>1 DEF SliceStates
<1>3. answer.kind # "payload"
  BY DEF ServerInv, SliceEnds
<1>4. DOMAIN slices' = Slices /\ \A t \in Slices : slices'[t] \in SliceStates
  BY <1>1, <1>2 DEF ServerInv
<1>5. answer' = IF \A t \in Slices : slices'[t].step # "running"
                THEN getDashboard(slices') ELSE answer
  BY <1>1
<1> QED
  BY <1>3, <1>4, <1>5 DEF ServerInv

LEMMA ServerKeeps == ServerInv /\ [ServerNext]_dashVars => ServerInv'
<1>1. ASSUME ServerInv, SessionDies \/ UNCHANGED dashVars PROVE ServerInv'
  BY <1>1 DEF ServerInv, SessionDies, dashVars, serverVars
<1> QED
  BY <1>1, SliceEndsKeeps DEF ServerNext

LEMMA AuthFailures ==
    ASSUME NEW e \in Exceptions \cup {SessionDead}, ~ isAuthenticatedFailure(e)
    PROVE  e.status # 401 /\ e.code # "SESSION_DEAD"
<1>1. CASE e = SessionDead
  BY <1>1 DEF SessionDead, NotHttp, Exception, isAuthenticatedFailure
<1>2. CASE e \in Exceptions
  BY <1>2 DEF Exceptions, NotHttp, Exception, isAuthenticatedFailure
<1> QED
  BY <1>1, <1>2

\* Whatever a slice throws is told in the canonical words or in those of the
\* exception, if they were written for users.
LEMMA MessagesAreMade ==
    ASSUME NEW e \in Exceptions \cup {SessionDead}
    PROVE  sliceError(e).message[1] \in {"copy", "own"}
<1> USE DEF Throttled, Validation, RouteNotFound, messageForStatus
<1>1. CASE e = NotHttp
  BY <1>1 DEF sliceError
<1>2. CASE e # NotHttp
  <2>1. sliceError(e).message = errorCopy(e).message
    BY <1>2 DEF sliceError
  <2>2. errorCopy(e).message[1] \in {"copy", "own"}
    BY DEF errorCopy
  <2> QED
    BY <2>1, <2>2
<1> QED
  BY <1>1, <1>2

LEMMA ServerTells == ServerInv => NoDeadSessionInPayload
<1> SUFFICES ASSUME ServerInv, answer.kind = "payload"
             PROVE  /\ \A s \in Slices : slices[s].step = "rejected" =>
                          slices[s].reason.status # 401 /\ slices[s].reason.code # "SESSION_DEAD"
                    /\ DOMAIN answer.errors = Slices \ answer.filled
                    /\ \A s \in DOMAIN answer.errors :
                          answer.errors[s].message[1] \in {"copy", "own"}
  BY DEF NoDeadSessionInPayload
<1> DEFINE failed == {s \in Slices : slices[s].step = "rejected"}
           dead == {i \in DOMAIN SliceOrder :
                       SliceOrder[i] \in failed
                       /\ isAuthenticatedFailure(slices[SliceOrder[i]].reason)}
<1>1. answer = getDashboard(slices) /\ \A t \in Slices : slices[t].step # "running"
  BY DEF ServerInv
<1>2. /\ dead = {}
      /\ answer.filled = {s \in Slices : slices[s].step = "fulfilled"}
      /\ answer.errors = [s \in failed |-> sliceError(slices[s].reason)]
  BY <1>1 DEF getDashboard
<1>3. ASSUME NEW s \in failed
      PROVE  slices[s].reason \in Exceptions \cup {SessionDead}
  BY <1>3 DEF ServerInv, SliceStates, Running, Fulfilled, Rejected
<1>4. ASSUME NEW s \in failed PROVE ~ isAuthenticatedFailure(slices[s].reason)
  <2>1. PICK i \in DOMAIN SliceOrder : SliceOrder[i] = s
    BY DEF Slices, ToSet
  <2> QED
    BY <1>2, <2>1
<1>5. \A s \in Slices : slices[s].step \in {"running", "fulfilled", "rejected"}
  BY DEF ServerInv, SliceStates, Running, Fulfilled, Rejected
<1>6. DOMAIN answer.errors = Slices \ answer.filled
  BY <1>1, <1>2, <1>5
<1> QED
  BY <1>2, <1>3, <1>4, <1>6, AuthFailures, MessagesAreMade

-----------------------------------------------------------------------------
(* The dashboard, in the web client.  A source's count is that of its        *)
(* requests under way, of all the loads that overlap.                        *)

UnderWay(src) ==
    {p \in Slices \X (1..loads) : SourceOf[p[1]] = src /\ p[2] \in asked[p[1]]}

SpinnerInv ==
    /\ loads \in Nat
    /\ asked \in [Slices -> SUBSET (1..loads)]
    /\ DOMAIN pending = Sources
    /\ \A src \in Sources : pending[src] = Cardinality(UnderWay(src))

LEMMA SlicesAreFew ==
    /\ IsFiniteSet(Slices)
    /\ loads \in Nat => \A src : IsFiniteSet(UnderWay(src))
<1>1. IsFiniteSet(Slices)
  <2>1. SliceOrder \in [1..Len(SliceOrder) -> Slices] /\ Len(SliceOrder) \in Nat
    BY DashAssumption
  <2>2. \A s \in Slices : \E i \in 1..Len(SliceOrder) : SliceOrder[i] = s
    BY <2>1 DEF Slices, ToSet
  <2>3. SliceOrder \in Surjection(1..Len(SliceOrder), Slices)
    BY <2>1, <2>2 DEF Surjection
  <2>4. IsFiniteSet(1..Len(SliceOrder))
    BY <2>1, FS_Interval
  <2> QED
    BY <2>3, <2>4, FS_Surjection
<1>2. ASSUME loads \in Nat, NEW src PROVE IsFiniteSet(UnderWay(src))
  <2>1. IsFiniteSet(1..loads)
    BY <1>2, FS_Interval
  <2>2. IsFiniteSet(Slices \X (1..loads))
    BY <1>1, <2>1, FS_Product
  <2> QED
    BY <2>2, FS_Subset DEF UnderWay
<1> QED
  BY <1>1, <1>2

LEMMA SpinnersInitially == DashInit => SpinnerInv
<1> SUFFICES ASSUME DashInit PROVE SpinnerInv
  OBVIOUS
<1>1. \A src : UnderWay(src) = {}
  BY DEF DashInit, UnderWay
<1> QED
  BY <1>1, FS_EmptySet DEF DashInit, SpinnerInv

LEMMA LoadKeeps ==
    ASSUME SpinnerInv, load
    PROVE  SpinnerInv'
<1>1. /\ loads' = loads + 1 /\ loads \in Nat
      /\ asked \in [Slices -> SUBSET (1..loads)]
      /\ asked' = [s \in Slices |-> asked[s] \cup {loads + 1}]
  BY DEF load, SpinnerInv
<1>2. asked' \in [Slices -> SUBSET (1..loads')]
  <2>1. 1..(loads + 1) = (1..loads) \cup {loads + 1}
    BY <1>1
  <2> QED
    BY <1>1, <2>1
<1>3. ASSUME NEW src \in Sources PROVE pending'[src] = Cardinality(UnderWay(src)')
  <2> DEFINE own == {s \in Slices : SourceOf[s] = src}
             new == own \X {loads + 1}
  <2>1. IsFiniteSet(own) /\ IsFiniteSet(UnderWay(src))
    BY <1>1, SlicesAreFew, FS_Subset
  <2>2. IsFiniteSet({loads + 1}) /\ Cardinality({loads + 1}) = 1
    BY FS_Singleton
  <2>3. IsFiniteSet(new) /\ Cardinality(new) = Cardinality(own) * 1
    BY <2>1, <2>2, FS_Product
  <2>4. UnderWay(src)' = UnderWay(src) \cup new
    <3>1. ASSUME NEW p \in UnderWay(src)' PROVE p \in UnderWay(src) \cup new
      <4>1. /\ p \in Slices \X (1..(loads + 1)) /\ SourceOf[p[1]] = src
            /\ p[2] \in asked[p[1]] \cup {loads + 1}
        BY <1>1, <3>1 DEF UnderWay
      <4>2. CASE p[2] = loads + 1
        BY <4>1, <4>2
      <4>3. CASE p[2] \in asked[p[1]]
        BY <1>1, <4>1, <4>3 DEF UnderWay
      <4> QED
        BY <4>1, <4>2, <4>3
    <3>2. ASSUME NEW p \in UnderWay(src) PROVE p \in UnderWay(src)'
      BY <1>1, <3>2 DEF UnderWay
    <3>3. ASSUME NEW p \in new PROVE p \in UnderWay(src)'
      BY <1>1, <3>3 DEF UnderWay
    <3> QED
      BY <3>1, <3>2, <3>3
  <2>5. UnderWay(src) \cap new = {}
    BY <1>1 DEF UnderWay
  <2>6. /\ Cardinality(UnderWay(src) \cup new)
             = Cardinality(UnderWay(src)) + Cardinality(new) - Cardinality({})
        /\ Cardinality({}) = 0
    BY <2>1, <2>3, <2>5, FS_Union, FS_EmptySet
  <2>7. pending'[src] = pending[src] + Cardinality(own)
    BY DEF load
  <2>8. pending[src] = Cardinality(UnderWay(src))
    BY DEF SpinnerInv
  <2>9. Cardinality(own) \in Nat /\ Cardinality(UnderWay(src)) \in Nat
    BY <2>1, FS_CardinalityType
  <2> QED
    BY <2>3, <2>4, <2>6, <2>7, <2>8, <2>9
<1>4. DOMAIN pending' = Sources /\ loads' \in Nat
  BY <1>1 DEF load
<1> QED
  BY <1>2, <1>3, <1>4 DEF SpinnerInv

LEMMA RunSliceKeeps ==
    ASSUME SpinnerInv, NEW s \in Slices, NEW n, runSlice(s, n)
    PROVE  SpinnerInv'
<1>1. /\ loads' = loads /\ loads \in Nat /\ n \in asked[s]
      /\ asked \in [Slices -> SUBSET (1..loads)]
      /\ asked' = [asked EXCEPT ![s] = @ \ {n}]
      /\ pending' = [pending EXCEPT ![SourceOf[s]] = pending[SourceOf[s]] - 1]
  BY DEF runSlice, SpinnerInv, SettleSource
<1>2. asked' \in [Slices -> SUBSET (1..loads')]
  BY <1>1
<1>3. SourceOf[s] \in Sources
  BY DEF Sources
<1>4. ASSUME NEW src \in Sources PROVE pending'[src] = Cardinality(UnderWay(src)')
  <2>1. IsFiniteSet(UnderWay(src)) /\ pending[src] = Cardinality(UnderWay(src))
    BY <1>1, SlicesAreFew DEF SpinnerInv
  <2>2. CASE src = SourceOf[s]
    <3>1. UnderWay(src)' = UnderWay(src) \ {<<s, n>>}
      BY <1>1, <2>2 DEF UnderWay
    <3>2. <<s, n>> \in UnderWay(src)
      BY <1>1, <2>2 DEF UnderWay
    <3>3. Cardinality(UnderWay(src) \ {<<s, n>>}) = Cardinality(UnderWay(src)) - 1
      BY <2>1, <3>2, FS_RemoveElement
    <3>4. pending'[src] = pending[src] - 1
      BY <1>1, <1>3, <2>2 DEF SpinnerInv
    <3> QED
      BY <2>1, <3>1, <3>3, <3>4
  <2>3. CASE src # SourceOf[s]
    <3>1. UnderWay(src)' = UnderWay(src)
      BY <1>1, <2>3 DEF UnderWay
    <3>2. pending'[src] = pending[src]
      BY <1>1, <2>3 DEF SpinnerInv
    <3> QED
      BY <2>1, <3>1, <3>2
  <2> QED
    BY <2>2, <2>3
<1>5. DOMAIN pending' = Sources
  BY <1>1 DEF SpinnerInv
<1> QED
  BY <1>1, <1>2, <1>4, <1>5 DEF SpinnerInv

LEMMA SpinnersKeep == SpinnerInv /\ [ViewNext]_dashVars => SpinnerInv'
<1>1. ASSUME SpinnerInv, UNCHANGED dashVars PROVE SpinnerInv'
  BY <1>1 DEF SpinnerInv, dashVars, viewVars, UnderWay
<1> QED
  BY <1>1, LoadKeeps, RunSliceKeeps DEF ViewNext

LEMMA SpinnersAreTrue == SpinnerInv => SpinnersTell
<1> SUFFICES ASSUME SpinnerInv, NEW src \in Sources
             PROVE  pending[src] > 0 <=> \E s \in Slices : SourceOf[s] = src /\ asked[s] # {}
  BY DEF SpinnersTell
<1>1. /\ IsFiniteSet(UnderWay(src)) /\ pending[src] = Cardinality(UnderWay(src))
      /\ loads \in Nat /\ asked \in [Slices -> SUBSET (1..loads)]
  BY SlicesAreFew DEF SpinnerInv
<1>2. Cardinality(UnderWay(src)) \in Nat
      /\ (Cardinality(UnderWay(src)) = 0 <=> UnderWay(src) = {})
  BY <1>1, FS_CardinalityType, FS_EmptySet
<1>3. ASSUME NEW p \in UnderWay(src)
      PROVE  \E s \in Slices : SourceOf[s] = src /\ asked[s] # {}
  BY <1>3 DEF UnderWay
<1>4. ASSUME NEW s \in Slices, SourceOf[s] = src, NEW n \in asked[s]
      PROVE  <<s, n>> \in UnderWay(src)
  BY <1>1, <1>4 DEF UnderWay
<1>5. UnderWay(src) # {} <=> \E s \in Slices : SourceOf[s] = src /\ asked[s] # {}
  BY <1>3, <1>4
<1>6. pending[src] > 0 <=> UnderWay(src) # {}
  BY <1>1, <1>2
<1> QED
  BY <1>5, <1>6

-----------------------------------------------------------------------------
(* What upstreams' answers mean.  A visit that witnessed the death of the    *)
(* session goes on at a site where it is dead, because a new session is made *)
(* between two visits only: no later answer of it is that of a living one.   *)

SetCookies == OwnHeaders \cup {AnonHeader}

Anonymous(headers) == \E i \in DOMAIN headers : headers[i] = AnonHeader

VisitShape(v) ==
    /\ DOMAIN v = {"kind", "url", "asked", "headers", "verdict", "witnessed", "events", "event"}
    /\ v.kind \in Kinds /\ v.asked \in Nat /\ v.events \in Nat
    /\ v.headers \in Seq(SetCookies)

SeveralPages == {"kulon-renewal", "kulon-identity"}

\* Where a visit may be that has no verdict yet.
WalkOnTheWay(v) ==
    /\ v.events = 0
    /\ v.url \in {"start", "home", "login"}
    /\ v.url = "start" => v.asked = 0
    /\ v.url = "login" => "dead" \in v.witnessed
    /\ Anonymous(v.headers) => "dead" \in v.witnessed

\* Where a visit that is no walk may be.
FetchedThere(kind, url) ==
    /\ kind \notin SeveralPages => url = FirstUrl(kind)
    /\ kind = "kulon-renewal" => url \in {"home", "profile"}
    /\ kind = "kulon-identity" => url \in {"home", "ajax", "profile"}

FetchOnTheWay(v) ==
    /\ v.events = v.asked /\ v.headers = <<>> /\ FetchedThere(v.kind, v.url)
    /\ v.kind \notin SeveralPages => v.witnessed = {}

OnTheWay(v) ==
    v.verdict = "none" =>
        /\ "dead" \in v.witnessed => ~ site.alive
        /\ v.kind \in Walks => WalkOnTheWay(v)
        /\ v.kind \notin Walks => FetchOnTheWay(v)

SiteOK == site \in [alive : BOOLEAN, weather : Weathers]

RespInv ==
    /\ SiteOK /\ VisitShape(visit) /\ OnTheWay(visit)
    /\ ValidWasAlive /\ OutageIsNotDeath /\ OneEventPerAttempt

-----------------------------------------------------------------------------
(* The cookie header.                                                        *)

LEMMA MergeIsOwn ==
    ASSUME NEW headers \in Seq(SetCookies), ~ Anonymous(headers)
    PROVE  mergeSessionCookie(headers).session # "anonymous"
<1> DEFINE applied == {i \in DOMAIN headers : headers[i].name = "session"}
<1>1. \A i \in DOMAIN headers : headers[i] \in OwnHeaders
  BY DEF SetCookies, Anonymous
<1>2. CASE applied = {}
  BY <1>2 DEF mergeSessionCookie
<1>3. CASE applied # {}
  <2>1. Max(applied) \in applied
    <3>1. applied \in SUBSET (0..Len(headers)) /\ Len(headers) \in Nat
      OBVIOUS
    <3> HIDE DEF applied
    <3> QED
      BY <1>3, <3>1, MaxIsThere
  <2>2. headers[Max(applied)].value \in {"rotated", "deleted"}
    BY <1>1, <2>1 DEF OwnHeaders
  <2> QED
    BY <1>3, <2>2 DEF mergeSessionCookie
<1> QED
  BY <1>2, <1>3

-----------------------------------------------------------------------------
(* Answers.                                                                  *)

\* What the fields of an answer that fetch followed may be.
DownTold(kind, r) ==
    /\ r.status = 500 /\ Witness(r) = "down" /\ r.body \in {"error", "data", "failure"}
    /\ kind \notin {"siap-mint", "siap-api"} => r.body = "error"

LimitedTold(r) == r.status = 429 /\ Witness(r) = "limited" /\ r.body = "error"

ForbiddenTold(r) == r.status \in {403, 404} /\ Witness(r) = "forbidden" /\ r.body = "error"

AliveTold(url, r) ==
    /\ site.alive /\ r.status = 200 /\ r.url = url
    /\ Witness(r) = IF r.body = "torn" THEN "torn" ELSE "alive"
    /\ url \in {"api", "ajax"} => r.body \in {"data", "failure", "torn"}
    /\ url \notin {"api", "ajax"} => r.body \in {url, "torn"}

DeadTold(url, r) ==
    /\ ~ site.alive /\ Witness(r) = "dead" /\ r.status \in {200, 401}
    /\ \/ /\ r.url = url
          /\ url \in {"api", "ajax"} => r.body \in {"denial", "failure"}
          /\ url \notin {"api", "ajax"} => r.body = "login"
       \/ r.status = 200 /\ r.url = "login" /\ r.body = "guest"
       \/ r.status = 200 /\ r.url = "elsewhere" /\ r.body = "login"

FinalTold(kind, url, r) ==
    \/ DownTold(kind, r) \/ LimitedTold(r) \/ ForbiddenTold(r)
    \/ AliveTold(url, r) \/ DeadTold(url, r)

Pages == {"api", "ajax", "home", "profile"}

LEMMA TroubleTold ==
    ASSUME SiteOK, site.weather # "up", NEW url, NEW r \in Trouble(url)
    PROVE  /\ r.url = url /\ r.headers = <<>> /\ r.body = "error"
           /\ \/ r.status = 500 /\ Witness(r) = "down" /\ site.weather = "down"
              \/ r.status = 429 /\ Witness(r) = "limited"
              \/ r.status \in {403, 404} /\ Witness(r) = "forbidden"
<1>1. CASE site.weather = "down"
  BY <1>1 DEF Trouble, Res, Witness
<1>2. CASE site.weather = "limited"
  BY <1>2 DEF Trouble, Res, Witness
<1>3. CASE site.weather = "forbidding"
  BY <1>3 DEF Trouble, Res, Witness
<1> QED
  BY <1>1, <1>2, <1>3 DEF SiteOK, Weathers

LEMMA FinalAnswerTold ==
    ASSUME SiteOK, NEW kind, NEW url \in Pages, NEW r \in FinalAnswer(kind, url)
    PROVE  FinalTold(kind, url, r)
<1>1. CASE site.weather # "up"
  <2>1. r \in Trouble(url) \/ r \in DataOfBroken(kind, url)
    BY <1>1 DEF FinalAnswer
  <2>2. CASE r \in Trouble(url)
    BY <1>1, <2>2, TroubleTold DEF FinalTold, DownTold, LimitedTold, ForbiddenTold
  <2>3. CASE r \in DataOfBroken(kind, url)
    <3>1. /\ kind \in {"siap-mint", "siap-api"}
          /\ r.status = 500 /\ r.body \in {"data", "failure"}
      BY <2>3 DEF DataOfBroken, Res
    <3> QED
      BY <3>1 DEF FinalTold, DownTold, Witness
  <2> QED
    BY <2>1, <2>2, <2>3
<1>2. CASE site.weather = "up" /\ site.alive
  <2>1. r \in FinalOfLiving(url)
    BY <1>2 DEF FinalAnswer
  <2>2. /\ r.status = 200 /\ r.url = url
        /\ r.body \in IF url \in {"api", "ajax"} THEN {"data", "failure", "torn"} ELSE {url, "torn"}
    BY <2>1 DEF FinalOfLiving, Res
  <2> QED
    BY <1>2, <2>2 DEF FinalTold, AliveTold, Witness
<1>3. CASE site.weather = "up" /\ ~ site.alive
  <2>1. r \in FinalOfDead(url)
    BY <1>3 DEF FinalAnswer
  <2> DEFINE words == IF url \in {"api", "ajax"} THEN {"denial", "failure"} ELSE {"login"}
  <2>2. \/ \E status \in {200, 401}, b \in words : r = Res(status, url, b, <<>>)
        \/ r = Res(200, "login", "guest", <<>>)
        \/ r = Res(200, "elsewhere", "login", <<>>)
    BY <2>1 DEF FinalOfDead
  <2>3. CASE \E status \in {200, 401}, b \in words : r = Res(status, url, b, <<>>)
    <3>1. r.status \in {200, 401} /\ r.url = url /\ r.body \in words
      BY <2>3 DEF Res
    <3>2. Witness(r) = "dead"
      BY <1>3, <3>1 DEF Witness
    <3> QED
      BY <1>3, <3>1, <3>2 DEF FinalTold, DeadTold
  <2>4. CASE r = Res(200, "login", "guest", <<>>) \/ r = Res(200, "elsewhere", "login", <<>>)
    BY <1>3, <2>4 DEF FinalTold, DeadTold, Res, Witness
  <2> QED
    BY <2>2, <2>3, <2>4
<1> QED
  BY <1>1, <1>2, <1>3 DEF SiteOK

\* What a caller may make of an answer.
Values == {"valid", "none", "401", "502", "500", "404", "unavailable", "invalid"}

Sound(kind, r, result) ==
    /\ result.value \in Values
    /\ kind # "kulon-identity" => result.value # "none" /\ (result.event = "ok" <=> result.value = "valid")
    /\ result.value = "valid" /\ kind \notin {"text", "json"} =>
          /\ Witness(r) # "dead"
          /\ kind \notin {"siap-mint", "siap-api"} => site.alive /\ Witness(r) = "alive"
    /\ result.value \in {"invalid", "401"} /\ kind \notin Checks \cup {"kulon-identity"} =>
          Witness(r) \in {"dead", "forbidden"} \cup TakenForDeath(kind)

\* A result that blames the session, and one that blames anything else.
Hard(result) == result.event # "ok" /\ result.value \in {"401", "invalid"}

Soft(result) == result.event # "ok" /\ result.value \in {"502", "500", "404", "unavailable"}

LEMMA ThrowsAre ==
    /\ \A event, found : Throws(event, found).event = event /\ Throws(event, found).value = found
BY DEF Throws

LEMMA ResultsAre ==
    /\ Soft(HttpError(500)) /\ \A status \in {0, 401, 403, 404, 429} : Hard(HttpError(status))
    /\ Soft(Torn) /\ Hard(Throws("parse_error", "401"))
    /\ Soft(Throws("http_error", "unavailable")) /\ Hard(Throws("http_error", "invalid"))
    /\ Soft(Throws("parse_error", "unavailable")) /\ Hard(Throws("stale", "invalid"))
    /\ Soft(Throws("http_error", "404"))
    /\ \A r : /\ Soft(Stale("api-endpoint", r))
              /\ Hard(Stale("login-redirect", r)) /\ Hard(Stale("api-credential", r))
    /\ \A status : Soft(Throws("parse_error", statusForStaleReason("api-endpoint", status)))
<1>1. Soft(HttpError(500))
  BY ThrowsAre DEF HttpError, statusForStaleReason, Soft
<1>2. ASSUME NEW status \in {0, 401, 403, 404, 429} PROVE Hard(HttpError(status))
  <2>1. statusForStaleReason("http-not-ok", status) = "401"
    BY DEF statusForStaleReason
  <2> QED
    BY <2>1, ThrowsAre DEF HttpError, Hard
<1>3. Soft(Torn)
  BY ThrowsAre DEF Torn, Soft
<1>4. /\ Hard(Throws("parse_error", "401"))
      /\ Hard(Throws("http_error", "invalid")) /\ Hard(Throws("stale", "invalid"))
  BY ThrowsAre DEF Hard
<1>5. /\ Soft(Throws("http_error", "unavailable")) /\ Soft(Throws("parse_error", "unavailable"))
      /\ Soft(Throws("http_error", "404"))
  BY ThrowsAre DEF Soft
<1>6. ASSUME NEW r
      PROVE  /\ Soft(Stale("api-endpoint", r))
             /\ Hard(Stale("login-redirect", r)) /\ Hard(Stale("api-credential", r))
  <2>1. /\ statusForStaleReason("api-endpoint", r.status) = "502"
        /\ statusForStaleReason("login-redirect", r.status) = "401"
        /\ statusForStaleReason("api-credential", r.status) = "401"
    BY DEF statusForStaleReason
  <2> QED
    BY <2>1, ThrowsAre DEF Stale, Soft, Hard
<1>7. ASSUME NEW status
      PROVE  Soft(Throws("parse_error", statusForStaleReason("api-endpoint", status)))
  BY ThrowsAre DEF statusForStaleReason, Soft
<1> QED
  BY <1>1, <1>2, <1>3, <1>4, <1>5, <1>6, <1>7

LEMMA SoundResults ==
    ASSUME NEW kind, NEW r, NEW result
    PROVE  /\ Soft(result) => Sound(kind, r, result)
           /\ /\ Hard(result)
              /\ \/ kind \in Checks \cup {"kulon-identity"}
                 \/ Witness(r) \in {"dead", "forbidden"} \cup TakenForDeath(kind)
              => Sound(kind, r, result)
           /\ /\ result = Returns("valid")
              /\ \/ kind \in {"text", "json"}
                 \/ kind \in {"siap-mint", "siap-api"} /\ Witness(r) # "dead"
                 \/ site.alive /\ Witness(r) = "alive"
              => Sound(kind, r, result)
<1>1. Soft(result) => Sound(kind, r, result)
  BY DEF Soft, Sound, Values
<1>2. /\ Hard(result)
      /\ \/ kind \in Checks \cup {"kulon-identity"}
         \/ Witness(r) \in {"dead", "forbidden"} \cup TakenForDeath(kind)
      => Sound(kind, r, result)
  BY DEF Hard, Sound, Values
<1>3. Returns("valid").event = "ok" /\ Returns("valid").value = "valid"
  BY DEF Returns
<1>4. /\ \/ kind \in {"text", "json"}
         \/ kind \in {"siap-mint", "siap-api"} /\ Witness(r) # "dead"
         \/ site.alive /\ Witness(r) = "alive"
      => Sound(kind, r, Returns("valid"))
  BY <1>3 DEF Sound, Values
<1> QED
  BY <1>1, <1>2, <1>4

\* What each consumer makes of an answer, by what it looks at.
LEMMA CheckMarkerIs ==
    ASSUME NEW r
    PROVE  /\ r.status = 500 => Soft(CheckMarker(r))
           /\ r.status \in {401, 403, 404, 429} => Hard(CheckMarker(r))
           /\ r.status = 200 /\ r.url \in {"login", "elsewhere"} => Hard(CheckMarker(r))
           /\ r.status = 200 /\ r.url = "home" /\ r.body = "torn" => Soft(CheckMarker(r))
           /\ r.status = 200 /\ r.url = "home" /\ r.body = "home" => CheckMarker(r) = Returns("valid")
           /\ r.status = 200 /\ r.url = "home" /\ r.body = "login" => Hard(CheckMarker(r))
BY ResultsAre DEF CheckMarker, Ok, isLoginRedirect, hasSesskeyMarker

LEMMA RenewalPageIs ==
    ASSUME NEW r, NEW url \in {"home", "profile"}
    PROVE  /\ r.status \in {429, 500} => Soft(RenewalPage(r, url))
           /\ r.status \in {401, 403, 404} => Hard(RenewalPage(r, url))
           /\ r.status = 200 /\ r.url \in {"login", "elsewhere"} => Hard(RenewalPage(r, url))
           /\ r.status = 200 /\ r.url = url /\ r.body = "torn" => Soft(RenewalPage(r, url))
           /\ r.status = 200 /\ r.url = url /\ r.body = url => RenewalPage(r, url) = Returns("valid")
           /\ r.status = 200 /\ r.url = url /\ r.body = "login" => Hard(RenewalPage(r, url))
BY ResultsAre DEF RenewalPage, Ok, Unavailable, isLoginRedirect

LEMMA SesskeyIs ==
    ASSUME NEW r
    PROVE  /\ r.status \in {401, 403, 404, 429, 500} => Hard(fetchSesskeyOrThrow(r))
           /\ r.status = 200 => fetchSesskeyOrThrow(r) = CheckMarker(r)
BY ResultsAre DEF fetchSesskeyOrThrow, Ok

LEMMA IdentityPageIs ==
    ASSUME NEW r
    PROVE  /\ r.status \in {401, 403, 404, 429, 500} => Hard(IdentityPage(r))
           /\ r.status = 200 /\ r.url \in {"login", "elsewhere"} => Hard(IdentityPage(r))
           /\ r.status = 200 /\ r.url = "profile" /\ r.body = "torn" => Soft(IdentityPage(r))
           /\ r.status = 200 /\ r.url = "profile" /\ r.body = "profile" =>
                 IdentityPage(r) = Returns("valid")
           /\ r.status = 200 /\ r.url = "profile" /\ r.body = "login" =>
                 IdentityPage(r) = Returns("none")
BY ResultsAre DEF IdentityPage, Ok, isLoginRedirect

LEMMA AjaxIs ==
    ASSUME NEW r
    PROVE  /\ r.status = 500 => Soft(postAjax(r))
           /\ r.status \in {401, 403, 404, 429} => Hard(postAjax(r))
           /\ r.status = 200 /\ r.url \in {"login", "elsewhere"} => Hard(postAjax(r))
           /\ r.status = 200 /\ r.url \in {"api", "ajax"} =>
                 /\ r.body = "data" => postAjax(r) = Returns("valid")
                 /\ r.body \in {"failure", "denial"} => Soft(postAjax(r))
                 /\ r.body = "torn" => Hard(postAjax(r))
BY ResultsAre DEF postAjax, Ok, isLoginRedirect

LEMMA MintIs ==
    ASSUME NEW r
    PROVE  /\ r.body = "data" => mintToken(r) = Returns("valid")
           /\ r.body \in {"error", "torn", "login", "guest"} => Soft(mintToken(r))
           /\ r.body = "failure" /\ r.status \in {200, 500} => Soft(mintToken(r))
           /\ r.body \in {"failure", "denial"} => Soft(mintToken(r)) \/ Hard(mintToken(r))
BY ResultsAre DEF mintToken

LEMMA PageIs ==
    ASSUME NEW r
    PROVE  /\ r.status \in {404, 500} => Soft(fetchKulonPage(r))
           /\ r.status \in {401, 403, 429} => Hard(fetchKulonPage(r))
           /\ r.status = 200 /\ r.url \in {"login", "elsewhere"} => Hard(fetchKulonPage(r))
           /\ r.status = 200 /\ r.url = "home" =>
                 /\ r.body = "login" => Hard(fetchKulonPage(r))
                 /\ r.body = "torn" => Soft(fetchKulonPage(r))
                 /\ r.body = "home" => fetchKulonPage(r) = Returns("valid")
BY ResultsAre DEF fetchKulonPage, Ok, isLoginRedirect

LEMMA TextIs ==
    ASSUME NEW r
    PROVE  /\ r.status = 500 => Soft(consumeText(r))
           /\ r.status \in {401, 403, 404, 429} => Hard(consumeText(r))
           /\ r.status = 200 /\ r.url \in {"login", "elsewhere"} => Hard(consumeText(r))
           /\ r.status = 200 /\ r.url = "home" =>
                 \/ r.body = "torn" /\ Soft(consumeText(r))
                 \/ r.body # "torn" /\ consumeText(r) = Returns("valid")
BY ResultsAre DEF consumeText, responseFailure, Ok, isLoginRedirect

LEMMA JsonIs ==
    ASSUME NEW r
    PROVE  /\ r.status = 500 => Soft(consumeJson(r))
           /\ r.status \in {401, 403, 404, 429} => Hard(consumeJson(r))
           /\ r.status = 200 /\ r.url \in {"login", "elsewhere"} => Hard(consumeJson(r))
           /\ r.status = 200 /\ r.url = "api" =>
                 /\ r.body \in {"data", "failure", "denial"} => consumeJson(r) = Returns("valid")
                 /\ r.body = "torn" => Hard(consumeJson(r))
BY ResultsAre DEF consumeJson, responseFailure, Ok, isLoginRedirect

LEMMA ChecksSound ==
    ASSUME NEW kind \in Checks, NEW r
    PROVE  FinalTold(kind, "home", r) => Sound(kind, r, CheckMarker(r))
<1> USE SoundResults, CheckMarkerIs DEF Checks, TakenForDeath
<1>1. DownTold(kind, r) => Sound(kind, r, CheckMarker(r))
  BY DEF DownTold
<1>2. LimitedTold(r) => Sound(kind, r, CheckMarker(r))
  BY DEF LimitedTold
<1>3. ForbiddenTold(r) => Sound(kind, r, CheckMarker(r))
  BY DEF ForbiddenTold
<1>4. AliveTold("home", r) => Sound(kind, r, CheckMarker(r))
  BY DEF AliveTold
<1>5. DeadTold("home", r) => Sound(kind, r, CheckMarker(r))
  BY DEF DeadTold
<1> QED
  BY <1>1, <1>2, <1>3, <1>4, <1>5 DEF FinalTold

LEMMA RenewalsSound ==
    ASSUME NEW kind \in Renewals, NEW url \in {"home", "profile"}, NEW r
    PROVE  FinalTold(kind, url, r) => Sound(kind, r, RenewalPage(r, url))
<1> USE SoundResults, RenewalPageIs DEF Checks, TakenForDeath
<1>1. DownTold(kind, r) => Sound(kind, r, RenewalPage(r, url))
  BY DEF DownTold
<1>2. LimitedTold(r) => Sound(kind, r, RenewalPage(r, url))
  BY DEF LimitedTold
<1>3. ForbiddenTold(r) => Sound(kind, r, RenewalPage(r, url))
  BY DEF ForbiddenTold
<1>4. AliveTold(url, r) => Sound(kind, r, RenewalPage(r, url))
  BY DEF AliveTold
<1>5. DeadTold(url, r) => Sound(kind, r, RenewalPage(r, url))
  BY DEF DeadTold
<1> QED
  BY <1>1, <1>2, <1>3, <1>4, <1>5 DEF FinalTold

LEMMA SesskeySound ==
    ASSUME NEW kind \in {"kulon-sesskey", "kulon-identity"}, NEW r
    PROVE  FinalTold(kind, "home", r) => Sound(kind, r, fetchSesskeyOrThrow(r))
<1> USE SoundResults, SesskeyIs, CheckMarkerIs DEF Checks, TakenForDeath
<1>1. DownTold(kind, r) => Sound(kind, r, fetchSesskeyOrThrow(r))
  BY DEF DownTold
<1>2. LimitedTold(r) => Sound(kind, r, fetchSesskeyOrThrow(r))
  BY DEF LimitedTold
<1>3. ForbiddenTold(r) => Sound(kind, r, fetchSesskeyOrThrow(r))
  BY DEF ForbiddenTold
<1>4. AliveTold("home", r) => Sound(kind, r, fetchSesskeyOrThrow(r))
  BY DEF AliveTold
<1>5. DeadTold("home", r) => Sound(kind, r, fetchSesskeyOrThrow(r))
  BY DEF DeadTold
<1> QED
  BY <1>1, <1>2, <1>3, <1>4, <1>5 DEF FinalTold

LEMMA AjaxSound ==
    ASSUME NEW kind \in {"kulon-ajax", "kulon-identity"}, NEW url \in {"api", "ajax"}, NEW r
    PROVE  FinalTold(kind, url, r) => Sound(kind, r, postAjax(r))
<1> USE SoundResults, AjaxIs DEF Checks, TakenForDeath
<1>1. DownTold(kind, r) => Sound(kind, r, postAjax(r))
  BY DEF DownTold
<1>2. LimitedTold(r) => Sound(kind, r, postAjax(r))
  BY DEF LimitedTold
<1>3. ForbiddenTold(r) => Sound(kind, r, postAjax(r))
  BY DEF ForbiddenTold
<1>4. AliveTold(url, r) => Sound(kind, r, postAjax(r))
  BY DEF AliveTold
<1>5. DeadTold(url, r) => Sound(kind, r, postAjax(r))
  BY DEF DeadTold
<1> QED
  BY <1>1, <1>2, <1>3, <1>4, <1>5 DEF FinalTold

LEMMA MintSound ==
    ASSUME NEW kind \in {"siap-mint", "siap-api"}, NEW r
    PROVE  FinalTold(kind, "api", r) => Sound(kind, r, mintToken(r))
<1> USE SoundResults, MintIs DEF Checks, TakenForDeath
<1>1. DownTold(kind, r) => Sound(kind, r, mintToken(r))
  BY DEF DownTold
<1>2. LimitedTold(r) => Sound(kind, r, mintToken(r))
  BY DEF LimitedTold
<1>3. ForbiddenTold(r) => Sound(kind, r, mintToken(r))
  BY DEF ForbiddenTold
<1>4. AliveTold("api", r) => Sound(kind, r, mintToken(r))
  BY DEF AliveTold
<1>5. DeadTold("api", r) => Sound(kind, r, mintToken(r))
  BY DEF DeadTold
<1> QED
  BY <1>1, <1>2, <1>3, <1>4, <1>5 DEF FinalTold

LEMMA IdentitySound ==
    ASSUME NEW r
    PROVE  FinalTold("kulon-identity", "profile", r) => Sound("kulon-identity", r, IdentityPage(r))
<1>1. Sound("kulon-identity", r, Returns("none"))
  <2>1. Returns("none").event = "ok" /\ Returns("none").value = "none"
    BY DEF Returns
  <2> QED
    BY <2>1 DEF Sound, Values, Checks
<1> USE SoundResults, IdentityPageIs DEF Checks, TakenForDeath
<1>2. DownTold("kulon-identity", r) => Sound("kulon-identity", r, IdentityPage(r))
  BY DEF DownTold
<1>3. LimitedTold(r) => Sound("kulon-identity", r, IdentityPage(r))
  BY DEF LimitedTold
<1>4. ForbiddenTold(r) => Sound("kulon-identity", r, IdentityPage(r))
  BY DEF ForbiddenTold
<1>5. AliveTold("profile", r) => Sound("kulon-identity", r, IdentityPage(r))
  BY DEF AliveTold
<1>6. DeadTold("profile", r) => Sound("kulon-identity", r, IdentityPage(r))
  BY <1>1 DEF DeadTold
<1> QED
  BY <1>2, <1>3, <1>4, <1>5, <1>6 DEF FinalTold

LEMMA PageSound ==
    ASSUME NEW r
    PROVE  FinalTold("kulon-page", "home", r) => Sound("kulon-page", r, fetchKulonPage(r))
<1> USE SoundResults, PageIs DEF Checks, TakenForDeath
<1>1. DownTold("kulon-page", r) => Sound("kulon-page", r, fetchKulonPage(r))
  BY DEF DownTold
<1>2. LimitedTold(r) => Sound("kulon-page", r, fetchKulonPage(r))
  BY DEF LimitedTold
<1>3. ForbiddenTold(r) => Sound("kulon-page", r, fetchKulonPage(r))
  BY DEF ForbiddenTold
<1>4. AliveTold("home", r) => Sound("kulon-page", r, fetchKulonPage(r))
  BY DEF AliveTold
<1>5. DeadTold("home", r) => Sound("kulon-page", r, fetchKulonPage(r))
  BY DEF DeadTold
<1> QED
  BY <1>1, <1>2, <1>3, <1>4, <1>5 DEF FinalTold

LEMMA TextSound ==
    ASSUME NEW r
    PROVE  FinalTold("text", "home", r) => Sound("text", r, consumeText(r))
<1> USE SoundResults, TextIs DEF Checks, TakenForDeath
<1>1. DownTold("text", r) => Sound("text", r, consumeText(r))
  BY DEF DownTold
<1>2. LimitedTold(r) => Sound("text", r, consumeText(r))
  BY DEF LimitedTold
<1>3. ForbiddenTold(r) => Sound("text", r, consumeText(r))
  BY DEF ForbiddenTold
<1>4. AliveTold("home", r) => Sound("text", r, consumeText(r))
  BY DEF AliveTold
<1>5. DeadTold("home", r) => Sound("text", r, consumeText(r))
  BY DEF DeadTold
<1> QED
  BY <1>1, <1>2, <1>3, <1>4, <1>5 DEF FinalTold

LEMMA JsonSound ==
    ASSUME NEW r
    PROVE  FinalTold("json", "api", r) => Sound("json", r, consumeJson(r))
<1> USE SoundResults, JsonIs DEF Checks, TakenForDeath
<1>1. DownTold("json", r) => Sound("json", r, consumeJson(r))
  BY DEF DownTold
<1>2. LimitedTold(r) => Sound("json", r, consumeJson(r))
  BY DEF LimitedTold
<1>3. ForbiddenTold(r) => Sound("json", r, consumeJson(r))
  BY DEF ForbiddenTold
<1>4. AliveTold("api", r) => Sound("json", r, consumeJson(r))
  BY DEF AliveTold
<1>5. DeadTold("api", r) => Sound("json", r, consumeJson(r))
  BY DEF DeadTold
<1> QED
  BY <1>1, <1>2, <1>3, <1>4, <1>5 DEF FinalTold

LEMMA ConsumeSound ==
    ASSUME SiteOK, NEW kind \in Kinds \ Walks, NEW url, FetchedThere(kind, url),
           NEW r \in FinalAnswer(kind, url)
    PROVE  Sound(kind, r, Consume(kind, url, r))
<1>1. url \in Pages
  BY DEF FetchedThere, SeveralPages, FirstUrl, Pages
<1>2. FinalTold(kind, url, r)
  BY <1>1, FinalAnswerTold
<1>3. CASE kind \in Checks
  <2>1. url = "home" /\ Consume(kind, url, r) = CheckMarker(r)
    BY <1>3 DEF FetchedThere, SeveralPages, FirstUrl, Checks, Renewals, Walks, Consume
  <2> QED
    BY <1>2, <1>3, <2>1, ChecksSound
<1>4. CASE kind \in Renewals
  <2>1. url \in {"home", "profile"} /\ Consume(kind, url, r) = RenewalPage(r, url)
    BY <1>4 DEF FetchedThere, SeveralPages, FirstUrl, Checks, Renewals, Walks, Consume
  <2> QED
    BY <1>2, <1>4, <2>1, RenewalsSound
<1>5. CASE kind = "kulon-sesskey" \/ (kind = "kulon-identity" /\ url = "home")
  <2>1. url = "home" /\ Consume(kind, url, r) = fetchSesskeyOrThrow(r)
    BY <1>5 DEF FetchedThere, SeveralPages, FirstUrl, Checks, Renewals, Walks, Consume
  <2> QED
    BY <1>2, <1>5, <2>1, SesskeySound
<1>6. CASE kind = "kulon-ajax" \/ (kind = "kulon-identity" /\ url = "ajax")
  <2>1. url \in {"api", "ajax"}
    BY <1>6 DEF FetchedThere, SeveralPages, FirstUrl, Walks
  <2>2. Consume(kind, url, r) = postAjax(r)
    BY <1>6 DEF Checks, Renewals, Consume
  <2> QED
    BY <1>2, <1>6, <2>1, <2>2, AjaxSound
<1>7. CASE kind = "kulon-identity" /\ url = "profile"
  <2>1. Consume(kind, url, r) = IdentityPage(r)
    BY <1>7 DEF Checks, Renewals, Consume
  <2> QED
    BY <1>2, <1>7, <2>1, IdentitySound
<1>8. CASE kind = "kulon-page"
  <2>1. url = "home" /\ Consume(kind, url, r) = fetchKulonPage(r)
    BY <1>8 DEF FetchedThere, SeveralPages, FirstUrl, Checks, Renewals, Walks, Consume
  <2> QED
    BY <1>2, <1>8, <2>1, PageSound
<1>9. CASE kind \in {"siap-mint", "siap-api"}
  <2>1. url = "api" /\ Consume(kind, url, r) = mintToken(r)
    BY <1>9 DEF FetchedThere, SeveralPages, FirstUrl, Checks, Renewals, Walks, Consume
  <2> QED
    BY <1>2, <1>9, <2>1, MintSound
<1>10. CASE kind = "text"
  <2>1. url = "home" /\ Consume(kind, url, r) = consumeText(r)
    BY <1>10 DEF FetchedThere, SeveralPages, FirstUrl, Checks, Renewals, Walks, Consume
  <2> QED
    BY <1>2, <1>10, <2>1, TextSound
<1>11. CASE kind = "json"
  <2>1. url = "api" /\ Consume(kind, url, r) = consumeJson(r)
    BY <1>11 DEF FetchedThere, SeveralPages, FirstUrl, Checks, Renewals, Walks, Consume
  <2> QED
    BY <1>2, <1>11, <2>1, JsonSound
<1>12. kind \in Checks \cup Renewals \/ kind = "kulon-identity" \/ kind \in Fetches
  BY DEF Kinds
<1> QED
  BY <1>3, <1>4, <1>5, <1>6, <1>7, <1>8, <1>9, <1>10, <1>11, <1>12 DEF Fetches, FetchedThere

-----------------------------------------------------------------------------
(* A visit that fetches.                                                     *)

VisitFields == {"kind", "url", "asked", "headers", "verdict", "witnessed", "events", "event"}

LEMMA Settled ==
    ASSUME NEW v, DOMAIN v = VisitFields, NEW found, NEW s, s = Settle(v, found)
    PROVE  /\ DOMAIN s = VisitFields
           /\ s.kind = v.kind /\ s.asked = v.asked /\ s.headers = v.headers
           /\ s.witnessed = v.witnessed /\ s.events = v.events
           /\ LET next == NextUrl(v.kind, v.url, found)
              IN  IF next # "none" THEN s.url = next /\ s.verdict = v.verdict
                  ELSE s.url = v.url /\ s.verdict = Caught(v.kind, found)
<1> DEFINE next == NextUrl(v.kind, v.url, found)
           caught == Caught(v.kind, found)
<1>1. s = IF next # "none" THEN [v EXCEPT !.url = next] ELSE [v EXCEPT !.verdict = caught]
  BY DEF Settle
<1> HIDE DEF next, caught
<1>2. CASE next # "none"
  <2>1. s = [v EXCEPT !.url = next]
    BY <1>1, <1>2
  <2> QED
    BY <1>2, <2>1 DEF VisitFields, next
<1>3. CASE next = "none"
  <2>1. s = [v EXCEPT !.verdict = caught]
    BY <1>1, <1>3
  <2> QED
    BY <1>3, <2>1 DEF VisitFields, next, caught
<1> QED
  BY <1>2, <1>3

\* One attempt of a visit that fetches: what it told, and what was made of it.
Attempt(told, found, event) ==
    visit' = [Settle([visit EXCEPT !.asked = @ + 1, !.witnessed = @ \cup {told}], found)
              EXCEPT !.events = @ + 1, !.event = event]

SoundAttempt(told, found, event) ==
    /\ found \in Values
    /\ visit.kind # "kulon-identity" => found # "none" /\ (event = "ok" <=> found = "valid")
    /\ found = "valid" /\ visit.kind \notin {"text", "json"} =>
          /\ told # "dead"
          /\ visit.kind \notin {"siap-mint", "siap-api"} => site.alive /\ told = "alive"
    /\ found \in {"invalid", "401"} /\ visit.kind \notin Checks \cup {"kulon-identity"} =>
          told \in {"dead", "forbidden"} \cup TakenForDeath(visit.kind)
    /\ told = "dead" => ~ site.alive

LEMMA AttemptKeeps ==
    ASSUME RespInv, visit.kind \in Kinds \ Walks, visit.verdict = "none", UNCHANGED site,
           NEW told, NEW found, NEW event, Attempt(told, found, event),
           SoundAttempt(told, found, event)
    PROVE  RespInv'
<1>1. /\ DOMAIN visit = VisitFields /\ visit.asked \in Nat /\ visit.events = visit.asked
      /\ visit.headers = <<>> /\ FetchedThere(visit.kind, visit.url)
      /\ visit.kind \notin SeveralPages => visit.witnessed = {}
      /\ "dead" \in visit.witnessed => ~ site.alive
  BY DEF RespInv, VisitShape, OnTheWay, FetchOnTheWay, VisitFields
<1>2. PICK v : v = [visit EXCEPT !.asked = @ + 1, !.witnessed = @ \cup {told}]
  OBVIOUS
<1>3. /\ DOMAIN v = VisitFields /\ v.asked = visit.asked + 1
      /\ v.witnessed = visit.witnessed \cup {told}
      /\ v.kind = visit.kind /\ v.url = visit.url /\ v.headers = <<>>
      /\ v.verdict = "none" /\ v.events = visit.events
  BY <1>1, <1>2 DEF VisitFields
<1>4. PICK s : s = Settle(v, found)
  OBVIOUS
<1>5. /\ DOMAIN s = VisitFields
      /\ s.kind = visit.kind /\ s.asked = visit.asked + 1 /\ s.headers = <<>>
      /\ s.witnessed = visit.witnessed \cup {told} /\ s.events = visit.events
      /\ NextUrl(visit.kind, visit.url, found) # "none" =>
            s.url = NextUrl(visit.kind, visit.url, found) /\ s.verdict = "none"
      /\ NextUrl(visit.kind, visit.url, found) = "none" =>
            s.url = visit.url /\ s.verdict = Caught(visit.kind, found)
  BY <1>3, <1>4, Settled
<1>6. visit' = [s EXCEPT !.events = @ + 1, !.event = event]
  BY <1>2, <1>4 DEF Attempt
<1>7. /\ DOMAIN visit' = VisitFields
      /\ visit'.kind = visit.kind /\ visit'.asked = visit.asked + 1 /\ visit'.headers = <<>>
      /\ visit'.witnessed = visit.witnessed \cup {told}
      /\ visit'.events = visit'.asked /\ visit'.event = event
      /\ visit'.url = s.url /\ visit'.verdict = s.verdict
  BY <1>1, <1>5, <1>6 DEF VisitFields
<1>8. SiteOK' /\ VisitShape(visit)'
  <2>1. <<>> \in Seq(SetCookies) /\ visit.asked + 1 \in Nat /\ visit.kind \in Kinds
    BY <1>1
  <2> QED
    BY <1>7, <2>1 DEF RespInv, SiteOK, VisitShape, VisitFields
<1>9. CASE NextUrl(visit.kind, visit.url, found) # "none"
  <2>1. /\ visit'.verdict = "none" /\ visit'.url = NextUrl(visit.kind, visit.url, found)
    BY <1>5, <1>7, <1>9
  <2>2. \/ visit.kind = "kulon-renewal" /\ visit'.url = "profile"
        \/ visit.kind = "kulon-identity" /\ visit'.url \in {"ajax", "profile"}
    BY <1>9, <2>1 DEF NextUrl
  <2>3. FetchedThere(visit'.kind, visit'.url)
    BY <1>7, <2>2 DEF FetchedThere, SeveralPages
  <2>4. "dead" \in visit'.witnessed => ~ site'.alive
    BY <1>1, <1>7 DEF SoundAttempt
  <2>5. OnTheWay(visit)'
    BY <1>7, <2>2, <2>3, <2>4 DEF OnTheWay, FetchOnTheWay, SeveralPages
  <2>6. ValidWasAlive' /\ OutageIsNotDeath' /\ OneEventPerAttempt'
    BY <2>1 DEF ValidWasAlive, OutageIsNotDeath, OneEventPerAttempt, Done
  <2> QED
    BY <1>8, <2>5, <2>6 DEF RespInv
<1>10. CASE NextUrl(visit.kind, visit.url, found) = "none"
  <2>1. visit'.verdict = Caught(visit.kind, found)
    BY <1>5, <1>7, <1>10
  <2>2. /\ visit'.verdict # "none"
        /\ visit'.verdict = "valid" <=> found = "valid"
        /\ visit'.verdict \in {"invalid", "401"} =>
              visit'.verdict = found /\ visit.kind \notin Checks \cup {"kulon-identity"}
    BY <2>1 DEF Caught, SoundAttempt, Values
  <2>3. OnTheWay(visit)'
    BY <2>2 DEF OnTheWay
  <2>4. OutageIsNotDeath'
    BY <1>7, <2>2 DEF OutageIsNotDeath, SoundAttempt
  <2>5. OneEventPerAttempt'
    <3>1. visit'.kind \in Checks \cup Renewals \cup Fetches => visit.kind # "kulon-identity"
      BY <1>7 DEF Checks, Renewals, Fetches
    <3>2. visit'.kind \notin Walks
      BY <1>7
    <3> QED
      BY <1>7, <2>2, <3>1, <3>2 DEF OneEventPerAttempt, SoundAttempt
  <2>6. ValidWasAlive'
    <3>1. mergeSessionCookie(visit'.headers).session # "anonymous"
      <4>1. <<>> \in Seq(SetCookies) /\ ~ Anonymous(<<>>)
        BY DEF Anonymous
      <4> QED
        BY <1>7, <4>1, MergeIsOwn
    <3>2. ASSUME visit'.kind \in Kinds \ {"text", "json"}, visit'.verdict = "valid"
          PROVE  /\ "dead" \notin visit'.witnessed
                 /\ visit'.kind \notin {"siap-mint", "siap-api"} => "alive" \in visit'.witnessed
      <4>1. /\ told # "dead"
            /\ visit.kind \notin {"siap-mint", "siap-api"} => site.alive /\ told = "alive"
        BY <1>7, <2>2, <3>2 DEF SoundAttempt
      <4>2. "dead" \notin visit.witnessed
        BY <1>1, <4>1 DEF SeveralPages
      <4> QED
        BY <1>7, <4>1, <4>2
    <3> QED
      BY <3>1, <3>2 DEF ValidWasAlive, Done
  <2> QED
    BY <1>8, <2>3, <2>4, <2>5, <2>6 DEF RespInv
<1> QED
  BY <1>9, <1>10

LEMMA FetchKeeps ==
    ASSUME RespInv, timedFetch
    PROVE  RespInv'
<1>1. /\ visit.kind \in Kinds \ Walks /\ visit.verdict = "none" /\ UNCHANGED site
      /\ SiteOK /\ FetchedThere(visit.kind, visit.url)
  BY DEF timedFetch, RespInv, VisitShape, OnTheWay, FetchOnTheWay
<1>2. PICK r \in FinalAnswer(visit.kind, visit.url) :
         visit' = [Settle(Answered(r), Consume(visit.kind, visit.url, r).value)
                   EXCEPT !.events = @ + TerminalEvents(Consume(visit.kind, visit.url, r)),
                          !.event = Consume(visit.kind, visit.url, r).event]
  BY DEF timedFetch
<1>3. PICK result : result = Consume(visit.kind, visit.url, r)
  OBVIOUS
<1>4. Sound(visit.kind, r, result)
  BY <1>1, <1>3, ConsumeSound
<1>5. Attempt(Witness(r), result.value, result.event)
  BY <1>2, <1>3 DEF Attempt, Answered, TerminalEvents
<1>6. Witness(r) = "dead" => ~ site.alive
  BY DEF Witness
<1>7. SoundAttempt(Witness(r), result.value, result.event)
  BY <1>4, <1>6 DEF Sound, SoundAttempt
<1> QED
  BY <1>1, <1>5, <1>7, AttemptKeeps

LEMMA FetchThrowsKeeps ==
    ASSUME RespInv, FetchThrows
    PROVE  RespInv'
<1>1. visit.kind \in Kinds \ Walks /\ visit.verdict = "none" /\ UNCHANGED site
  BY DEF FetchThrows, RespInv, VisitShape
<1>2. PICK reason, told :
         /\ \/ reason = "fetch-threw" /\ told = "silent"
            \/ reason = "redirect-loop" /\ told = "dead" /\ ~ site.alive
         /\ Attempt(told, Unanswered(visit.kind, reason), "network_error")
  BY DEF FetchThrows, Throwing, Attempt
<1>3. PICK found : found = Unanswered(visit.kind, reason)
  OBVIOUS
<1>4. /\ found \in {"invalid", "unavailable", "401", "502", "500"}
      /\ found \in {"invalid", "401"} => reason = "redirect-loop"
  BY <1>2, <1>3 DEF Unanswered, statusForStaleReason
<1>5. SoundAttempt(told, found, "network_error")
  BY <1>2, <1>4 DEF SoundAttempt, Values
<1> QED
  BY <1>1, <1>2, <1>3, <1>5, AttemptKeeps

-----------------------------------------------------------------------------
(* A visit that walks.                                                       *)

\* What one answer that nobody followed may be.
LivingHop(kind, url, r) ==
    /\ site.alive /\ ~ Anonymous(r.headers)
    /\ Witness(r) = IF r.body = "torn" THEN "torn" ELSE "alive"
    /\ \/ kind = "sso-keep" /\ r.status = 302 /\ r.url = "dashboard" /\ r.body = "none"
       \/ kind # "sso-keep" /\ r.status = 200 /\ r.url = url /\ r.body \in {"home", "torn"}
       \/ kind # "sso-keep" /\ r.status = 302 /\ r.url = "home" /\ r.body = "none" /\ url = "start"

DeadHop(url, r) ==
    /\ ~ site.alive /\ Witness(r) = "dead"
    /\ \/ r.status = 302 /\ r.url \in {"login", "elsewhere"} /\ r.body = "none"
       \/ r.status = 200 /\ r.url = url /\ (r.body = "guest" <=> url = "login")
             /\ r.body \in {"guest", "login"}

TroubledHop(url, r) ==
    /\ ~ Anonymous(r.headers) /\ r.url = url /\ r.body = "error"
    /\ \/ r.status = 500 /\ Witness(r) = "down"
       \/ r.status = 429 /\ Witness(r) = "limited"
       \/ r.status \in {403, 404} /\ Witness(r) = "forbidden"

LEMMA OneAnswerTold ==
    ASSUME SiteOK, NEW kind, NEW url, NEW r \in OneAnswer(kind, url)
    PROVE  /\ r.headers \in Seq(SetCookies)
           /\ LivingHop(kind, url, r) \/ DeadHop(url, r) \/ TroubledHop(url, r)
<1>1. CASE site.weather # "up"
  <2>1. r \in Trouble(url)
    BY <1>1 DEF OneAnswer
  <2>2. r.headers = <<>> /\ <<>> \in Seq(SetCookies) /\ ~ Anonymous(<<>>)
    BY <1>1, <2>1, TroubleTold DEF Anonymous
  <2> QED
    BY <1>1, <2>1, <2>2, TroubleTold DEF TroubledHop
<1>2. CASE site.weather = "up" /\ site.alive
  <2>1. r \in OneOfLiving(kind, url)
    BY <1>2 DEF OneAnswer
  <2> DEFINE headers == {<<>>} \cup {<<h>> : h \in OwnHeaders}
  <2>2. ASSUME NEW h \in headers PROVE h \in Seq(SetCookies) /\ ~ Anonymous(h)
    <3>1. CASE h = <<>>
      BY <3>1 DEF Anonymous
    <3>2. CASE \E x \in OwnHeaders : h = <<x>>
      <4>1. PICK x \in OwnHeaders : h = <<x>>
        BY <3>2
      <4>2. x # AnonHeader
        BY DEF OwnHeaders, AnonHeader
      <4> QED
        BY <4>1, <4>2 DEF Anonymous, SetCookies
    <3> QED
      BY <3>1, <3>2
  <2>3. \E h \in headers :
           \/ kind = "sso-keep" /\ r = Res(302, "dashboard", "none", h)
           \/ kind # "sso-keep" /\ \E b \in {"home", "torn"} : r = Res(200, url, b, h)
           \/ kind # "sso-keep" /\ url = "start" /\ r = Res(302, "home", "none", h)
    BY <2>1 DEF OneOfLiving
  <2> HIDE DEF headers
  <2>4. PICK h \in headers :
           \/ kind = "sso-keep" /\ r = Res(302, "dashboard", "none", h)
           \/ kind # "sso-keep" /\ \E b \in {"home", "torn"} : r = Res(200, url, b, h)
           \/ kind # "sso-keep" /\ url = "start" /\ r = Res(302, "home", "none", h)
    BY <2>3
  <2>5. /\ r.headers = h
        /\ \/ kind = "sso-keep" /\ r.status = 302 /\ r.url = "dashboard" /\ r.body = "none"
           \/ kind # "sso-keep" /\ r.status = 200 /\ r.url = url /\ r.body \in {"home", "torn"}
           \/ kind # "sso-keep" /\ r.status = 302 /\ r.url = "home" /\ r.body = "none" /\ url = "start"
    BY <2>4 DEF Res
  <2>6. Witness(r) = IF r.body = "torn" THEN "torn" ELSE "alive"
    <3>1. r.status \in {200, 302}
      BY <2>5
    <3> QED
      BY <1>2, <3>1 DEF Witness
  <2> QED
    BY <1>2, <2>2, <2>5, <2>6 DEF LivingHop
<1>3. CASE site.weather = "up" /\ ~ site.alive
  <2>1. r \in OneOfDead(url)
    BY <1>3 DEF OneAnswer
  <2>2. /\ r.headers \in {<<>>, <<AnonHeader>>}
        /\ \/ r.status = 302 /\ r.url \in {"login", "elsewhere"} /\ r.body = "none"
           \/ r.status = 200 /\ r.url = url /\ (r.body = "guest" <=> url = "login")
                 /\ r.body \in {"guest", "login"}
    <3>1. \/ r = Res(302, "login", "none", <<AnonHeader>>)
          \/ r = Res(302, "elsewhere", "none", <<>>)
          \/ r = Res(200, url, IF url = "login" THEN "guest" ELSE "login", <<AnonHeader>>)
      BY <2>1 DEF OneOfDead
    <3>2. CASE r = Res(302, "login", "none", <<AnonHeader>>) \/ r = Res(302, "elsewhere", "none", <<>>)
      BY <3>2 DEF Res
    <3>3. CASE r = Res(200, url, IF url = "login" THEN "guest" ELSE "login", <<AnonHeader>>)
      <4>1. r.status = 200 /\ r.url = url /\ r.headers = <<AnonHeader>>
        BY <3>3 DEF Res
      <4>2. r.body = IF url = "login" THEN "guest" ELSE "login"
        BY <3>3 DEF Res
      <4> QED
        BY <4>1, <4>2
    <3> QED
      BY <3>1, <3>2, <3>3
  <2>3. r.headers \in Seq(SetCookies)
    <3>1. <<>> \in Seq(SetCookies) /\ <<AnonHeader>> \in Seq(SetCookies)
      BY DEF SetCookies
    <3> QED
      BY <2>2, <3>1
  <2>4. Witness(r) = "dead"
    <3>1. r.status \in {200, 302} /\ r.body # "torn"
      BY <2>2
    <3> QED
      BY <1>3, <3>1 DEF Witness
  <2> QED
    BY <1>3, <2>2, <2>3, <2>4 DEF DeadHop
<1> QED
  BY <1>1, <1>2, <1>3 DEF SiteOK

LEMMA AppendedIsOwn ==
    ASSUME NEW first \in Seq(SetCookies), NEW second \in Seq(SetCookies)
    PROVE  /\ first \o second \in Seq(SetCookies)
           /\ Anonymous(first \o second) => Anonymous(first) \/ Anonymous(second)
<1>1. ASSUME NEW i \in DOMAIN (first \o second), (first \o second)[i] = AnonHeader
      PROVE  Anonymous(first) \/ Anonymous(second)
  <2>1. CASE i <= Len(first)
    <3>1. i \in DOMAIN first /\ first[i] = AnonHeader
      BY <1>1, <2>1
    <3> QED
      BY <3>1 DEF Anonymous
  <2>2. CASE i > Len(first)
    <3>1. i - Len(first) \in DOMAIN second /\ second[i - Len(first)] = AnonHeader
      BY <1>1, <2>2
    <3> QED
      BY <3>1 DEF Anonymous
  <2> QED
    BY <2>1, <2>2
<1> QED
  BY <1>1 DEF Anonymous

\* What a probe makes of the last answer of its walk.
LEMMA VerdictsAre ==
    ASSUME NEW kind \in Walks, NEW r, r.status \in {200, 302, 403, 404, 429, 500}
    PROVE  /\ Verdict(kind, r) \in {"valid", "invalid", "transient", "rate-limited"}
           /\ kind = "sso-keep" /\ r.url = "dashboard" => Verdict(kind, r) = "valid"
           /\ kind = "sso-keep" /\ r.url # "dashboard" => Verdict(kind, r) # "valid"
           /\ ~ (kind = "sso-keep" /\ r.url = "dashboard") =>
                 /\ r.status = 500 => Verdict(kind, r) = "transient"
                 /\ r.status = 429 => Verdict(kind, r) = "rate-limited"
           /\ kind # "sso-keep" /\ Verdict(kind, r) = "valid" =>
                 /\ r.status = 200 /\ r.body \in {"home", "guest"}
                 /\ r.body = "guest" => r.url \notin {"login", "elsewhere"}
           /\ kind # "sso-keep" /\ r.status = 200 /\ r.body = "home"
                 /\ r.url \notin {"login", "elsewhere"} => Verdict(kind, r) = "valid"
<1>1. /\ r.status = 200 => classifyProbeStatus(r.status) = "valid"
      /\ r.status \in {302, 403, 404} => classifyProbeStatus(r.status) = "invalid"
      /\ r.status = 429 => classifyProbeStatus(r.status) = "rate-limited"
      /\ r.status = 500 => classifyProbeStatus(r.status) = "transient"
  BY DEF classifyProbeStatus
<1>2. CASE kind = "sso-keep"
  BY <1>1, <1>2 DEF Verdict, SsoVerdict
<1>3. CASE kind = "kulon-keep"
  BY <1>1, <1>3 DEF Verdict, KulonVerdict, isLoginRedirect, hasSesskeyMarker
<1>4. CASE kind = "siap-keep"
  BY <1>1, <1>4 DEF Verdict, SiapVerdict
<1> QED
  BY <1>2, <1>3, <1>4 DEF Walks

\* A walk that is judged by its last answer, or given up, has its verdict.
LEMMA WalkEnds ==
    ASSUME RespInv, visit.kind \in Walks, visit.verdict = "none", UNCHANGED site,
           NEW told, NEW headers \in Seq(SetCookies), NEW verdict \in {"valid", "invalid", "transient", "rate-limited"},
           DOMAIN visit' = VisitFields, visit'.kind = visit.kind, visit'.asked \in Nat,
           visit'.headers = headers, visit'.verdict = verdict, visit'.events = 1,
           visit'.witnessed = visit.witnessed \cup {told},
           verdict = "invalid" => told \in {"dead", "forbidden"},
           verdict = "valid" => site.alive /\ told = "alive"
                                /\ (Anonymous(headers) => Anonymous(visit.headers))
    PROVE  RespInv'
<1>1. /\ "dead" \in visit.witnessed => ~ site.alive
      /\ Anonymous(visit.headers) => "dead" \in visit.witnessed
  BY DEF RespInv, OnTheWay, WalkOnTheWay
<1>2. SiteOK' /\ VisitShape(visit)'
  BY DEF RespInv, SiteOK, VisitShape, VisitFields
<1>3. OnTheWay(visit)'
  BY DEF OnTheWay
<1>4. OutageIsNotDeath'
  BY DEF OutageIsNotDeath
<1>5. OneEventPerAttempt'
  <2>1. visit'.kind \notin Checks \cup Renewals \cup Fetches
    BY DEF Walks, Checks, Renewals, Fetches
  <2> QED
    BY <2>1 DEF OneEventPerAttempt
<1>6. ValidWasAlive'
  <2>1. CASE verdict = "valid"
    <3>1. ~ Anonymous(headers) /\ "dead" \notin visit'.witnessed /\ "alive" \in visit'.witnessed
      BY <1>1, <2>1
    <3> QED
      BY <3>1, MergeIsOwn DEF ValidWasAlive
  <2>2. CASE verdict # "valid"
    BY <2>2 DEF ValidWasAlive
  <2> QED
    BY <2>1, <2>2
<1> QED
  BY <1>2, <1>3, <1>4, <1>5, <1>6 DEF RespInv

LEMMA HopKeeps ==
    ASSUME RespInv, Hop
    PROVE  RespInv'
<1> DEFINE kind == visit.kind
           url == visit.url
<1>1. /\ visit.kind \in Walks /\ visit.verdict = "none" /\ UNCHANGED site
      /\ SiteOK /\ DOMAIN visit = VisitFields /\ visit.asked \in Nat /\ visit.events = 0
      /\ visit.headers \in Seq(SetCookies) /\ visit.kind \in Kinds
      /\ "dead" \in visit.witnessed => ~ site.alive
      /\ visit.url \in {"start", "home", "login"} /\ (visit.url = "start" => visit.asked = 0)
      /\ visit.url = "login" => "dead" \in visit.witnessed
      /\ Anonymous(visit.headers) => "dead" \in visit.witnessed
  BY DEF Hop, RespInv, VisitShape, VisitFields, OnTheWay, WalkOnTheWay
<1>2. PICK r \in OneAnswer(visit.kind, visit.url) :
         LET v == [Answered(r) EXCEPT !.headers = @ \o r.headers]
         IN  visit' = IF r.body = "torn"
                      THEN [v EXCEPT !.verdict = "transient", !.headers = <<>>,
                                     !.events = @ + 1, !.event = "network_error"]
                      ELSE IF /\ ~StopWhen(visit.kind, r) /\ r.status = 302
                              /\ r.url # "elsewhere" /\ v.asked < MaxRequests
                      THEN [v EXCEPT !.url = r.url]
                      ELSE Judge(v, r)
  BY DEF Hop
<1>3. PICK v : v = [Answered(r) EXCEPT !.headers = @ \o r.headers]
  OBVIOUS
<1>4. PICK told : told = Witness(r)
  OBVIOUS
<1>5. /\ DOMAIN v = VisitFields /\ v.kind = visit.kind /\ v.url = visit.url
      /\ v.asked = visit.asked + 1 /\ v.headers = visit.headers \o r.headers
      /\ v.verdict = "none" /\ v.witnessed = visit.witnessed \cup {told}
      /\ v.events = 0 /\ v.event = visit.event
  <2>1. PICK a : a = Answered(r)
    OBVIOUS
  <2>2. /\ DOMAIN a = VisitFields /\ a.kind = visit.kind /\ a.url = visit.url
        /\ a.asked = visit.asked + 1 /\ a.headers = visit.headers
        /\ a.verdict = "none" /\ a.witnessed = visit.witnessed \cup {told}
        /\ a.events = 0 /\ a.event = visit.event
    BY <1>1, <1>4, <2>1 DEF Answered, VisitFields
  <2>3. v = [a EXCEPT !.headers = @ \o r.headers]
    BY <1>3, <2>1
  <2> QED
    BY <2>2, <2>3 DEF VisitFields
<1>6. /\ r.headers \in Seq(SetCookies)
      /\ LivingHop(kind, url, r) \/ DeadHop(url, r) \/ TroubledHop(url, r)
  BY <1>1, OneAnswerTold
<1>7. /\ v.headers \in Seq(SetCookies)
      /\ Anonymous(v.headers) => Anonymous(visit.headers) \/ Anonymous(r.headers)
  BY <1>1, <1>5, <1>6, AppendedIsOwn
<1>8. CASE r.body = "torn"
  <2>1. visit' = [v EXCEPT !.verdict = "transient", !.headers = <<>>,
                           !.events = @ + 1, !.event = "network_error"]
    BY <1>2, <1>3, <1>8
  <2>2. /\ DOMAIN visit' = VisitFields /\ visit'.kind = visit.kind /\ visit'.asked \in Nat
        /\ visit'.headers = <<>> /\ visit'.verdict = "transient" /\ visit'.events = 1
        /\ visit'.witnessed = visit.witnessed \cup {told}
    BY <1>1, <1>5, <2>1 DEF VisitFields
  <2>3. <<>> \in Seq(SetCookies)
    OBVIOUS
  <2> QED
    BY <1>1, <2>2, <2>3, WalkEnds
<1>9. CASE /\ r.body # "torn" /\ ~StopWhen(visit.kind, r) /\ r.status = 302
           /\ r.url # "elsewhere" /\ v.asked < MaxRequests
  <2>1. visit' = [v EXCEPT !.url = r.url]
    BY <1>2, <1>3, <1>9
  <2>2. /\ DOMAIN visit' = VisitFields /\ visit'.kind = visit.kind /\ visit'.asked \in Nat
        /\ visit'.headers = v.headers /\ visit'.verdict = "none" /\ visit'.events = 0
        /\ visit'.witnessed = visit.witnessed \cup {told} /\ visit'.url = r.url
    BY <1>1, <1>5, <2>1 DEF VisitFields
  <2>3. /\ r.url \in {"home", "login"}
        /\ r.url = "login" => told = "dead"
        /\ Anonymous(r.headers) => told = "dead"
        /\ told = "dead" => ~ site.alive
    BY <1>4, <1>6, <1>9 DEF LivingHop, DeadHop, TroubledHop, StopWhen
  <2>4. SiteOK' /\ VisitShape(visit)'
    BY <1>1, <1>7, <2>2 DEF SiteOK, VisitShape, VisitFields
  <2>5. OnTheWay(visit)'
    BY <1>1, <1>7, <2>2, <2>3 DEF OnTheWay, WalkOnTheWay
  <2>6. ValidWasAlive' /\ OutageIsNotDeath' /\ OneEventPerAttempt'
    BY <2>2 DEF ValidWasAlive, OutageIsNotDeath, OneEventPerAttempt, Done
  <2> QED
    BY <2>4, <2>5, <2>6 DEF RespInv
<1>10. CASE /\ r.body # "torn"
            /\ ~ (/\ ~StopWhen(visit.kind, r) /\ r.status = 302
                  /\ r.url # "elsewhere" /\ v.asked < MaxRequests)
  <2>1. visit' = Judge(v, r)
    BY <1>2, <1>3, <1>10
  <2>2. PICK verdict : verdict = Verdict(visit.kind, r)
    OBVIOUS
  <2>3. /\ DOMAIN visit' = VisitFields /\ visit'.kind = visit.kind /\ visit'.asked \in Nat
        /\ visit'.headers = v.headers /\ visit'.verdict = verdict /\ visit'.events = 1
        /\ visit'.witnessed = visit.witnessed \cup {told}
    BY <1>1, <1>5, <2>1, <2>2 DEF VisitFields, Judge
  <2>4. r.status \in {200, 302, 403, 404, 429, 500}
    BY <1>6 DEF LivingHop, DeadHop, TroubledHop
  <2>5. verdict \in {"valid", "invalid", "transient", "rate-limited"}
    BY <1>1, <2>2, <2>4, VerdictsAre
  <2>6. /\ verdict = "invalid" => told \in {"dead", "forbidden"}
        /\ verdict = "valid" => site.alive /\ told = "alive" /\ ~ Anonymous(r.headers)
    <3>1. CASE LivingHop(kind, url, r)
      <4>1. ~ (r.status = 302 /\ r.url = "home")
        <5>1. ASSUME r.status = 302, r.url = "home" PROVE FALSE
          <6>1. url = "start" /\ ~ StopWhen(visit.kind, r)
            BY <3>1, <5>1 DEF LivingHop, StopWhen, isLoginRedirect
          <6>2. v.asked = 1 /\ 1 < MaxRequests
            BY <1>1, <1>5, <6>1, WalkBound
          <6> QED
            BY <1>10, <5>1, <6>1, <6>2
        <5> QED
          BY <5>1
      <4>2. \/ kind = "sso-keep" /\ r.url = "dashboard"
            \/ kind # "sso-keep" /\ r.status = 200 /\ r.body = "home" /\ r.url = url
        BY <1>10, <3>1, <4>1 DEF LivingHop
      <4>3. verdict = "valid"
        <5>1. CASE kind = "sso-keep" /\ r.url = "dashboard"
          BY <1>1, <2>2, <2>4, <5>1, VerdictsAre
        <5>2. CASE kind # "sso-keep" /\ r.status = 200 /\ r.body = "home" /\ r.url = url
          <6>1. url # "login" /\ url # "elsewhere"
            BY <1>1, <3>1 DEF LivingHop
          <6> QED
            BY <1>1, <2>2, <2>4, <5>2, <6>1, VerdictsAre
        <5> QED
          BY <4>2, <5>1, <5>2
      <4> QED
        BY <1>4, <1>10, <3>1, <4>3 DEF LivingHop
    <3>2. CASE DeadHop(url, r)
      <4>1. told = "dead" /\ r.url # "dashboard"
        BY <1>1, <1>4, <3>2 DEF DeadHop
      <4>2. verdict # "valid"
        <5>1. CASE kind = "sso-keep"
          BY <1>1, <2>2, <2>4, <4>1, <5>1, VerdictsAre
        <5>2. CASE kind # "sso-keep"
          <6>1. r.status = 200 => r.body = "login" \/ (r.body = "guest" /\ r.url = "login")
            BY <3>2 DEF DeadHop
          <6> QED
            BY <1>1, <2>2, <2>4, <5>2, <6>1, VerdictsAre
        <5> QED
          BY <5>1, <5>2
      <4> QED
        BY <4>1, <4>2
    <3>3. CASE TroubledHop(url, r)
      <4>1. r.url # "dashboard" /\ r.status # 200
        BY <1>1, <3>3 DEF TroubledHop
      <4>2. verdict # "valid"
        BY <1>1, <2>2, <2>4, <4>1, VerdictsAre
      <4>3. verdict = "invalid" => r.status \notin {429, 500}
        <5>1. r.status = 500 => verdict = "transient"
          BY <1>1, <2>2, <2>4, <4>1, VerdictsAre
        <5>2. r.status = 429 => verdict = "rate-limited"
          BY <1>1, <2>2, <2>4, <4>1, VerdictsAre
        <5> QED
          BY <5>1, <5>2
      <4>4. r.status \notin {429, 500} => told = "forbidden"
        BY <1>4, <3>3 DEF TroubledHop
      <4> QED
        BY <4>2, <4>3, <4>4
    <3> QED
      BY <1>6, <3>1, <3>2, <3>3
  <2> QED
    BY <1>1, <1>7, <2>3, <2>5, <2>6, WalkEnds
<1> QED
  BY <1>8, <1>9, <1>10

LEMMA WalkThrowsKeeps ==
    ASSUME RespInv, WalkThrows
    PROVE  RespInv'
<1>1. /\ visit.kind \in Walks /\ visit.verdict = "none" /\ UNCHANGED site
      /\ DOMAIN visit = VisitFields /\ visit.asked \in Nat /\ visit.events = 0
  BY DEF WalkThrows, RespInv, VisitShape, VisitFields, OnTheWay, WalkOnTheWay
<1>2. /\ DOMAIN visit' = VisitFields /\ visit'.kind = visit.kind /\ visit'.asked \in Nat
      /\ visit'.headers = <<>> /\ visit'.verdict = "transient" /\ visit'.events = 1
      /\ visit'.witnessed = visit.witnessed \cup {"silent"}
  BY <1>1 DEF WalkThrows, VisitFields
<1>3. <<>> \in Seq(SetCookies)
  OBVIOUS
<1> QED
  BY <1>1, <1>2, <1>3, WalkEnds

-----------------------------------------------------------------------------
(* The rest.                                                                 *)

LEMMA BeginKeeps ==
    ASSUME RespInv, NEW kind \in Kinds, Begin(kind)
    PROVE  RespInv'
<1>1. PICK url : url = FirstUrl(kind)
  OBVIOUS
<1>2. /\ DOMAIN visit' = VisitFields /\ visit'.kind = kind /\ visit'.url = url
      /\ visit'.asked = 0 /\ visit'.headers = <<>> /\ visit'.verdict = "none"
      /\ visit'.witnessed = {} /\ visit'.events = 0 /\ UNCHANGED site
  BY <1>1 DEF Begin, Visit, VisitFields
<1>3. SiteOK' /\ VisitShape(visit)'
  <2>1. <<>> \in Seq(SetCookies)
    OBVIOUS
  <2> QED
    BY <1>2, <2>1 DEF RespInv, SiteOK, VisitShape, VisitFields
<1>4. kind \in Walks => WalkOnTheWay(visit)'
  <2>1. kind \in Walks => url = "start"
    BY <1>1 DEF FirstUrl
  <2>2. ~ Anonymous(<<>>)
    BY DEF Anonymous
  <2> QED
    BY <1>2, <2>1, <2>2 DEF WalkOnTheWay
<1>5. kind \notin Walks => FetchOnTheWay(visit)'
  <2>1. kind \in SeveralPages => url = "home"
    BY <1>1 DEF FirstUrl, SeveralPages, Walks
  <2>2. FetchedThere(kind, url)
    BY <1>1, <2>1 DEF FetchedThere, SeveralPages
  <2> QED
    BY <1>2, <2>2 DEF FetchOnTheWay
<1>6. OnTheWay(visit)'
  BY <1>2, <1>4, <1>5 DEF OnTheWay
<1>7. ValidWasAlive' /\ OutageIsNotDeath' /\ OneEventPerAttempt'
  BY <1>2 DEF ValidWasAlive, OutageIsNotDeath, OneEventPerAttempt, Done
<1> QED
  BY <1>3, <1>6, <1>7 DEF RespInv

LEMMA SiteChangesKeep ==
    ASSUME RespInv, SessionEnds \/ Login \/ WeatherChanges \/ UNCHANGED <<site, visit>>
    PROVE  RespInv'
<1>1. /\ UNCHANGED visit /\ SiteOK'
      /\ visit.verdict = "none" /\ ~ site.alive => ~ site'.alive
  <2>1. CASE SessionEnds
    BY <2>1 DEF SessionEnds, RespInv, SiteOK
  <2>2. CASE Login
    BY <2>2 DEF Login, RespInv, SiteOK
  <2>3. CASE WeatherChanges
    BY <2>3 DEF WeatherChanges, RespInv, SiteOK
  <2>4. CASE UNCHANGED <<site, visit>>
    BY <2>4 DEF RespInv, SiteOK
  <2> QED
    BY <2>1, <2>2, <2>3, <2>4
<1>2. VisitShape(visit)' /\ OnTheWay(visit)'
  BY <1>1 DEF RespInv, VisitShape, OnTheWay, WalkOnTheWay, FetchOnTheWay
<1>3. ValidWasAlive' /\ OutageIsNotDeath' /\ OneEventPerAttempt'
  BY <1>1 DEF RespInv, ValidWasAlive, OutageIsNotDeath, OneEventPerAttempt, Done
<1> QED
  BY <1>1, <1>2, <1>3 DEF RespInv

LEMMA ResponsesInitially ==
    ASSUME site = [alive |-> TRUE, weather |-> "up"], visit = Quiet
    PROVE  RespInv
<1>1. /\ DOMAIN visit = VisitFields /\ visit.kind = "text" /\ visit.asked = 0
      /\ visit.headers = <<>> /\ visit.verdict = "valid" /\ visit.events = 0
  BY DEF Quiet, Visit, VisitFields
<1>2. SiteOK /\ VisitShape(visit)
  BY <1>1 DEF SiteOK, Weathers, VisitShape, VisitFields, Kinds, Fetches
<1>3. OnTheWay(visit)
  BY <1>1 DEF OnTheWay
<1>4. ValidWasAlive /\ OutageIsNotDeath /\ OneEventPerAttempt
  BY <1>1 DEF ValidWasAlive, OutageIsNotDeath, OneEventPerAttempt, Done
<1> QED
  BY <1>2, <1>3, <1>4 DEF RespInv

LEMMA ResponsesKeep ==
    ASSUME RespInv, [Next]_vars
    PROVE  RespInv'
<1>1. CASE \E kind \in Kinds : Begin(kind)
  BY <1>1, BeginKeeps
<1>2. CASE Hop
  BY <1>2, HopKeeps
<1>3. CASE WalkThrows
  BY <1>3, WalkThrowsKeeps
<1>4. CASE timedFetch
  BY <1>4, FetchKeeps
<1>5. CASE FetchThrows
  BY <1>5, FetchThrowsKeeps
<1>6. CASE SessionEnds \/ Login \/ WeatherChanges \/ UNCHANGED <<site, visit>>
  BY <1>6, SiteChangesKeep
<1> QED
  BY <1>1, <1>2, <1>3, <1>4, <1>5, <1>6 DEF Next, vars

-----------------------------------------------------------------------------
(* Coursework.  The list in hand has the dates Moodle has, which no step      *)
(* changes.                                                                  *)

Listed(a) ==
    /\ a.id \in Works
    /\ a.duedate = IF work[a.id].due \in {0, Lapsed} THEN 0 ELSE work[a.id].due - 7
    /\ a.overdue \in BOOLEAN
    /\ a.overdue <=> \/ work[a.id].due = Lapsed
                     \/ work[a.id].due # 0 /\ work[a.id].due - 7 < assignments.at

WorkInv ==
    /\ work \in [Works -> [quiz : BOOLEAN, due : DueHours \cup {Lapsed}, status : Statuses]]
    /\ active \in [Works -> BOOLEAN]
    /\ DOMAIN assignments = {"list", "at"}
    /\ \E n \in Nat : DOMAIN assignments.list = 1..n
    /\ \A i \in DOMAIN assignments.list : Listed(assignments.list[i])

LEMMA WorkInitially == WorkInit => WorkInv
BY DEF WorkInit, WorkInv, Statuses

\* The twelve-hour clock is read as it was written.
LEMMA DatesAreRead ==
    ASSUME NEW due \in Nat \ {0}
    PROVE  parseMoodleDate(DueCell(due)) = due - 7
<1> DEFINE h == due % 24
           half == IF h < 12 THEN "AM" ELSE "PM"
           d == Written(due)
<1>1. DueCell(due).dates = {d}
  BY DEF DueCell, Lapsed
<1>2. d.day = due \div 24 /\ d.hour = ((h + 11) % 12) + 1 /\ d.half = half
  BY DEF Written
<1>3. h \in 0..23 /\ due = 24 * (due \div 24) + h /\ due \div 24 \in Int
  OBVIOUS
<1>4. To24Hour(((h + 11) % 12) + 1, half) = h
  <2> HIDE DEF half
  <2>1. CASE h = 0
    BY <2>1 DEF To24Hour, half
  <2>2. CASE h \in 1..11
    BY <2>2 DEF To24Hour, half
  <2>3. CASE h = 12
    BY <2>3 DEF To24Hour, half
  <2>4. CASE h \in 13..23
    BY <2>4 DEF To24Hour, half
  <2> QED
    BY <1>3, <2>1, <2>2, <2>3, <2>4
<1>5. parseMoodleDate(DueCell(due)) = d.day * 24 + To24Hour(d.hour, d.half) - 7
  <2> HIDE DEF d
  <2> QED
    BY <1>1 DEF parseMoodleDate
<1> QED
  BY <1>1, <1>2, <1>3, <1>4, <1>5

LEMMA FetchLists ==
    ASSUME WorkInv, hour \in Int, fetchAllAssignments
    PROVE  WorkInv'
<1> DEFINE ids == SetToSeq(Works)
           Entry(id) == IF work[id].quiz THEN parseQuizIndex(id) ELSE parseAssignmentIndex(id)
<1>1. PICK n \in Nat : n = Cardinality(Works)
  BY FS_CardinalityType, CourseworkAssumption
<1>2. ids \in [1..n -> Works]
  BY <1>1, SetAsSeq, CourseworkAssumption
<1> HIDE DEF ids
<1>3. assignments' = [at |-> hour, list |-> [k \in DOMAIN ids |-> Entry(ids[k])]]
  BY DEF fetchAllAssignments, ids
<1>4. \A id \in Works :
         /\ Entry(id).id = id
         /\ Entry(id).duedate = Parsed(DueCell(work[id].due))
         /\ Entry(id).overdue = Overdue(DueCell(work[id].due))
  BY DEF parseQuizIndex, parseAssignmentIndex
<1>5. \A due \in Nat \cup {Lapsed} :
         /\ Parsed(DueCell(due)) = IF due \in {0, Lapsed} THEN 0 ELSE due - 7
         /\ Overdue(DueCell(due)) \in BOOLEAN
         /\ Overdue(DueCell(due)) <=> due = Lapsed \/ (due # 0 /\ due - 7 < hour)
  <2> TAKE due \in Nat \cup {Lapsed}
  <2>2. CASE due \in {0, Lapsed}
    <3>1. DueCell(due).dates = {} /\ DueCell(due).overdue = (due = Lapsed)
      BY <2>2 DEF DueCell
    <3>2. parseMoodleDate(DueCell(due)) = NoDate
      BY <3>1 DEF parseMoodleDate
    <3>3. Parsed(DueCell(due)) = 0
      BY <3>2 DEF Parsed
    <3>4. Overdue(DueCell(due)) = (due = Lapsed)
      BY <3>1, <3>2, Zenon DEF Overdue
    <3>5. (due = Lapsed) \in BOOLEAN
      OBVIOUS
    <3>6. /\ Overdue(DueCell(due)) \in BOOLEAN
          /\ Overdue(DueCell(due)) <=> (due = Lapsed \/ (due # 0 /\ due - 7 < hour))
      BY <2>2, <3>4, <3>5, Zenon
    <3> QED
      BY <2>2, <3>3, <3>6, Zenon
  <2>3. CASE due \notin {0, Lapsed}
    <3>1. parseMoodleDate(DueCell(due)) = due - 7
      BY <2>3, DatesAreRead
    <3>2. due - 7 # NoDate
      BY <2>3 DEF NoDate
    <3> QED
      BY <2>3, <3>1, <3>2 DEF Parsed, Overdue
  <2> QED
    BY <2>2, <2>3
<1>6. work' = work /\ active' = active
  BY DEF fetchAllAssignments
<1>7. \A k \in 1..n : Listed(assignments.list[k])'
  <2> TAKE k \in 1..n
  <2>1. PICK id \in Works : id = ids[k]
    BY <1>2
  <2>2. assignments'.list[k] = Entry(id) /\ assignments'.at = hour
    BY <1>2, <1>3, <2>1
  <2>3. PICK due \in Nat \cup {Lapsed} : due = work[id].due
    BY CourseworkAssumption DEF WorkInv
  <2> HIDE DEF Entry
  <2> DEFINE a == assignments'.list[k]
  <2>4. a.id = id /\ a.duedate = Parsed(DueCell(due)) /\ a.overdue = Overdue(DueCell(due))
    BY <1>4, <2>2, <2>3, Zenon
  <2> HIDE DEF a
  <2>5. /\ a.id = id /\ a.duedate = IF due \in {0, Lapsed} THEN 0 ELSE due - 7
        /\ a.overdue \in BOOLEAN
        /\ a.overdue <=> due = Lapsed \/ (due # 0 /\ due - 7 < hour)
    BY <1>5, <2>4, Zenon
  <2> QED
    BY <1>6, <2>2, <2>3, <2>5, Zenon DEF Listed, a
<1> QED
  BY <1>2, <1>3, <1>6, <1>7 DEF WorkInv

LEMMA WorkChanges ==
    ASSUME WorkInv, NEW id \in Works, StatusChanges(id)
    PROVE  WorkInv'
<1>1. PICK status \in Statuses : work' = [work EXCEPT ![id].status = status]
  BY DEF StatusChanges, Statuses, WorkInv
<1>2. UNCHANGED <<active, assignments>>
  BY DEF StatusChanges
<1>3. work' \in [Works -> [quiz : BOOLEAN, due : DueHours \cup {Lapsed}, status : Statuses]]
      /\ \A w \in Works : work'[w].due = work[w].due
  BY <1>1 DEF WorkInv
<1> QED
  BY <1>2, <1>3 DEF WorkInv, Listed

LEMMA WorkKeeps ==
    ASSUME WorkInv, hour \in Int, [WorkNext]_workVars
    PROVE  WorkInv' /\ hour' \in Int
<1>1. CASE UNCHANGED workVars
  BY <1>1 DEF WorkInv, Listed, workVars
<1>2. CASE fetchAllAssignments
  BY <1>2, FetchLists DEF fetchAllAssignments
<1>3. CASE HourPasses
  BY <1>3 DEF WorkInv, Listed, HourPasses
<1>4. ASSUME NEW id \in Works, fetchAssignmentDetail(id) \/ hide(id) \/ unhide(id)
      PROVE  WorkInv' /\ hour' \in Int
  BY <1>4 DEF WorkInv, Listed, fetchAssignmentDetail, hide, unhide
<1>5. ASSUME NEW id \in Works, StatusChanges(id)
      PROVE  WorkInv' /\ hour' \in Int
  BY <1>5, WorkChanges DEF StatusChanges
<1> QED
  BY <1>1, <1>2, <1>3, <1>4, <1>5 DEF WorkNext

LEMMA DeadlinesHold == WorkInv => DeadlinesAreMoodles
BY DEF WorkInv, Listed, DeadlinesAreMoodles, ToSet

-----------------------------------------------------------------------------
(* The filters and the counts.                                               *)

\* The filter of the screen keeps what the dashboard counts.
LEMMA FiltersAreCounts ==
    ASSUME WorkInv, NEW key \in {"need", "late", "done"}, NEW i \in DOMAIN assignments.list
    PROVE  (TaskOf(assignments.list[i]) = key) <=> matchesKulonFilter(key, assignments.list[i])
<1> DEFINE a == assignments.list[i]
<1>1. a.overdue \in BOOLEAN /\ courseActive(a) \in BOOLEAN /\ isDone(a) \in BOOLEAN
  BY DEF WorkInv, Listed, courseActive, isDone
<1> HIDE DEF a
<1>2. TaskOf(a) = IF isDone(a) THEN "done" ELSE IF a.overdue THEN "late"
                  ELSE IF courseActive(a) THEN "need" ELSE "other"
  BY <1>1 DEF TaskOf
<1>3. matchesKulonFilter(key, a) <=>
         \/ key = "done" /\ isDone(a)
         \/ key = "late" /\ a.overdue /\ ~ isDone(a)
         \/ key = "need" /\ ~ isDone(a) /\ ~ a.overdue /\ courseActive(a)
  BY <1>1 DEF matchesKulonFilter
<1> QED
  BY <1>1, <1>2, <1>3 DEF a

LEMMA ListsAreKept ==
    ASSUME WorkInv, NEW key \in {"need", "late", "done"}
    PROVE  LET rest == {i \in DOMAIN assignments.list :
                          /\ assignments.list[i].id \notin hidden
                          /\ matchesKulonFilter(key, assignments.list[i])}
           IN  Len(KulonList(key)) = Cardinality(rest)
<1> DEFINE rest == {i \in DOMAIN assignments.list :
                       /\ assignments.list[i].id \notin hidden
                       /\ matchesKulonFilter(key, assignments.list[i])}
           Item(i) == assignments.list[i]
           Far == LastHour + 100
           Due(i) == IF Item(i).duedate = 0 THEN Far ELSE Item(i).duedate
           Rank(i) == IF courseActive(Item(i)) THEN 0 ELSE 1
           Before(i, j) ==
               IF key = "need" THEN Due(i) < Due(j) \/ (Due(i) = Due(j) /\ i < j)
               ELSE \/ Rank(i) < Rank(j)
                    \/ Rank(i) = Rank(j) /\ Item(i).duedate > Item(j).duedate
                    \/ Rank(i) = Rank(j) /\ Item(i).duedate = Item(j).duedate /\ i < j
           R == {p \in rest \X rest : Before(p[1], p[2])}
           order == CHOOSE f \in [1..Cardinality(rest) -> rest] :
                       \A k, l \in DOMAIN f : k < l => Before(f[k], f[l])
<1>1. KulonList(key) = [k \in DOMAIN order |-> Item(order[k])]
  BY DEF KulonList
<1>2. IsFiniteSet(rest) /\ \A i \in rest : i \in Nat /\ i \in DOMAIN assignments.list
  <2>1. PICK n \in Nat : DOMAIN assignments.list = 1..n
    BY DEF WorkInv
  <2>2. rest \in SUBSET (1..n) /\ IsFiniteSet(1..n)
    BY <2>1, FS_Interval
  <2> QED
    BY <2>1, <2>2, FS_Subset
<1>3. \A i \in rest : Due(i) \in Int /\ Rank(i) \in Int /\ Item(i).duedate \in Int
  <2> TAKE i \in rest
  <2>1. PICK due \in Nat \cup {Lapsed} : due = work[Item(i).id].due
    BY <1>2, CourseworkAssumption DEF WorkInv, Listed
  <2>2. Item(i).duedate \in Int
    BY <1>2, <2>1 DEF WorkInv, Listed, Lapsed
  <2> QED
    BY <2>2, CourseworkAssumption
<1> HIDE DEF rest, Due, Rank, Item
<1>4. \A x, y \in rest : <<x, y>> \in R <=> Before(x, y)
  OBVIOUS
<1>5. \A x \in rest : ~ Before(x, x)
  BY <1>2, <1>3
<1>6. \A x, y, z \in rest : Before(x, y) /\ Before(y, z) => Before(x, z)
  <2>1. CASE key = "need"
    BY <1>2, <1>3, <2>1
  <2>2. CASE key # "need"
    BY <1>2, <1>3, <2>2
  <2> QED
    BY <2>1, <2>2
<1>7. \A x, y \in rest : x # y => Before(x, y) \/ Before(y, x)
  BY <1>2, <1>3
<1> HIDE DEF Before
<1>8. \E f \in [1..Cardinality(rest) -> rest] :
         \A k, l \in 1..Cardinality(rest) : k < l => <<f[k], f[l]>> \in R
  <2> HIDE DEF R
  <2> QED
    BY <1>2, <1>4, <1>5, <1>6, <1>7, OrderIsThere
<1>9. order \in [1..Cardinality(rest) -> rest]
  <2>1. \E f \in [1..Cardinality(rest) -> rest] :
           \A k, l \in DOMAIN f : k < l => Before(f[k], f[l])
    BY <1>4, <1>8
  <2> QED
    BY <2>1
<1> HIDE DEF order
<1>10. Cardinality(rest) \in Nat
  BY <1>2, FS_CardinalityType
<1>11. Len(KulonList(key)) = Cardinality(rest)
  BY <1>1, <1>9, <1>10
<1> QED
  BY <1>11 DEF rest

LEMMA CountsHold == WorkInv => CountsAreFilters
<1> SUFFICES ASSUME WorkInv, NEW key \in {"need", "late", "done"}
             PROVE  LET unseen == {i \in DOMAIN assignments.list :
                                     /\ assignments.list[i].id \in hidden
                                     /\ matchesKulonFilter(key, assignments.list[i])}
                    IN  taskStats(assignments.list)[key]
                           = Len(KulonList(key)) + Cardinality(unseen)
  BY DEF CountsAreFilters
<1> DEFINE rest == {i \in DOMAIN assignments.list :
                       /\ assignments.list[i].id \notin hidden
                       /\ matchesKulonFilter(key, assignments.list[i])}
           unseen == {i \in DOMAIN assignments.list :
                         /\ assignments.list[i].id \in hidden
                         /\ matchesKulonFilter(key, assignments.list[i])}
           counted == {i \in DOMAIN assignments.list : TaskOf(assignments.list[i]) = key}
<1>1. taskStats(assignments.list)[key] = Cardinality(counted)
  BY DEF taskStats
<1>2. counted = rest \cup unseen /\ rest \cap unseen = {}
  BY FiltersAreCounts
<1>3. IsFiniteSet(rest) /\ IsFiniteSet(unseen)
  <2>1. PICK n \in Nat : DOMAIN assignments.list = 1..n
    BY DEF WorkInv
  <2>2. rest \in SUBSET (1..n) /\ unseen \in SUBSET (1..n) /\ IsFiniteSet(1..n)
    BY <2>1, FS_Interval
  <2> HIDE DEF rest, unseen
  <2> QED
    BY <2>2, FS_Subset
<1>4. Len(KulonList(key)) = Cardinality(rest)
  BY ListsAreKept
<1> HIDE DEF rest, unseen, counted
<1>5. Cardinality(rest \cap unseen) = 0
  BY <1>2, FS_EmptySet
<1>6. Cardinality(counted) = Cardinality(rest) + Cardinality(unseen)
  <2>1. Cardinality(rest \cup unseen)
           = Cardinality(rest) + Cardinality(unseen) - Cardinality(rest \cap unseen)
    BY <1>3, FS_Union
  <2>2. Cardinality(rest) \in Nat /\ Cardinality(unseen) \in Nat
    BY <1>3, FS_CardinalityType
  <2> QED
    BY <1>2, <1>5, <2>1, <2>2
<1> QED
  BY <1>1, <1>4, <1>6 DEF unseen

-----------------------------------------------------------------------------
(* A student's records.                                                      *)

RecordsInv ==
    /\ month \in Nat /\ month <= LastMonth
    /\ meetings \in [Watched -> [planned : Nat, held : Nat, attended : Nat]]
    /\ schedules \in [Watched -> Nat]
    /\ \A k \in Watched : /\ meetings[k].attended <= meetings[k].held
                          /\ meetings[k].held <= meetings[k].planned
                          /\ schedules[k] <= meetings[k].planned

LEMMA RecordsInitially == RecordsInit => RecordsInv
BY RecordsAssumption DEF RecordsInit, RecordsInv

LEMMA MeetingsCount ==
    ASSUME RecordsInv, NEW k \in Watched, ClassPlanned(k) \/ ClassHeld(k)
    PROVE  RecordsInv'
<1>1. PICK m : m = meetings[k]
  OBVIOUS
<1>2. m \in [planned : Nat, held : Nat, attended : Nat]
      /\ m.attended <= m.held /\ m.held <= m.planned /\ schedules[k] <= m.planned
  BY <1>1 DEF RecordsInv
<1>3. \E p \in [planned : Nat, held : Nat, attended : Nat] :
         /\ meetings' = [meetings EXCEPT ![k] = p]
         /\ p.attended <= p.held /\ p.held <= p.planned /\ m.planned <= p.planned
  <2>1. CASE ClassPlanned(k)
    <3>1. PICK p : p = [m EXCEPT !.planned = @ + 1]
      OBVIOUS
    <3>2. p \in [planned : Nat, held : Nat, attended : Nat]
          /\ p.attended = m.attended /\ p.held = m.held /\ p.planned = m.planned + 1
      BY <1>2, <3>1
    <3>3. meetings' = [meetings EXCEPT ![k] = p]
      BY <1>1, <2>1, <3>1 DEF ClassPlanned
    <3>4. p.attended <= p.held /\ p.held <= p.planned /\ m.planned <= p.planned
      BY <1>2, <3>2
    <3> QED
      BY <3>2, <3>3, <3>4
  <2>2. CASE ClassHeld(k)
    <3>1. PICK hadir \in {0, 1} :
             /\ m.held < m.planned
             /\ meetings' = [meetings EXCEPT ![k].held = @ + 1, ![k].attended = @ + hadir]
      BY <1>1, <2>2 DEF ClassHeld
    <3>2. PICK p : p = [m EXCEPT !.held = @ + 1, !.attended = @ + hadir]
      OBVIOUS
    <3>3. p.attended = m.attended + hadir /\ p.held = m.held + 1 /\ p.planned = m.planned
      BY <1>2, <3>2
    <3>4. m.planned \in Nat /\ m.held + 1 \in Nat /\ m.attended + hadir \in Nat
      BY <1>2, <3>1
    <3>5. p \in [planned : Nat, held : Nat, attended : Nat]
      BY <1>2, <3>2, <3>4
    <3>6. meetings' = [meetings EXCEPT ![k] = p]
      BY <1>1, <3>1, <3>2 DEF RecordsInv
    <3>7. p.attended <= p.held /\ p.held <= p.planned /\ m.planned <= p.planned
      BY <1>2, <3>1, <3>3, <3>4
    <3> QED
      BY <3>6, <3>5, <3>7
  <2> QED
    BY <2>1, <2>2
<1>4. UNCHANGED <<month, schedules>>
  BY DEF ClassPlanned, ClassHeld
<1> QED
  BY <1>1, <1>2, <1>3, <1>4 DEF RecordsInv

LEMMA RecordsKeep ==
    ASSUME RecordsInv, [RecordsNext]_recordVars
    PROVE  RecordsInv'
<1>1. CASE UNCHANGED recordVars
  BY <1>1 DEF RecordsInv, recordVars
<1>2. CASE getJadwal
  BY <1>2 DEF RecordsInv, getJadwal
<1>3. CASE MonthPasses
  <2>1. month' \in Nat /\ month' <= LastMonth
    BY <1>3, RecordsAssumption DEF MonthPasses, RecordsInv
  <2>2. CASE month' % 6 = 0
    BY <1>3, <2>1, <2>2 DEF RecordsInv, MonthPasses
  <2>3. CASE month' % 6 # 0
    BY <1>3, <2>1, <2>3 DEF RecordsInv, MonthPasses
  <2> QED
    BY <2>2, <2>3
<1>4. ASSUME NEW k \in Kodes, Progresses(k)
      PROVE  RecordsInv'
  BY <1>4 DEF RecordsInv, Progresses
<1>5. ASSUME NEW k \in Watched, ClassPlanned(k) \/ ClassHeld(k)
      PROVE  RecordsInv'
  BY <1>5, MeetingsCount
<1> QED
  BY <1>1, <1>2, <1>3, <1>4, <1>5 DEF RecordsNext

\* However the semester is told, the one under way is asked for.
LEMMA EverySemesterIsAsked ==
    ASSUME RecordsInv, NEW labelled \in BOOLEAN
    PROVE  currentSemesterCount(labelled) \in Nat /\ Current <= currentSemesterCount(labelled)
<1>1. month \in Nat
  BY DEF RecordsInv
<1>2. LabelCount \in Nat /\ Current <= LabelCount
  BY <1>1 DEF LabelCount, Current
<1>3. CalendarCount \in Nat /\ Current <= CalendarCount
  BY <1>1 DEF CalendarCount, Years, MonthOfYear, Current
<1>4. \A c \in Nat : Max({1, c}) \in {1, c} /\ c <= Max({1, c})
  <2> TAKE c \in Nat
  <2>1. \E x \in {1, c} : \A y \in {1, c} : x >= y
    OBVIOUS
  <2> QED
    BY <2>1 DEF Max
<1>5. Current \in Nat
  BY <1>1 DEF Current
<1> QED
  BY <1>2, <1>3, <1>4, <1>5 DEF currentSemesterCount

LEMMA LecturersHold == RecordsInv => EveryLecturerIsKnown
<1> SUFFICES ASSUME RecordsInv, NEW labelled \in BOOLEAN, NEW smt \in 1..Current,
                    NEW k \in Approved(smt)
             PROVE  k \in DOMAIN fetchLecturers(labelled) /\ fetchLecturers(labelled)[k] <= smt
  BY DEF EveryLecturerIsKnown
<1> DEFINE asked1 == 1..currentSemesterCount(labelled)
           terms == {s \in asked1 : k \in parseIrsTable(s)}
<1>1. Current \in Nat /\ smt \in asked1
  BY EverySemesterIsAsked DEF RecordsInv, Current
<1>2. smt \in Semesters
  BY RecordsAssumption DEF RecordsInv, Current, Semesters
<1>3. k \in parseIrsTable(smt)
  BY <1>2 DEF parseIrsTable
<1>4. terms \in SUBSET Nat /\ smt \in terms
  BY <1>1, <1>3, EverySemesterIsAsked
<1>5. Min(terms) <= smt
  <2> HIDE DEF terms
  <2> QED
    BY <1>4, MinIsThere
<1>6. k \in DOMAIN fetchLecturers(labelled) /\ fetchLecturers(labelled)[k] = Min(terms)
  BY <1>1, <1>3 DEF fetchLecturers
<1> QED
  BY <1>5, <1>6

\* The row that is made of one row, when the ids are those of a semester's page.
LEMMA RowIsMerged ==
    ASSUME NEW page \in Nat, NEW leads \in BOOLEAN,
           NEW rows, NEW i \in DOMAIN rows, NEW r, r = rows[i],
           r.detailId = NoId, DOMAIN r = {"id", "kode", "sks", "grade", "detailId"},
           r = [x \in DOMAIN r |-> r[x]],
           NEW row, row = mergeKhsDetailIds(rows, parseKhsDetailIds(page), leads)[i]
    PROVE  /\ row.id = r.id /\ row.kode = r.kode /\ row.sks = r.sks /\ row.grade = r.grade
           /\ row.detailId # NoId => row.detailId = IdIrs(page, r.kode)
           /\ leads /\ r.id # NoId => row.detailId \in {NoId, r.id}
           /\ /\ [kode |-> r.kode, detailId |-> IdIrs(page, r.kode)] \in parseKhsDetailIds(page)
              /\ r.id \in {NoId, IdIrs(page, r.kode)}
              => row.detailId = IdIrs(page, r.kode)
<1> DEFINE ids == parseKhsDetailIds(page)
           fitting == {d \in OfCourse(ids, r) : ~ leads \/ r.id \in {NoId, d.detailId}}
<1>1. row = IF fitting # {} THEN [r EXCEPT !.detailId = (CHOOSE d \in fitting : TRUE).detailId] ELSE r
  BY DEF mergeKhsDetailIds
<1>2. \A d \in fitting : /\ d.detailId = IdIrs(page, r.kode)
                         /\ leads => r.id \in {NoId, d.detailId}
  BY DEF OfCourse, parseKhsDetailIds
<1>3. /\ [kode |-> r.kode, detailId |-> IdIrs(page, r.kode)] \in ids
      /\ r.id \in {NoId, IdIrs(page, r.kode)}
      => fitting # {}
  BY DEF OfCourse
<1> HIDE DEF fitting, ids
<1>4. CASE fitting = {}
  BY <1>1, <1>3, <1>4 DEF ids
<1>5. CASE fitting # {}
  <2>1. PICK d \in fitting : row = [r EXCEPT !.detailId = d.detailId]
    BY <1>1, <1>5
  <2>2. /\ row.id = r.id /\ row.kode = r.kode /\ row.sks = r.sks /\ row.grade = r.grade
        /\ row.detailId = d.detailId
    BY <2>1
  <2> QED
    BY <1>2, <2>2
<1> QED
  BY <1>4, <1>5

LEMMA DetailsHold == RecordsInv => DetailIsOfTheRow
<1> SUFFICES ASSUME RecordsInv, NEW smt \in 1..Current, NEW page \in 0..Current,
                    NEW identified \in BOOLEAN, NEW leads \in BOOLEAN,
                    NEW row \in Range(Nilai(smt, page, identified, leads))
             PROVE  /\ row.detailId # NoId => row.detailId = IdIrs(page, row.kode)
                    /\ leads /\ identified => row.detailId \in {NoId, IdIrs(smt, row.kode)}
                    /\ row.grade # "none" /\ page = smt => row.detailId = IdIrs(smt, row.kode)
  BY DEF DetailIsOfTheRow
<1> DEFINE order == SetToSeq(Taken(smt))
           rows == parseApiKhs(smt, identified)
           ids == parseKhsDetailIds(page)
<1>0. page \in Nat /\ smt \in Nat
  OBVIOUS
<1>1. order \in [1..Cardinality(Taken(smt)) -> Taken(smt)]
  <2>1. IsFiniteSet(Taken(smt))
    <3>1. Taken(smt) \in SUBSET Kodes
      BY DEF Taken
    <3> QED
      BY <3>1, FS_Subset, RecordsAssumption
  <2> QED
    BY <2>1, SetAsSeq
<1> HIDE DEF order
<1>2. PICK i \in DOMAIN rows : row = mergeKhsDetailIds(rows, ids, leads)[i]
  BY DEF Range, Nilai, mergeKhsDetailIds
<1>3. DOMAIN rows = DOMAIN order
      /\ rows[i] = [id |-> IF identified THEN IdIrs(smt, order[i]) ELSE NoId,
                    kode |-> order[i], sks |-> order[i],
                    grade |-> GradeOf(order[i], smt), detailId |-> NoId]
  BY <1>2 DEF parseApiKhs, order
<1>4. PICK kode \in Taken(smt) : kode = order[i]
  BY <1>1, <1>2, <1>3
<1> HIDE DEF rows, ids
<1>5. PICK r : r = rows[i]
  OBVIOUS
<1>6. /\ r.id = (IF identified THEN IdIrs(smt, kode) ELSE NoId) /\ r.kode = kode
      /\ r.detailId = NoId /\ r.grade = GradeOf(kode, smt)
      /\ DOMAIN r = {"id", "kode", "sks", "grade", "detailId"}
      /\ r = [x \in DOMAIN r |-> r[x]]
  BY <1>3, <1>4, <1>5
<1>7. /\ row.id = r.id /\ row.kode = r.kode /\ row.grade = r.grade
      /\ row.detailId # NoId => row.detailId = IdIrs(page, kode)
      /\ leads /\ r.id # NoId => row.detailId \in {NoId, r.id}
      /\ /\ [kode |-> kode, detailId |-> IdIrs(page, kode)] \in ids
         /\ r.id \in {NoId, IdIrs(page, kode)}
         => row.detailId = IdIrs(page, kode)
  BY <1>0, <1>2, <1>5, <1>6, RowIsMerged DEF ids
<1>8. leads /\ identified => row.detailId \in {NoId, IdIrs(smt, kode)}
  <2>1. kode \in Nat \ {0}
    BY RecordsAssumption DEF Taken
  <2>2. IdIrs(smt, kode) # NoId
    BY <1>0, <2>1 DEF IdIrs, NoId
  <2> QED
    BY <1>6, <1>7, <2>2
<1>9. ASSUME row.grade # "none", page = smt
      PROVE  row.detailId = IdIrs(smt, kode)
  <2>1. records[smt][kode] \in Grades /\ page # 0
    BY <1>6, <1>7, <1>9 DEF GradeOf
  <2>2. ids = {[kode |-> k, detailId |-> IdIrs(page, k)] :
                  k \in {j \in Taken(page) : records[page][j] \in Grades}}
    BY <2>1 DEF parseKhsDetailIds, ids
  <2>3. [kode |-> kode, detailId |-> IdIrs(page, kode)] \in ids
    BY <1>4, <1>9, <2>1, <2>2
  <2>4. r.id \in {NoId, IdIrs(page, kode)}
    BY <1>6, <1>9
  <2> QED
    BY <1>7, <1>9, <2>3, <2>4
<1> QED
  BY <1>6, <1>7, <1>8, <1>9

LEMMA SharesAreParts ==
    ASSUME NEW hadir \in Nat, NEW total \in Nat \ {0}, hadir <= total
    PROVE  (200 * hadir + total) \div (2 * total) <= 100
<1>1. PICK n \in Nat, d \in Nat \ {0} : n = 200 * hadir + total /\ d = 2 * total
  OBVIOUS
<1>2. n < 101 * d
  BY <1>1
<1>3. n \div d \in Nat /\ d * (n \div d) <= n
  OBVIOUS
<1>4. PICK q \in Nat : q = n \div d
  BY <1>3
<1>5. q <= 100
  <2> SUFFICES ASSUME q > 100 PROVE FALSE
    OBVIOUS
  <2>1. PICK e \in Nat : q = 101 + e
    <3>1. q - 101 \in Nat /\ q = 101 + (q - 101)
      OBVIOUS
    <3> QED
      BY <3>1
  <2>2. d * q = 101 * d + d * e /\ d * e >= 0
    BY <2>1
  <2> QED
    BY <1>2, <1>3, <1>4, <2>2
<1> QED
  BY <1>1, <1>4, <1>5

LEMMA AttendanceHolds == RecordsInv => AttendanceFits
<1> SUFFICES ASSUME RecordsInv, NEW k \in Watched, meetings[k].held > 0,
                    NEW schedule \in {0, schedules[k]},
                    ~ (schedules[k] < meetings[k].planned)
             PROVE  /\ fetchAbsen(k, schedule).hadir <= fetchAbsen(k, schedule).total
                    /\ fetchAbsen(k, schedule).hadirPct <= 100
  BY DEF AttendanceFits
<1>1. PICK hadir \in Nat, held \in Nat, planned \in Nat, cached \in Nat :
         /\ hadir = meetings[k].attended /\ held = meetings[k].held
         /\ planned = meetings[k].planned /\ cached = schedules[k]
  BY DEF RecordsInv
<1>2. hadir <= held /\ held <= planned /\ cached = planned /\ held > 0
  BY <1>1 DEF RecordsInv
<1>3. PICK total \in Nat \ {0} : total = IF schedule > 0 THEN schedule ELSE held
  BY <1>1, <1>2
<1>4. hadir <= total
  BY <1>1, <1>2, <1>3
<1>5. fetchAbsen(k, schedule)
        = [hadir |-> hadir, total |-> total, hadirPct |-> (200 * hadir + total) \div (2 * total)]
  BY <1>1, <1>3 DEF fetchAbsen, parseApiAbsen
<1> QED
  BY <1>4, <1>5, SharesAreParts

\* The sums, one after the moved.
Adds(sum, n, numbers) ==
    /\ sum \in [0..n -> Nat]
    /\ sum[0] = 0
    /\ \A k \in 1..n : sum[k] = sum[k - 1] + numbers[k]

LEMMA SumsAreThere ==
    ASSUME NEW n \in Nat, NEW numbers \in [1..n -> Nat]
    PROVE  \E sum : Adds(sum, n, numbers)
<1> DEFINE missing == {m \in 0..n : ~ \E sum : Adds(sum, m, numbers)}
<1> SUFFICES ASSUME ~ \E sum : Adds(sum, n, numbers) PROVE FALSE
  OBVIOUS
<1>1. missing \in SUBSET Nat /\ n \in missing
  OBVIOUS
<1>2. PICK m \in missing : \A y \in missing : m <= y
  <2> HIDE DEF missing
  <2> QED
    BY <1>1, MinIsThere
<1>3. CASE m = 0
  <2>1. Adds([k \in 0..0 |-> 0], 0, numbers)
    BY DEF Adds
  <2> QED
    BY <1>3, <2>1
<1>4. CASE m # 0
  <2>1. m - 1 \in 0..n /\ m - 1 \notin missing /\ m \in 1..n
    BY <1>2, <1>4
  <2>2. PICK sum : Adds(sum, m - 1, numbers)
    BY <2>1
  <2> PICK more : more = [k \in 0..m |-> IF k = m THEN sum[m - 1] + numbers[m] ELSE sum[k]]
    OBVIOUS
  <2>3. \A k \in 0..(m - 1) : sum[k] \in Nat /\ more[k] = sum[k]
    BY <2>1, <2>2 DEF Adds
  <2>4. more[m] = sum[m - 1] + numbers[m] /\ more[m] \in Nat
    <3>1. m \in 0..m /\ m - 1 \in 0..(m - 1) /\ numbers[m] \in Nat
      BY <2>1
    <3>2. more[m] = sum[m - 1] + numbers[m]
      BY <3>1
    <3> PICK p : p = m - 1
      OBVIOUS
    <3>3. sum[p] \in Nat
      BY <2>3, <3>1
    <3> PICK a, b : a = sum[p] /\ b = numbers[m]
      OBVIOUS
    <3>4. a \in Nat /\ b \in Nat /\ more[m] = a + b
      BY <3>1, <3>2, <3>3
    <3> QED
      BY <3>2, <3>4
  <2>5. more \in [0..m -> Nat]
    <3>1. \A k \in 0..m : more[k] \in Nat
      <4> TAKE k \in 0..m
      <4>1. k = m \/ k \in 0..(m - 1)
        BY <2>1
      <4>2. ASSUME k \in 0..(m - 1) PROVE more[k] \in Nat
        <5>1. sum[k] \in Nat /\ more[k] = sum[k]
          BY <2>3, <4>2
        <5> QED
          BY <5>1
      <4> QED
        BY <2>4, <4>1, <4>2
    <3>2. more = [k \in 0..m |-> more[k]]
      OBVIOUS
    <3> QED
      BY <3>1, <3>2
  <2>6. more[0] = 0
    BY <2>1, <2>2, <2>3 DEF Adds
  <2>7. ASSUME NEW k \in 1..m PROVE more[k] = more[k - 1] + numbers[k]
    <3>1. CASE k = m
      <4>1. m - 1 \in 0..(m - 1)
        BY <2>1
      <4> QED
        BY <2>3, <2>4, <3>1, <4>1
    <3>2. CASE k # m
      <4>1. k \in 1..(m - 1) /\ k \in 0..(m - 1) /\ k - 1 \in 0..(m - 1)
        BY <2>1, <3>2
      <4>2. sum[k] = sum[k - 1] + numbers[k]
        BY <2>2, <4>1 DEF Adds
      <4> QED
        BY <2>3, <4>1, <4>2
    <3> QED
      BY <3>1, <3>2
  <2>8. Adds(more, m, numbers)
    BY <2>5, <2>6, <2>7 DEF Adds
  <2> QED
    BY <2>8
<1> QED
  BY <1>3, <1>4

LEMMA SumsAdd ==
    ASSUME NEW n \in Nat, NEW numbers \in [1..n -> Nat]
    PROVE  Adds(Sums(numbers), n, numbers)
<1> DEFINE Body(f) == [k \in 0..n |-> IF k = 0 THEN 0 ELSE f[k - 1] + numbers[k]]
<1>1. Len(numbers) = n
  OBVIOUS
<1>2. Sums(numbers) = CHOOSE f : f = Body(f)
  BY <1>1 DEF Sums
<1>3. PICK sum : Adds(sum, n, numbers)
  BY SumsAreThere
<1>4. sum = Body(sum)
  <2>1. \A k \in 0..n : sum[k] = Body(sum)[k]
    <3> TAKE k \in 0..n
    <3>1. k = 0 \/ k \in 1..n
      OBVIOUS
    <3> QED
      BY <1>3, <3>1 DEF Adds
  <2>2. sum \in [0..n -> Nat]
    BY <1>3 DEF Adds
  <2> QED
    BY <2>1, <2>2
<1>5. Sums(numbers) = Body(Sums(numbers))
  <2> HIDE DEF Body
  <2> QED
    BY <1>2, <1>4
<1> PICK f : f = Sums(numbers)
  OBVIOUS
<1>6. f = [k \in 0..n |-> IF k = 0 THEN 0 ELSE f[k - 1] + numbers[k]]
  BY <1>5
<1>7. f[0] = 0 /\ \A k \in 1..n : f[k] = f[k - 1] + numbers[k]
  <2>1. \A k \in 0..n : f[k] = IF k = 0 THEN 0 ELSE f[k - 1] + numbers[k]
    BY <1>6
  <2> QED
    BY <2>1
<1> DEFINE odd == {k \in 0..n : f[k] \notin Nat}
<1>8. odd = {}
  <2> SUFFICES ASSUME odd # {} PROVE FALSE
    OBVIOUS
  <2>1. odd \in SUBSET Nat
    OBVIOUS
  <2>2. PICK k \in odd : \A y \in odd : k <= y
    <3> HIDE DEF odd
    <3> QED
      BY <2>1, MinIsThere
  <2>3. k # 0
    BY <1>7, <2>2
  <2>4. k \in 1..n /\ k - 1 \in 0..n /\ k - 1 \notin odd
    BY <2>2, <2>3
  <2>5. f[k - 1] \in Nat /\ numbers[k] \in Nat
    BY <2>4
  <2> QED
    BY <1>7, <2>2, <2>4, <2>5
<1>9. f \in [0..n -> Nat]
  <2>1. \A k \in 0..n : f[k] \in Nat
    BY <1>8
  <2>2. f = [k \in 0..n |-> f[k]]
    BY <1>6
  <2> QED
    BY <2>1, <2>2
<1> QED
  BY <1>7, <1>9 DEF Adds

\* The sums do not fall, and stay where there is nothing to add.
LEMMA SumsGrow ==
    ASSUME NEW n \in Nat, NEW numbers \in [1..n -> Nat], NEW sum, Adds(sum, n, numbers)
    PROVE  /\ \A i \in 1..n : numbers[i] <= sum[n]
           /\ \A last \in 0..n : (\A k \in (last + 1)..n : numbers[k] = 0) => sum[last] = sum[n]
<1>1. ASSUME NEW i \in 1..n PROVE numbers[i] <= sum[n]
  <2> DEFINE less == {m \in i..n : sum[m] < numbers[i]}
  <2> SUFFICES ASSUME ~ (numbers[i] <= sum[n]) PROVE FALSE
    OBVIOUS
  <2>1. n \in less
    BY DEF Adds
  <2>2. less \in SUBSET Nat
    OBVIOUS
  <2>3. PICK m \in less : \A y \in less : m <= y
    <3> HIDE DEF less
    <3> QED
      BY <2>2, <2>1, MinIsThere
  <2>4. m \in 1..n /\ m - 1 \in 0..n /\ sum[m] = sum[m - 1] + numbers[m]
        /\ sum[m - 1] \in Nat /\ numbers[m] \in Nat /\ sum[m] \in Nat
    BY <2>3 DEF Adds
  <2>5. m # i
    BY <2>3, <2>4
  <2>6. m - 1 \in i..n /\ m - 1 \notin less
    BY <2>3, <2>4, <2>5
  <2>7. sum[m - 1] >= numbers[i]
    BY <2>4, <2>6
  <2> QED
    BY <2>3, <2>4, <2>7
<1>2. ASSUME NEW last \in 0..n, \A k \in (last + 1)..n : numbers[k] = 0
      PROVE  sum[last] = sum[n]
  <2> DEFINE moved == {m \in last..n : sum[m] # sum[last]}
  <2> SUFFICES ASSUME moved # {} PROVE FALSE
    OBVIOUS
  <2>1. moved \in SUBSET Nat
    OBVIOUS
  <2>2. PICK m \in moved : \A y \in moved : m <= y
    <3> HIDE DEF moved
    <3> QED
      BY <2>1, MinIsThere
  <2>3. m # last
    BY <2>2
  <2>4. m \in 1..n /\ m \in (last + 1)..n /\ m - 1 \in last..n /\ m - 1 \notin moved
    BY <2>2, <2>3
  <2>5. sum[m] = sum[m - 1] + numbers[m] /\ sum[m - 1] \in Nat /\ numbers[m] = 0
    BY <1>2, <2>4 DEF Adds
  <2> QED
    BY <2>2, <2>4, <2>5
<1> QED
  BY <1>1, <1>2

\* A grade is given when its semester is over.
GradesArePast ==
    /\ records \in [Semesters -> [Kodes -> {"absent", "plan", "approved"} \cup Grades]]
    /\ \A smt \in Semesters : \A k \in Kodes : records[smt][k] \in Grades => smt < Current

LEMMA GradesInitially == RecordsInit => GradesArePast
BY DEF RecordsInit, GradesArePast, Grades

LEMMA TermsGoOn ==
    ASSUME RecordsInv
    PROVE  /\ Current \in Nat \ {0} /\ Current \in Semesters
           /\ month' = month + 1 => Current' \in Nat /\ Current <= Current'
BY RecordsAssumption DEF RecordsInv, Current, Semesters

LEMMA GradesKeep ==
    ASSUME RecordsInv, GradesArePast, [RecordsNext]_recordVars
    PROVE  GradesArePast'
<1>1. CASE UNCHANGED <<month, records>>
  BY <1>1 DEF GradesArePast, Current
<1>2. CASE MonthPasses
  <2>1. records' = records /\ Current' \in Nat /\ Current <= Current' /\ Current \in Nat
    BY <1>2, TermsGoOn DEF MonthPasses
  <2>2. \A smt \in Semesters : smt \in Int
    BY DEF Semesters
  <2> QED
    BY <2>1, <2>2 DEF GradesArePast
<1>3. ASSUME NEW k \in Kodes, Progresses(k)
      PROVE  GradesArePast'
  <2>1. month' = month /\ Current' = Current
    BY <1>3 DEF Progresses, Current
  <2>2. PICK smt, next : /\ records' = [records EXCEPT ![smt][k] = next]
                         /\ \/ next \in {"plan", "approved"}
                            \/ next \in Grades /\ smt \in 1..(Current - 1)
    BY <1>3 DEF Progresses
  <2>3. records' \in [Semesters -> [Kodes -> {"absent", "plan", "approved"} \cup Grades]]
    BY <2>2 DEF GradesArePast
  <2>4. ASSUME NEW s \in Semesters, NEW j \in Kodes, records'[s][j] \in Grades
        PROVE  s < Current
    <3>1. CASE records[s][j] \in Grades
      BY <3>1 DEF GradesArePast
    <3>2. CASE records[s][j] \notin Grades
      <4>1. s = smt /\ next \in Grades
        BY <2>2, <2>4, <3>2 DEF GradesArePast, Grades
      <4> QED
        BY <2>2, <4>1, TermsGoOn DEF Grades
    <3> QED
      BY <3>1, <3>2
  <2> QED
    BY <2>1, <2>3, <2>4 DEF GradesArePast
<1>4. getJadwal \/ (\E k \in Watched : ClassPlanned(k) \/ ClassHeld(k)) \/ UNCHANGED recordVars
        => UNCHANGED <<month, records>>
  BY DEF getJadwal, ClassPlanned, ClassHeld, recordVars
<1> QED
  BY <1>1, <1>2, <1>3, <1>4 DEF RecordsNext

\* The rows of a semester: one of each course, with its credits.
LEMMA SemesterRows ==
    ASSUME RecordsInv, NEW smt \in 1..Current, NEW khs, khs = Khs(smt, smt)
    PROVE  \E n \in Nat : \E order \in [1..n -> Taken(smt)] :
              /\ \A k \in Taken(smt) : \E i \in 1..n : order[i] = k
              /\ DOMAIN khs.nilai = 1..n /\ Len(khs.nilai) = n
              /\ \A i \in 1..n : /\ khs.nilai[i].sks = order[i]
                                 /\ khs.nilai[i].grade = GradeOf(order[i], smt)
              /\ khs.totalSks = Credits(khs.nilai) /\ khs.totalSks \in Nat
              /\ \A i \in 1..n : order[i] <= khs.totalSks
<1> DEFINE order == SetToSeq(Taken(smt))
           n == Cardinality(Taken(smt))
           rows == parseApiKhs(smt, TRUE)
           ids == parseKhsDetailIds(smt)
           nilai == mergeKhsDetailIds(rows, ids, TRUE)
<1>1. IsFiniteSet(Taken(smt)) /\ Taken(smt) \in SUBSET Kodes /\ n \in Nat
  <2>1. Taken(smt) \in SUBSET Kodes
    BY DEF Taken
  <2> QED
    BY <2>1, FS_Subset, FS_CardinalityType, RecordsAssumption
<1>2. order \in [1..n -> Taken(smt)] /\ \A k \in Taken(smt) : \E i \in 1..n : order[i] = k
  BY <1>1, SetAsSeq
<1>3. rows = [i \in DOMAIN order |->
                [id |-> IF TRUE THEN IdIrs(smt, order[i]) ELSE NoId,
                 kode |-> order[i], sks |-> order[i],
                 grade |-> GradeOf(order[i], smt), detailId |-> NoId]]
  BY DEF parseApiKhs
<1> HIDE DEF order
<1>4. DOMAIN rows = 1..n /\ \A i \in 1..n : rows[i] =
                [id |-> IdIrs(smt, order[i]), kode |-> order[i], sks |-> order[i],
                 grade |-> GradeOf(order[i], smt), detailId |-> NoId]
  BY <1>2, <1>3
<1> HIDE DEF rows
<1>5. DOMAIN nilai = 1..n /\ nilai = [i \in 1..n |-> nilai[i]]
  BY <1>4 DEF mergeKhsDetailIds
<1>6. ASSUME NEW i \in 1..n
      PROVE  nilai[i].sks = order[i] /\ nilai[i].grade = GradeOf(order[i], smt)
  <2> PICK r, row : r = rows[i] /\ row = nilai[i]
    OBVIOUS
  <2>1. /\ r.sks = order[i] /\ r.grade = GradeOf(order[i], smt) /\ r.detailId = NoId
        /\ DOMAIN r = {"id", "kode", "sks", "grade", "detailId"}
        /\ r = [x \in DOMAIN r |-> r[x]]
    BY <1>4
  <2>2. i \in DOMAIN rows /\ smt \in Nat
    BY <1>4
  <2>0. PICK leads \in BOOLEAN : leads = TRUE
    OBVIOUS
  <2>3. row = mergeKhsDetailIds(rows, parseKhsDetailIds(smt), leads)[i]
    BY <2>0
  <2> HIDE DEF nilai, ids
  <2> PICK k : k = order[i]
    OBVIOUS
  <2>4. r.kode = k /\ r.id = IdIrs(smt, k)
    BY <1>4
  <2>5. /\ row.id = r.id /\ row.kode = r.kode /\ row.sks = r.sks /\ row.grade = r.grade
        /\ row.detailId # NoId => row.detailId = IdIrs(smt, k)
        /\ leads /\ r.id # NoId => row.detailId \in {NoId, r.id}
        /\ /\ [kode |-> k, detailId |-> IdIrs(smt, k)] \in parseKhsDetailIds(smt)
           /\ r.id \in {NoId, IdIrs(smt, k)}
           => row.detailId = IdIrs(smt, k)
    BY <2>1, <2>2, <2>3, <2>4, RowIsMerged
  <2> QED
    BY <2>1, <2>5
<1> HIDE DEF nilai
<1>7. DOMAIN nilai = 1..n /\ Len(nilai) = n
  BY <1>1, <1>5
<1> DEFINE credits == [i \in DOMAIN nilai |-> nilai[i].sks]
<1>8. credits = order
  BY <1>2, <1>6, <1>7
<1>9. credits \in [1..n -> Nat]
  BY <1>1, <1>2, <1>8, RecordsAssumption
<1>10. Adds(Sums(credits), n, credits)
  <2> HIDE DEF credits
  <2> QED
    BY <1>1, <1>9, SumsAdd
<1>11. Credits(nilai) = Sums(credits)[n]
  BY <1>7 DEF Credits
<1> HIDE DEF credits
<1>12. Credits(nilai) \in Nat /\ \A i \in 1..n : order[i] <= Credits(nilai)
  <2>1. Sums(credits)[n] \in Nat
    BY <1>1, <1>10 DEF Adds
  <2>2. \A i \in 1..n : credits[i] <= Sums(credits)[n]
    BY <1>1, <1>9, <1>10, SumsGrow
  <2> QED
    BY <1>8, <1>11, <2>1, <2>2
<1>13. khs.nilai = nilai /\ khs.totalSks = Credits(nilai)
  BY DEF Khs, Nilai, nilai, rows, ids
<1> HIDE DEF n
<1>14. /\ \A k \in Taken(smt) : \E i \in 1..n : order[i] = k
       /\ DOMAIN khs.nilai = 1..n /\ Len(khs.nilai) = n
       /\ \A i \in 1..n : /\ khs.nilai[i].sks = order[i]
                          /\ khs.nilai[i].grade = GradeOf(order[i], smt)
       /\ khs.totalSks = Credits(khs.nilai) /\ khs.totalSks \in Nat
       /\ \A i \in 1..n : order[i] <= khs.totalSks
  BY <1>2, <1>6, <1>7, <1>12, <1>13
<1> QED
  BY <1>1, <1>2, <1>14

LEMMA ChartsHold == RecordsInv /\ GradesArePast => ChartsAgree
<1> SUFFICES ASSUME RecordsInv, GradesArePast PROVE ChartsAgree
  OBVIOUS
<1> DEFINE pages == [smt \in 1..Current |-> smt]
           khs == fetchKhs(pages)
           charts == cumulativeSks(khs)
           counted == {smt \in DOMAIN khs : sksSemester(khs[smt])}
           some == [smt \in DOMAIN khs |-> IF smt \in counted THEN khs[smt].totalSks ELSE 0]
           every == [smt \in 1..Current |-> Credits(khs[smt].nilai)]
<1>1. Current \in Nat \ {0} /\ Current \in Semesters /\ 1..Current \subseteq Semesters
  <2>1. Current \in Nat \ {0} /\ Current \in Semesters
    BY TermsGoOn
  <2> QED
    BY <2>1, RecordsAssumption DEF Semesters
<1>2. khs = [smt \in 1..Current |-> Khs(smt, smt)]
  BY DEF fetchKhs
<1> HIDE DEF khs
<1>3. ASSUME NEW smt \in 1..Current
      PROVE  /\ khs[smt].totalSks \in Nat /\ khs[smt].totalSks = Credits(khs[smt].nilai)
             /\ gradedSemester(khs[smt]) => smt # Current /\ sksSemester(khs[smt])
             /\ gradedSemester(khs[smt]) <=> \E k \in Kodes : records[smt][k] \in Grades
             /\ Cardinality({i \in DOMAIN khs[smt].nilai : khs[smt].nilai[i].grade = "barred"}) > 0
                   <=> \E k \in Kodes : records[smt][k] = "barred"
  <2> PICK semester : semester = khs[smt]
    OBVIOUS
  <2>1. semester = Khs(smt, smt)
    BY <1>2
  <2>2. PICK n \in Nat : \E order \in [1..n -> Taken(smt)] :
              /\ \A k \in Taken(smt) : \E i \in 1..n : order[i] = k
              /\ DOMAIN semester.nilai = 1..n /\ Len(semester.nilai) = n
              /\ \A i \in 1..n : /\ semester.nilai[i].sks = order[i]
                                 /\ semester.nilai[i].grade = GradeOf(order[i], smt)
              /\ semester.totalSks = Credits(semester.nilai) /\ semester.totalSks \in Nat
              /\ \A i \in 1..n : order[i] <= semester.totalSks
    BY <2>1, SemesterRows
  <2>3. PICK order \in [1..n -> Taken(smt)] :
              /\ \A k \in Taken(smt) : \E i \in 1..n : order[i] = k
              /\ DOMAIN semester.nilai = 1..n
              /\ \A i \in 1..n : semester.nilai[i].grade = GradeOf(order[i], smt)
              /\ semester.totalSks = Credits(semester.nilai) /\ semester.totalSks \in Nat
              /\ \A i \in 1..n : order[i] <= semester.totalSks
    BY <2>2
  <2>4. ASSUME NEW k \in Kodes, records[smt][k] \in Grades
        PROVE  \E i \in 1..n : order[i] = k /\ semester.nilai[i].grade = records[smt][k]
    <3>1. k \in Taken(smt)
      BY <2>4 DEF Taken, Grades
    <3>2. PICK i \in 1..n : order[i] = k
      BY <2>3, <3>1
    <3> QED
      BY <2>3, <2>4, <3>2 DEF GradeOf
  <2>5. ASSUME NEW i \in 1..n, semester.nilai[i].grade # "none"
        PROVE  /\ order[i] \in Kodes /\ records[smt][order[i]] \in Grades
               /\ semester.nilai[i].grade = records[smt][order[i]]
    <3>1. order[i] \in Kodes /\ semester.nilai[i].grade = GradeOf(order[i], smt)
      BY <2>3 DEF Taken
    <3> QED
      BY <2>5, <3>1 DEF GradeOf
  <2>6. gradedSemester(semester) <=> \E k \in Kodes : records[smt][k] \in Grades
    <3>1. "none" \notin Grades
      BY DEF Grades
    <3> QED
      BY <2>3, <2>4, <2>5, <3>1 DEF gradedSemester
  <2>7. ASSUME gradedSemester(semester)
        PROVE  smt # Current /\ sksSemester(semester)
    <3>1. PICK i \in 1..n : semester.nilai[i].grade # "none"
      BY <2>3, <2>7 DEF gradedSemester
    <3>2. PICK k \in Kodes : k = order[i] /\ records[smt][k] \in Grades
      BY <2>5, <3>1
    <3>3. smt < Current
      BY <1>1, <3>2 DEF GradesArePast
    <3>4. k \in Nat \ {0} /\ k <= semester.totalSks
      BY <2>3, <3>2, RecordsAssumption
    <3> QED
      BY <1>1, <2>3, <3>3, <3>4 DEF sksSemester
  <2> DEFINE barred == {i \in DOMAIN semester.nilai : semester.nilai[i].grade = "barred"}
  <2>8. IsFiniteSet(barred) /\ (Cardinality(barred) > 0 <=> barred # {})
    <3>1. barred \in SUBSET (1..n) /\ IsFiniteSet(1..n)
      BY <2>3, FS_Interval
    <3> HIDE DEF barred
    <3>2. IsFiniteSet(barred)
      BY <3>1, FS_Subset
    <3> QED
      BY <3>2, FS_EmptySet, FS_CardinalityType
  <2>9. barred # {} <=> \E k \in Kodes : records[smt][k] = "barred"
    <3>1. ASSUME NEW i \in barred
          PROVE  \E k \in Kodes : records[smt][k] = "barred"
      <4>1. i \in 1..n /\ semester.nilai[i].grade = "barred"
        BY <2>3, <3>1
      <4> HIDE DEF barred
      <4>2. order[i] \in Kodes /\ records[smt][order[i]] = "barred"
        BY <2>5, <4>1
      <4> QED
        BY <4>2
    <3>2. ASSUME NEW k \in Kodes, records[smt][k] = "barred"
          PROVE  barred # {}
      <4>1. PICK i \in 1..n : order[i] = k /\ semester.nilai[i].grade = "barred"
        BY <2>4, <3>2 DEF Grades
      <4>2. i \in barred
        BY <2>3, <4>1
      <4> QED
        BY <4>2
    <3> QED
      BY <3>1, <3>2
  <2> HIDE DEF barred
  <2> QED
    BY <2>3, <2>6, <2>7, <2>8, <2>9 DEF barred
<1>4. DOMAIN khs = 1..Current
  BY <1>2
<1> DEFINE grades == gradeDistribution(khs)
<1>5. ASSUME NEW smt \in 1..Current
      PROVE  /\ smt \in ipTrend(khs) <=> \E k \in Kodes : records[smt][k] \in Grades
             /\ (smt \in ipTrend(khs) /\ grades[smt] > 0)
                   <=> \E k \in Kodes : records[smt][k] = "barred"
  <2>1. smt \in ipTrend(khs) <=> gradedSemester(khs[smt])
    BY <1>4 DEF ipTrend
  <2>2. smt \in ipTrend(khs) =>
          grades[smt] = Cardinality({i \in DOMAIN khs[smt].nilai :
                                        khs[smt].nilai[i].grade = "barred"})
    BY <1>4, <2>1 DEF gradeDistribution
  <2>3. (\E k \in Kodes : records[smt][k] = "barred") => gradedSemester(khs[smt])
    BY <1>3 DEF Grades
  <2> HIDE DEF grades
  <2> QED
    BY <1>3, <2>1, <2>2, <2>3
<1>6. charts = [smt \in counted |-> Sums(some)[smt]]
  BY DEF cumulativeSks
<1>7. ipTrend(khs) \subseteq DOMAIN charts \ {Current}
  <2> SUFFICES ASSUME NEW smt \in ipTrend(khs) PROVE smt \in counted \ {Current}
    BY <1>6
  <2>1. smt \in DOMAIN khs /\ gradedSemester(khs[smt])
    BY DEF ipTrend
  <2> QED
    BY <1>3, <1>4, <2>1
<1>8. some = every
  <2>1. \A smt \in 1..Current : some[smt] = every[smt]
    <3> TAKE smt \in 1..Current
    <3>1. khs[smt].totalSks \in Nat /\ khs[smt].totalSks = Credits(khs[smt].nilai)
      BY <1>3
    <3>2. smt \in counted <=> khs[smt].totalSks > 0
      BY <1>4 DEF sksSemester
    <3> HIDE DEF counted
    <3> QED
      BY <1>4, <3>1, <3>2
  <2> HIDE DEF counted
  <2> QED
    BY <1>4, <2>1
<1>9. every \in [1..Current -> Nat] /\ \A smt \in 1..Current : smt \notin counted => every[smt] = 0
  <2>1. \A smt \in 1..Current : every[smt] \in Nat
    BY <1>3
  <2>2. \A smt \in 1..Current : smt \notin counted => some[smt] = 0
    <3> HIDE DEF counted
    <3> QED
      BY <1>4
  <2>3. every \in [1..Current -> Nat]
    BY <2>1
  <2> HIDE DEF every, some, counted
  <2> QED
    BY <1>8, <2>2, <2>3
<1> HIDE DEF charts, some, every
<1>10. ASSUME DOMAIN charts # {}
       PROVE  charts[Max(DOMAIN charts)] = Sums(every)[Current]
  <2>1. DOMAIN charts = counted /\ counted \in SUBSET (0..Current)
    BY <1>4, <1>6
  <2> HIDE DEF counted
  <2>2. PICK last \in counted : last = Max(DOMAIN charts) /\ \A y \in counted : y <= last
    BY <1>1, <1>10, <2>1, MaxIsThere
  <2>3. \A k \in (last + 1)..Current : every[k] = 0
    <3> TAKE k \in (last + 1)..Current
    <3>1. k \in 1..Current /\ k \notin counted
      BY <1>1, <2>1, <2>2
    <3> QED
      BY <1>9, <3>1
  <2>4. Adds(Sums(every), Current, every)
    BY <1>1, <1>9, SumsAdd
  <2>5. Sums(every)[last] = Sums(every)[Current]
    <3>1. last \in 0..Current
      BY <2>1, <2>2
    <3> QED
      BY <1>1, <1>9, <2>3, <2>4, <3>1, SumsGrow
  <2> QED
    BY <1>6, <1>8, <2>2, <2>5
<1> QED
  BY <1>5, <1>7, <1>10 DEF ChartsAgree, charts, every, khs, grades

-----------------------------------------------------------------------------
(* The list of courses.                                                      *)

\* What is picked of a sequence are its elements at the positions asked for,
\* each once.
PicksOut(f, m, s, positions, T) ==
    /\ m \in Nat
    /\ f \in [1..m -> positions]
    /\ Picked(s, positions) \in [1..m -> T]
    /\ \A k \in 1..m : Picked(s, positions)[k] = s[f[k]]
    /\ \A k, l \in 1..m : f[k] = f[l] => k = l
    /\ \A i \in positions : \E k \in 1..m : f[k] = i

LEMMA PickedAre ==
    ASSUME NEW T, NEW n \in Nat, NEW s \in [1..n -> T], NEW positions \in SUBSET (1..n)
    PROVE  \E f : PicksOut(f, Cardinality(positions), s, positions, T)
<1> DEFINE R == {p \in (1..n) \X (1..n) : p[1] < p[2]}
           m == Cardinality(positions)
           Ascends(f) == \A k, l \in DOMAIN f : k < l => f[k] < f[l]
           ascending == CHOOSE f \in [1..m -> positions] : Ascends(f)
<1>1. IsFiniteSet(positions)
  <2>1. IsFiniteSet(1..n)
    BY FS_Interval
  <2> QED
    BY <2>1, FS_Subset
<1>2. m \in Nat
  BY <1>1, FS_CardinalityType
<1>3. \A x, y \in 1..n : <<x, y>> \in R <=> x < y
  OBVIOUS
<1>4. \E f \in [1..m -> positions] : \A k, l \in 1..m : k < l => <<f[k], f[l]>> \in R
  <2>1. \A x \in positions : <<x, x>> \notin R
    OBVIOUS
  <2>2. \A x, y, z \in positions : <<x, y>> \in R /\ <<y, z>> \in R => <<x, z>> \in R
    OBVIOUS
  <2>3. \A x, y \in positions : x # y => <<x, y>> \in R \/ <<y, x>> \in R
    OBVIOUS
  <2> HIDE DEF R
  <2> QED
    BY <1>1, <2>1, <2>2, <2>3, OrderIsThere
<1>5. \E f \in [1..m -> positions] : Ascends(f)
  <2>1. PICK f \in [1..m -> positions] : \A k, l \in 1..m : k < l => <<f[k], f[l]>> \in R
    BY <1>4
  <2>2. \A k, l \in 1..m : k < l => f[k] < f[l]
    BY <2>1
  <2> QED
    BY <2>2
<1>6. ascending \in [1..m -> positions] /\ Ascends(ascending)
  <2> HIDE DEF Ascends
  <2> QED
    BY <1>5
<1>7. Picked(s, positions) = [k \in DOMAIN ascending |-> s[ascending[k]]]
  BY DEF Picked
<1> HIDE DEF ascending
<1>8. \A k, l \in 1..m : ascending[k] = ascending[l] => k = l
  <2> SUFFICES ASSUME NEW k \in 1..m, NEW l \in 1..m, ascending[k] = ascending[l], k # l
               PROVE  FALSE
    OBVIOUS
  <2>1. ascending[k] \in 1..n /\ ascending[l] \in 1..n
    BY <1>6
  <2>2. k < l \/ l < k
    BY <1>2
  <2> QED
    BY <1>6, <2>1, <2>2
<1>9. \A i \in positions : \E k \in 1..m : ascending[k] = i
  <2>1. ascending \in Injection(1..m, positions)
    BY <1>6, <1>8 DEF Injection, IsInjective
  <2>2. Cardinality(1..m) = m /\ IsFiniteSet(1..m)
    BY <1>2, FS_Interval
  <2>3. ascending \in Surjection(1..m, positions)
    BY <1>1, <2>1, <2>2, FS_Injection
  <2> QED
    BY <2>3 DEF Surjection
<1>10. Picked(s, positions) = [k \in 1..m |-> s[ascending[k]]]
  BY <1>6, <1>7
<1>11. /\ Picked(s, positions) \in [1..m -> T]
       /\ \A k \in 1..m : Picked(s, positions)[k] = s[ascending[k]]
  BY <1>6, <1>10
<1> QED
  BY <1>2, <1>6, <1>8, <1>9, <1>11 DEF PicksOut

CoursesAreTyped ==
    course \in [Courses -> [kind : {"inprogress", "other"}, content : Contents, hidden : BOOLEAN]]

\* Whether Moodle has a course in a class of the timeline.
InClass(c, class) ==
    IF class = "hidden" THEN course[c].hidden
    ELSE ~ course[c].hidden /\ (class = "all" \/ course[c].kind = "inprogress")

\* A list of a class has each course once, and is right about those that have
\* not been touched.
OfClass(list, class, hid) ==
    /\ \E n \in Nat : list \in [1..n -> Courses]
    /\ \A k, l \in DOMAIN list : list[k] = list[l] => k = l
    /\ \A c \in Courses \ hid : (\E k \in DOMAIN list : list[k] = c) <=> InClass(c, class)

\* What the classes were merged to has each course once, and all of those that
\* have not been touched, as Moodle has them.
Complete(merged, hid) ==
    /\ \E n \in Nat : merged \in [1..n -> [id : Courses, past : BOOLEAN]]
    /\ \A k, l \in DOMAIN merged : merged[k].id = merged[l].id => k = l
    /\ \A c \in Courses \ hid :
          \E k \in DOMAIN merged :
             /\ merged[k].id = c
             /\ merged[k].past <=> (course[c].hidden \/ course[c].kind # "inprogress")

LEMMA TimelineIsOfClass ==
    ASSUME NEW class \in Classes, NEW hid,
           CoursesAreTyped
    PROVE  OfClass(Timeline(class), class, hid) /\ Timeline(class) # NoAnswer
<1> DEFINE members == {c \in Courses : InClass(c, class)}
           list == SetToSeq(members)
<1>1. Timeline(class) = list
  BY DEF Timeline, InClass
<1>2. IsFiniteSet(members) /\ Cardinality(members) \in Nat
  BY FS_Subset, FS_CardinalityType, CoursesAssumption
<1>3. /\ list \in [1..Cardinality(members) -> members]
      /\ IsInjective(list)
      /\ \A x \in members : \E k \in DOMAIN list : list[k] = x
  <2> HIDE DEF members
  <2> QED
    BY <1>2, SetAsSeq
<1> HIDE DEF list
<1>4. \A k \in DOMAIN list : list[k] \in members
  BY <1>3
<1>5. list # NoAnswer
  <2>1. ASSUME list = NoAnswer PROVE FALSE
    <3>1. 1 \in DOMAIN list /\ list[1] = 0
      BY <2>1 DEF NoAnswer
    <3> QED
      BY <1>4, <3>1, CoursesAssumption
  <2> QED
    BY <2>1
<1>6. list \in [1..Cardinality(members) -> Courses]
  BY <1>3
<1>7. \A k, l \in DOMAIN list : list[k] = list[l] => k = l
  BY <1>3 DEF IsInjective
<1>8. \A c \in Courses \ hid : (\E k \in DOMAIN list : list[k] = c) <=> InClass(c, class)
  BY <1>3, <1>4
<1> HIDE DEF members
<1> QED
  BY <1>1, <1>2, <1>5, <1>6, <1>7, <1>8 DEF OfClass

LEMMA MergedIsComplete ==
    ASSUME NEW lists, NEW hid,
           \A class \in Classes : OfClass(lists[class], class, hid),
           CoursesAreTyped
    PROVE  Complete(Merged(lists), hid)
<1> DEFINE hiddens == lists["hidden"]
           alls == lists["all"]
           both == hiddens \o alls
           firsts == {i \in DOMAIN both : \A j \in 1..(i - 1) : both[j] # both[i]}
           current == ToSet(lists["inprogress"])
<1>1. OfClass(hiddens, "hidden", hid) /\ OfClass(alls, "all", hid)
      /\ OfClass(lists["inprogress"], "inprogress", hid)
  BY DEF Classes
<1> HIDE DEF hiddens, alls
<1>2. PICK a \in Nat, b \in Nat : hiddens \in [1..a -> Courses] /\ alls \in [1..b -> Courses]
  BY <1>1 DEF OfClass
<1>3. hiddens \in Seq(Courses) /\ alls \in Seq(Courses) /\ Len(hiddens) = a /\ Len(alls) = b
  BY <1>2
<1>4. /\ both \in Seq(Courses) /\ DOMAIN both = 1..(a + b)
      /\ \A i \in 1..a : both[i] = hiddens[i]
      /\ \A i \in 1..b : both[a + i] = alls[i]
  <2>1. both \in Seq(Courses) /\ Len(both) = a + b
    BY <1>3, ConcatProperties
  <2>2. \A i \in 1..(Len(hiddens) + Len(alls)) :
           both[i] = IF i <= Len(hiddens) THEN hiddens[i] ELSE alls[i - Len(hiddens)]
    BY <1>3, ConcatProperties
  <2>3. \A i \in 1..a : both[i] = hiddens[i]
    BY <1>3, <2>2
  <2>4. ASSUME NEW i \in 1..b PROVE both[a + i] = alls[i]
    <3>1. a + i \in 1..(a + b) /\ ~ (a + i <= a) /\ (a + i) - a = i
      OBVIOUS
    <3> QED
      BY <1>3, <2>2, <3>1
  <2> QED
    BY <2>1, <2>3, <2>4
<1> HIDE DEF both
<1>5. \A c \in Courses \ hid : \E i \in DOMAIN both : both[i] = c
  <2> TAKE c \in Courses \ hid
  <2>1. InClass(c, "hidden") \/ InClass(c, "all")
    BY DEF InClass
  <2>2. (\E k \in 1..a : hiddens[k] = c) \/ (\E k \in 1..b : alls[k] = c)
    <3>1. InClass(c, "hidden") => \E k \in DOMAIN hiddens : hiddens[k] = c
      BY <1>1 DEF OfClass
    <3>2. InClass(c, "all") => \E k \in DOMAIN alls : alls[k] = c
      BY <1>1 DEF OfClass
    <3>3. DOMAIN hiddens = 1..a /\ DOMAIN alls = 1..b
      BY <1>2
    <3> QED
      BY <2>1, <3>1, <3>2, <3>3
  <2>3. CASE \E k \in 1..a : hiddens[k] = c
    BY <1>2, <1>4, <2>3
  <2>4. CASE \E k \in 1..b : alls[k] = c
    <3>1. PICK k \in 1..b : alls[k] = c
      BY <2>4
    <3>2. a + k \in 1..(a + b) /\ both[a + k] = c
      BY <1>2, <1>4, <3>1
    <3> QED
      BY <1>4, <3>2
  <2> QED
    BY <2>2, <2>3, <2>4
<1>6. \A i \in DOMAIN both : \E j \in firsts : both[j] = both[i]
  <2> TAKE i \in DOMAIN both
  <2> DEFINE alike == {j \in DOMAIN both : both[j] = both[i]}
  <2>1. alike \in SUBSET Nat /\ i \in alike
    BY <1>4
  <2>2. Min(alike) \in alike /\ \A y \in alike : Min(alike) <= y
    <3> HIDE DEF alike
    <3> QED
      BY <2>1, MinIsThere
  <2>3. PICK j \in alike : \A y \in alike : j <= y
    BY <2>2
  <2>4. \A y \in 1..(j - 1) : both[y] # both[j]
    <3> SUFFICES ASSUME NEW y \in 1..(j - 1), both[y] = both[j] PROVE FALSE
      OBVIOUS
    <3>1. y \in DOMAIN both /\ y < j
      BY <1>4, <2>3
    <3>2. y \in alike
      BY <2>3, <3>1
    <3> QED
      BY <1>4, <2>3, <3>1, <3>2
  <2> QED
    BY <2>3, <2>4
<1>7. \A i, j \in firsts : both[i] = both[j] => i = j
  <2> SUFFICES ASSUME NEW i \in firsts, NEW j \in firsts, both[i] = both[j], i # j PROVE FALSE
    OBVIOUS
  <2>1. i \in Nat \ {0} /\ j \in Nat \ {0}
    BY <1>4
  <2>2. i \in 1..(j - 1) \/ j \in 1..(i - 1)
    BY <2>1
  <2> QED
    BY <2>2
<1>8. firsts \in SUBSET (1..(a + b)) /\ a + b \in Nat
  BY <1>4
<1> DEFINE m == Cardinality(firsts)
           once == Picked(both, firsts)
<1>9. PICK f : PicksOut(f, m, both, firsts, Courses)
  <2>1. PICK n \in Nat : n = a + b
    BY <1>8
  <2>2. both \in [1..n -> Courses] /\ firsts \in SUBSET (1..n)
    BY <1>4, <1>8, <2>1
  <2> HIDE DEF firsts
  <2> QED
    BY <2>2, PickedAre
<1>10. Merged(lists) = [k \in DOMAIN once |-> [id |-> once[k], past |-> once[k] \notin current]]
  BY DEF Merged, both, hiddens, alls
<1>11. DOMAIN once = 1..m /\ \A k \in 1..m : once[k] = both[f[k]] /\ f[k] \in firsts
  BY <1>9 DEF PicksOut
<1> HIDE DEF once, m
<1>12. \A k \in 1..m : once[k] \in Courses
  BY <1>4, <1>11
<1>13. \A k, l \in 1..m : once[k] = once[l] => k = l
  BY <1>7, <1>9, <1>11 DEF PicksOut
<1>14. \A c \in Courses \ hid : \E k \in 1..m : once[k] = c
  BY <1>5, <1>6, <1>9, <1>11 DEF PicksOut
<1>15. \A c \in Courses \ hid :
          (c \notin current) <=> (course[c].hidden \/ course[c].kind # "inprogress")
  <2> TAKE c \in Courses \ hid
  <2>1. (c \in current) <=> InClass(c, "inprogress")
    BY <1>1 DEF OfClass, ToSet
  <2> QED
    BY <2>1 DEF InClass
<1> HIDE DEF current
<1>16. PICK merged : merged = Merged(lists)
  OBVIOUS
<1>17. merged = [k \in 1..m |-> [id |-> once[k], past |-> once[k] \notin current]]
  BY <1>10, <1>11, <1>16
<1>18. merged \in [1..m -> [id : Courses, past : BOOLEAN]]
  BY <1>12, <1>17
<1>19. \A k \in 1..m : merged[k].id = once[k] /\ (merged[k].past <=> once[k] \notin current)
  BY <1>17
<1>20. \A k, l \in DOMAIN merged : merged[k].id = merged[l].id => k = l
  BY <1>13, <1>17, <1>19
<1>21. \A c \in Courses \ hid :
          \E k \in DOMAIN merged :
             /\ merged[k].id = c
             /\ merged[k].past <=> (course[c].hidden \/ course[c].kind # "inprogress")
  BY <1>14, <1>15, <1>17, <1>19
<1>22. m \in Nat
  BY <1>9 DEF PicksOut
<1> QED
  BY <1>16, <1>18, <1>20, <1>21, <1>22 DEF Complete

\* The two renderings of a course's page measure the same progress.
RenderingsMeasureAlike ==
    \A content \in Contents : \A day, past :
       parseSectionProgress(parseContentHtml(Page(content)), day, past)
         = parseSectionProgress(mapCourseStateJson(content), day, past)

\* The progress of a course as its page had it on a day.
OnADay(id, past, progress, began, until) ==
    RenderingsMeasureAlike => \E day \in began..until :
       progress = parseSectionProgress(mapCourseStateJson(course[id].content), day, past)

\* The workers know the courses of the list that are open, each once; a course
\* that is not open any more has the progress of its page or is among the failed.
Scraped(merged, open, step, progress, failed, began, until) ==
    /\ \E n \in Nat : open \in [1..n -> [id : Courses, past : BOOLEAN]]
    /\ DOMAIN step = DOMAIN open
    /\ \A i \in DOMAIN open : \E k \in DOMAIN merged : open[i] = merged[k]
    /\ \A i, j \in DOMAIN open : open[i].id = open[j].id => i = j
    /\ progress = [c \in Courses |-> progress[c]]
    /\ \A i \in DOMAIN open : step[i] # "done" => progress[open[i].id] = NoProgress
    /\ \A k \in DOMAIN merged :
          \/ OnADay(merged[k].id, merged[k].past, progress[merged[k].id], began, until)
          \/ progress[merged[k].id] = NoProgress /\ merged[k].id \in failed
          \/ \E i \in DOMAIN open : open[i] = merged[k] /\ step[i] # "done"

Since(began) == began \in Nat \ {0} /\ began <= today

TimelinePhase ==
    /\ listing.phase = "timeline" /\ {"lists", "hid"} \subseteq DOMAIN listing
    /\ listing.lists = [class \in Classes |-> listing.lists[class]]
    /\ Since(listing.began)
    /\ \A class \in Classes :
          listing.lists[class] = NoAnswer \/ OfClass(listing.lists[class], class, listing.hid)

BatchPhase ==
    /\ listing.phase = "batch" /\ "hid" \in DOMAIN listing
    /\ Since(listing.began)
    /\ Complete(listing.merged, listing.hid)

ScrapePhase ==
    /\ listing.phase = "scrape" /\ {"hid", "step", "progress", "failed"} \subseteq DOMAIN listing
    /\ Since(listing.began)
    /\ Complete(listing.merged, listing.hid)
    /\ Scraped(listing.merged, listing.open, listing.step, listing.progress,
               listing.failed, listing.began, today)

ShownIsTrue ==
    /\ \A e \in ToSet(shown.list) : e.id \in Courses
    /\ UntouchedAreListed
    /\ RenderingsMeasureAlike => ProgressIsOwn

CoursesInv ==
    /\ CoursesAreTyped
    /\ today \in Nat \ {0}
    /\ listing.phase = "idle" \/ TimelinePhase \/ BatchPhase \/ ScrapePhase
    /\ ShownIsTrue

\* What a course is never changes.
SameCourses ==
    \A c \in Courses : course'[c].kind = course[c].kind /\ course'[c].content = course[c].content

LEMMA CoursesInitially == CoursesInit => CoursesInv
<1> SUFFICES ASSUME CoursesInit PROVE CoursesInv
  OBVIOUS
<1>1. CoursesAreTyped
  BY DEF CoursesInit, CoursesAreTyped
<1>2. today \in Nat \ {0}
  BY CoursesAssumption DEF CoursesInit
<1>3. listing.phase = "idle"
  BY DEF CoursesInit, Idle
<1>4. shown.list = <<>> /\ shown.began = 0
  BY DEF CoursesInit
<1>5. ShownIsTrue
  BY <1>4 DEF ShownIsTrue, UntouchedAreListed, ProgressIsOwn, ToSet
<1> QED
  BY <1>1, <1>2, <1>3, <1>5 DEF CoursesInv

LEMMA ClassStays ==
    ASSUME NEW list, NEW class, NEW hid, NEW hid2, OfClass(list, class, hid),
           hid \subseteq hid2, \A c \in Courses \ hid2 : course'[c] = course[c]
    PROVE  OfClass(list, class, hid2)'
<1>1. \A c \in Courses \ hid2 : InClass(c, class)' <=> InClass(c, class)
  BY DEF InClass
<1>2. \A c \in Courses \ hid2 : (\E k \in DOMAIN list : list[k] = c) <=> InClass(c, class)'
  BY <1>1 DEF OfClass
<1> QED
  BY <1>2 DEF OfClass

LEMMA CompleteStays ==
    ASSUME NEW merged, NEW hid, NEW hid2, Complete(merged, hid),
           hid \subseteq hid2, \A c \in Courses \ hid2 : course'[c] = course[c]
    PROVE  Complete(merged, hid2)'
<1>1. \A c \in Courses \ hid2 :
         \E k \in DOMAIN merged :
            /\ merged[k].id = c
            /\ merged[k].past <=> (course'[c].hidden \/ course'[c].kind # "inprogress")
  BY DEF Complete
<1> QED
  BY <1>1 DEF Complete

LEMMA DayStays ==
    ASSUME NEW id \in Courses, NEW past, NEW progress, NEW began \in Nat, NEW until \in Nat,
           NEW later \in Nat, until <= later, SameCourses, OnADay(id, past, progress, began, until)
    PROVE  OnADay(id, past, progress, began, later)'
<1> SUFFICES ASSUME RenderingsMeasureAlike
             PROVE  \E day \in began..later : progress =
                       parseSectionProgress(mapCourseStateJson(course'[id].content), day, past)
  BY DEF OnADay
<1>1. PICK day \in began..until :
         progress = parseSectionProgress(mapCourseStateJson(course[id].content), day, past)
  BY DEF OnADay
<1>2. day \in began..later
  OBVIOUS
<1>3. course'[id].content = course[id].content
  BY DEF SameCourses
<1> QED
  BY <1>1, <1>2, <1>3

LEMMA ScrapedStays ==
    ASSUME NEW merged, NEW open, NEW step, NEW progress, NEW failed, NEW began \in Nat,
           NEW until \in Nat, NEW later \in Nat, until <= later,
           \E n \in Nat : merged \in [1..n -> [id : Courses, past : BOOLEAN]],
           SameCourses, Scraped(merged, open, step, progress, failed, began, until)
    PROVE  Scraped(merged, open, step, progress, failed, began, later)'
<1>1. ASSUME NEW k \in DOMAIN merged
      PROVE  \/ OnADay(merged[k].id, merged[k].past, progress[merged[k].id], began, later)'
             \/ progress[merged[k].id] = NoProgress /\ merged[k].id \in failed
             \/ \E i \in DOMAIN open : open[i] = merged[k] /\ step[i] # "done"
  <2>1. merged[k].id \in Courses
    OBVIOUS
  <2>2. CASE OnADay(merged[k].id, merged[k].past, progress[merged[k].id], began, until)
    BY <2>1, <2>2, DayStays
  <2> QED
    BY <2>2 DEF Scraped
<1> QED
  BY <1>1 DEF Scraped

LEMMA ShownStays ==
    ASSUME ShownIsTrue, SameCourses, shown' = shown
    PROVE  ShownIsTrue'
<1> PICK s : s = shown
  OBVIOUS
<1>1. shown' = s
  OBVIOUS
<1>2. \A e \in ToSet(s.list) : e.id \in Courses
  BY DEF ShownIsTrue
<1>3. UntouchedAreListed'
  <2>1. s.began # 0 => \A c \in Courses \ s.hid :
          LET at == {k \in DOMAIN s.list : s.list[k].id = c}
          IN  /\ Cardinality(at) = 1
              /\ \A k \in at : s.list[k].past
                                 <=> (c \in s.hidden \/ course[c].kind # "inprogress")
    BY DEF ShownIsTrue, UntouchedAreListed
  <2>2. s.began # 0 => \A c \in Courses \ s.hid :
          LET at == {k \in DOMAIN s.list : s.list[k].id = c}
          IN  /\ Cardinality(at) = 1
              /\ \A k \in at : s.list[k].past
                                 <=> (c \in s.hidden \/ course'[c].kind # "inprogress")
    BY <2>1 DEF SameCourses
  <2> QED
    BY <1>1, <2>2 DEF UntouchedAreListed
<1>4. RenderingsMeasureAlike => ProgressIsOwn'
  <2> SUFFICES ASSUME RenderingsMeasureAlike, NEW e \in ToSet(s.list)
               PROVE  \/ \E day \in s.began..s.ended : e.progress =
                            parseSectionProgress(mapCourseStateJson(course'[e.id].content), day, e.past)
                      \/ e.progress = NoProgress /\ e.id \in s.failed
    BY <1>1 DEF ProgressIsOwn
  <2>1. course'[e.id].content = course[e.id].content
    BY <1>2 DEF SameCourses
  <2> QED
    BY <2>1 DEF ShownIsTrue, ProgressIsOwn
<1> QED
  BY <1>1, <1>2, <1>3, <1>4 DEF ShownIsTrue

\* What the student is given: every course of a complete list, with the progress
\* of its page on a day of the request.
LEMMA GivenIsTrue ==
    ASSUME NEW merged, NEW progress, NEW failed, NEW list, NEW hid,
           Complete(merged, hid), hid = listing.hid, Since(listing.began), today \in Nat,
           list = WithProgress(merged, progress),
           \A k \in DOMAIN merged :
              \/ OnADay(merged[k].id, merged[k].past, progress[merged[k].id], listing.began, today)
              \/ progress[merged[k].id] = NoProgress /\ merged[k].id \in failed,
           Give(list, failed), course' = course
    PROVE  ShownIsTrue'
<1> PICK s : s = shown'
  OBVIOUS
<1> PICK b, until : b = listing.began /\ until = today
  OBVIOUS
<1>1. /\ s.list = list /\ s.began = b /\ s.ended = until /\ s.hid = hid
      /\ s.hidden = {c \in Courses : course[c].hidden} /\ s.failed = failed
  BY DEF Give
<1>2. PICK n \in Nat : merged \in [1..n -> [id : Courses, past : BOOLEAN]]
  BY DEF Complete
<1>3. list = [k \in 1..n |-> [id |-> merged[k].id, past |-> merged[k].past,
                              progress |-> progress[merged[k].id]]]
  BY <1>2 DEF WithProgress
<1>4. \A k \in 1..n : /\ list[k].id = merged[k].id /\ list[k].past = merged[k].past
                      /\ list[k].progress = progress[merged[k].id]
                      /\ merged[k].id \in Courses
  BY <1>2, <1>3
<1>5. DOMAIN list = 1..n /\ DOMAIN merged = 1..n
  BY <1>2, <1>3
<1>6. \A e \in ToSet(list) : \E k \in 1..n : e = list[k]
  BY <1>5 DEF ToSet
<1>7. ASSUME NEW c \in Courses \ hid
      PROVE  LET at == {k \in DOMAIN list : list[k].id = c}
             IN  /\ Cardinality(at) = 1
                 /\ \A k \in at : list[k].past
                                    <=> (c \in s.hidden \/ course[c].kind # "inprogress")
  <2> DEFINE at == {k \in DOMAIN list : list[k].id = c}
  <2>1. PICK k \in 1..n : /\ merged[k].id = c
                          /\ merged[k].past <=> (course[c].hidden \/ course[c].kind # "inprogress")
    BY <1>5 DEF Complete
  <2>2. \A l \in 1..n : list[l].id = c => l = k
    BY <1>4, <1>5, <2>1 DEF Complete
  <2>3. at = {k}
    BY <1>4, <1>5, <2>1, <2>2
  <2>4. Cardinality(at) = 1
    BY <2>3, FS_Singleton
  <2>5. list[k].past <=> (c \in s.hidden \/ course[c].kind # "inprogress")
    BY <1>1, <1>4, <2>1
  <2> QED
    BY <2>3, <2>4, <2>5
<1>8. UntouchedAreListed'
  BY <1>1, <1>7 DEF UntouchedAreListed
<1>9. RenderingsMeasureAlike => ProgressIsOwn'
  <2> SUFFICES ASSUME RenderingsMeasureAlike, NEW e \in ToSet(list)
               PROVE  \/ \E day \in b..until : e.progress =
                            parseSectionProgress(mapCourseStateJson(course[e.id].content), day, e.past)
                      \/ e.progress = NoProgress /\ e.id \in failed
    BY <1>1 DEF ProgressIsOwn
  <2>1. PICK k \in 1..n : e = list[k]
    BY <1>6
  <2>2. e.id = merged[k].id /\ e.past = merged[k].past /\ e.progress = progress[merged[k].id]
    BY <1>4, <2>1
  <2> QED
    BY <1>5, <2>2 DEF OnADay
<1>10. \A e \in ToSet(list) : e.id \in Courses
  BY <1>4, <1>6
<1> QED
  BY <1>1, <1>8, <1>9, <1>10 DEF ShownIsTrue

LEMMA AlikeWhereTheyAgree ==
    ASSUME \A content \in Contents : RenderingsAgree(content)
    PROVE  RenderingsMeasureAlike
<1> SUFFICES ASSUME NEW content \in Contents, NEW day, NEW past
             PROVE  parseSectionProgress(parseContentHtml(Page(content)), day, past)
                      = parseSectionProgress(mapCourseStateJson(content), day, past)
  BY DEF RenderingsMeasureAlike
<1> DEFINE json == mapCourseStateJson(content)
           html == parseContentHtml(Page(content))
<1>1. DOMAIN html = DOMAIN json /\ \A k \in DOMAIN json : html[k].dateRange = json[k].dateRange
  BY DEF RenderingsAgree
<1> HIDE DEF json, html
<1> DEFINE dated(sections) == {k \in DOMAIN sections : sections[k].dateRange # Plain}
           parseable(sections) == {k \in dated(sections) : sections[k].dateRange # Foreign}
           over(sections) == {k \in parseable(sections) : IsEnded(sections[k].dateRange, day)}
<1>2. dated(html) = dated(json)
  BY <1>1
<1>3. parseable(html) = parseable(json)
  BY <1>1
<1>4. over(html) = over(json)
  <2>1. \A k \in parseable(json) : html[k].dateRange = json[k].dateRange
    BY <1>1
  <2> HIDE DEF parseable
  <2> QED
    BY <1>3, <2>1
<1>5. \A sections : parseSectionProgress(sections, day, past) =
         IF dated(sections) = {} THEN NoProgress
         ELSE IF past THEN 100
         ELSE IF parseable(sections) = {} THEN NoProgress
         ELSE (200 * Cardinality(over(sections)) + Cardinality(parseable(sections)))
                \div (2 * Cardinality(parseable(sections)))
  BY DEF parseSectionProgress
<1> HIDE DEF dated, parseable, over
<1>6. parseSectionProgress(html, day, past) = parseSectionProgress(json, day, past)
  BY <1>2, <1>3, <1>4, <1>5
<1> QED
  BY <1>6 DEF html, json

\* The courses left open are of the list, each once and without a progress yet,
\* and the others have that of their page.
LeftOpen(merged, open, progress, began, until) ==
    /\ \E n \in Nat : open \in [1..n -> [id : Courses, past : BOOLEAN]]
    /\ \A i \in DOMAIN open : \E k \in DOMAIN merged : open[i] = merged[k]
    /\ \A i, j \in DOMAIN open : open[i].id = open[j].id => i = j
    /\ progress = [c \in Courses |-> progress[c]]
    /\ \A i \in DOMAIN open : progress[open[i].id] = NoProgress
    /\ \A k \in DOMAIN merged :
          \/ OnADay(merged[k].id, merged[k].past, progress[merged[k].id], began, until)
          \/ \E i \in DOMAIN open : open[i] = merged[k]

\* The workers start, or there is nothing for them to do.
LEMMA ScrapeStarts ==
    ASSUME NEW open, NEW progress, CoursesInv, BatchPhase, Scrape(open, progress),
           UNCHANGED <<course, today>>,
           LeftOpen(listing.merged, open, progress, listing.began, today)
    PROVE  CoursesInv'
<1> PICK merged, hid, b, until : /\ merged = listing.merged /\ hid = listing.hid
                                 /\ b = listing.began /\ until = today
  OBVIOUS
<1>1. Complete(merged, hid) /\ Since(b) /\ LeftOpen(merged, open, progress, b, until)
  BY DEF BatchPhase
<1>2. CoursesAreTyped' /\ today' \in Nat \ {0}
  BY DEF CoursesInv, CoursesAreTyped
<1>3. ShownIsTrue /\ SameCourses
  BY DEF CoursesInv, SameCourses
<1>4. CASE open = <<>>
  <2> PICK list : list = WithProgress(merged, progress)
    OBVIOUS
  <2>1. Give(list, {})
    BY <1>4 DEF Scrape
  <2>2. \A k \in DOMAIN merged :
           \/ OnADay(merged[k].id, merged[k].past, progress[merged[k].id], listing.began, today)
           \/ progress[merged[k].id] = NoProgress /\ merged[k].id \in {}
    BY <1>1, <1>4 DEF LeftOpen
  <2>3. today \in Nat /\ Since(listing.began)
    BY <1>1 DEF CoursesInv
  <2>4. ShownIsTrue'
    BY <1>1, <2>1, <2>2, <2>3, GivenIsTrue
  <2>5. listing'.phase = "idle"
    BY <2>1 DEF Give, Idle
  <2> QED
    BY <1>2, <2>4, <2>5 DEF CoursesInv
<1>5. CASE open # <<>>
  <2> PICK l : l = listing'
    OBVIOUS
  <2>1. l = [phase |-> "scrape", calls |-> listing.calls, began |-> b,
             hid |-> hid, merged |-> merged, open |-> open,
             failed |-> {}, progress |-> progress,
             step |-> [i \in DOMAIN open |-> IF i <= Concurrency THEN "cache" ELSE "waiting"]]
        /\ shown' = shown
    BY <1>5 DEF Scrape
  <2>2. /\ l.phase = "scrape" /\ {"hid", "step", "progress", "failed"} \subseteq DOMAIN l
        /\ l.began = b /\ l.hid = hid /\ l.merged = merged /\ l.open = open /\ l.failed = {}
        /\ l.progress = progress
        /\ l.step = [i \in DOMAIN open |-> IF i <= Concurrency THEN "cache" ELSE "waiting"]
    BY <2>1
  <2> PICK step : step = l.step
    OBVIOUS
  <2>3. DOMAIN step = DOMAIN open /\ \A i \in DOMAIN open : step[i] # "done"
    BY <2>2
  <2>4. \A k \in DOMAIN merged :
           \/ OnADay(merged[k].id, merged[k].past, progress[merged[k].id], b, until)
           \/ progress[merged[k].id] = NoProgress /\ merged[k].id \in {}
           \/ \E i \in DOMAIN open : open[i] = merged[k] /\ step[i] # "done"
    BY <1>1, <2>3 DEF LeftOpen
  <2>5. Scraped(merged, open, step, progress, {}, b, until)
    BY <1>1, <2>3, <2>4 DEF Scraped, LeftOpen
  <2>6. Scraped(merged, open, step, progress, {}, b, until)'
    <3>1. b \in Nat /\ until \in Nat /\ until <= until
      BY <1>1 DEF CoursesInv, Since
    <3>2. \E n \in Nat : merged \in [1..n -> [id : Courses, past : BOOLEAN]]
      BY <1>1 DEF Complete
    <3> QED
      BY <1>3, <2>5, <3>1, <3>2, ScrapedStays
  <2>7. Complete(merged, hid)'
    BY <1>1, CompleteStays
  <2>8. ShownIsTrue'
    BY <1>3, <2>1, ShownStays
  <2>9. Since(b)'
    BY <1>1 DEF Since
  <2>10. ScrapePhase'
    <3>1. /\ listing' = l /\ today' = until
      OBVIOUS
    <3>2. /\ l.began = b /\ l.hid = hid /\ l.merged = merged /\ l.open = open /\ l.failed = {}
          /\ l.progress = progress /\ l.step = step
      BY <2>2
    <3>3. l.phase = "scrape" /\ {"hid", "step", "progress", "failed"} \subseteq DOMAIN l
      BY <2>2
    <3>4. Scraped(merged, open, step, progress, {}, b, today)'
      BY <2>6, <3>1
    <3> QED
      BY <2>7, <2>9, <3>1, <3>2, <3>3, <3>4 DEF ScrapePhase
  <2> QED
    BY <1>2, <2>8, <2>10 DEF CoursesInv
<1> QED
  BY <1>4, <1>5

\* A worker that is done has measured its course's page, or has failed.
LEMMA WorkerDoneKeeps ==
    ASSUME NEW i, NEW sections, NEW failed, CoursesInv, ScrapePhase,
           i \in DOMAIN listing.open, listing.step[i] # "done",
           WorkerDone(i, sections, failed), UNCHANGED <<course, today>>,
           \/ failed = {listing.open[i].id}
           \/ /\ failed = {}
              /\ RenderingsMeasureAlike =>
                   parseSectionProgress(sections, today, listing.open[i].past)
                   = parseSectionProgress(mapCourseStateJson(course[listing.open[i].id].content),
                                          today, listing.open[i].past)
    PROVE  CoursesInv'
<1> PICK merged, hid, b, until, open, step, progress, gone :
       /\ merged = listing.merged /\ hid = listing.hid /\ b = listing.began /\ until = today
       /\ open = listing.open /\ step = listing.step /\ progress = listing.progress
       /\ gone = listing.failed
  OBVIOUS
<1> PICK m : m = open[i]
  OBVIOUS
<1>1. Complete(merged, hid) /\ Since(b) /\ Scraped(merged, open, step, progress, gone, b, until)
  BY DEF ScrapePhase
<1>2. CoursesAreTyped' /\ today' \in Nat \ {0}
  BY DEF CoursesInv, CoursesAreTyped
<1>3. ShownIsTrue /\ SameCourses
  BY DEF CoursesInv, SameCourses
<1>4. PICK n \in Nat : open \in [1..n -> [id : Courses, past : BOOLEAN]]
  BY <1>1 DEF Scraped
<1>5. i \in 1..n /\ DOMAIN open = 1..n /\ DOMAIN step = 1..n
  BY <1>1, <1>4 DEF Scraped
<1>6. m.id \in Courses
  BY <1>4, <1>5
<1>7. PICK q \in Nat : merged \in [1..q -> [id : Courses, past : BOOLEAN]]
  BY <1>1 DEF Complete
<1>8. until \in Nat /\ b \in Nat /\ b <= until
  BY <1>1 DEF Since, CoursesInv
<1> DEFINE waiting == {j \in DOMAIN listing.step : listing.step[j] = "waiting"}
           step2Def == [j \in DOMAIN listing.step |->
                          CASE j = i -> "done"
                            [] j # i /\ waiting # {} /\ j = Min(waiting) -> "cache"
                            [] OTHER -> listing.step[j]]
           progress2Def == IF listing.open[i].id \in failed THEN listing.progress
                           ELSE [listing.progress EXCEPT ![listing.open[i].id] =
                                    parseSectionProgress(sections, today, listing.open[i].past)]
           gone2Def == listing.failed \cup failed
<1>9. IF \A j \in DOMAIN step2Def : step2Def[j] = "done"
       THEN Give(WithProgress(listing.merged, progress2Def), gone2Def)
       ELSE /\ listing' = [listing EXCEPT !.step = step2Def, !.progress = progress2Def,
                                          !.failed = gone2Def]
            /\ UNCHANGED shown
  BY Zenon DEF WorkerDone
<1> HIDE DEF step2Def, progress2Def, gone2Def
<1> PICK step2, progress2, gone2 :
       step2 = step2Def /\ progress2 = progress2Def /\ gone2 = gone2Def
  OBVIOUS
<1>10. \A j \in 1..n : step2[j] = CASE j = i -> "done"
                            [] j # i /\ waiting # {} /\ j = Min(waiting) -> "cache"
                            [] OTHER -> step[j]
  <2> HIDE DEF waiting
  <2> QED
    BY <1>5 DEF step2Def
<1>11. DOMAIN step2 = 1..n
  BY <1>5 DEF step2Def
<1>12. /\ DOMAIN step2 = 1..n
      /\ \A j \in 1..n : j # i /\ step[j] # "done" => step2[j] # "done"
  <2> HIDE DEF waiting
  <2> QED
    BY <1>10, <1>11
<1>13. /\ progress2 = [c \in Courses |-> progress2[c]]
       /\ \A c \in Courses : c # m.id => progress2[c] = progress[c]
       /\ IF m.id \in failed THEN progress2[m.id] = progress[m.id]
          ELSE progress2[m.id] = parseSectionProgress(sections, today, m.past)
  <2>1. progress = [c \in Courses |-> progress[c]]
    BY <1>1 DEF Scraped
  <2> QED
    BY <1>6, <2>1 DEF progress2Def
<1>14. IF \A j \in DOMAIN step2 : step2[j] = "done"
       THEN Give(WithProgress(merged, progress2), gone2)
       ELSE /\ listing' = [listing EXCEPT !.step = step2, !.progress = progress2,
                                          !.failed = gone2]
            /\ shown' = shown
  BY <1>9
<1>15. gone2 = gone \cup failed
  BY DEF gone2Def
<1>16. progress[m.id] = NoProgress
  BY <1>1, <1>5 DEF Scraped
<1>17. ASSUME NEW k \in DOMAIN merged
       PROVE  \/ OnADay(merged[k].id, merged[k].past, progress2[merged[k].id], b, until)
              \/ progress2[merged[k].id] = NoProgress /\ merged[k].id \in gone2
              \/ \E j \in DOMAIN open : open[j] = merged[k] /\ step2[j] # "done"
  <2>1. merged[k].id \in Courses
    BY <1>7
  <2>2. CASE merged[k].id = m.id
    <3>1. merged[k] = m
      <4>1. PICK l \in DOMAIN merged : m = merged[l]
        BY <1>1, <1>5 DEF Scraped
      <4> QED
        BY <1>1, <2>2, <4>1 DEF Complete
    <3>2. CASE failed = {m.id}
      BY <1>13, <1>16, <1>15, <2>2, <3>2
    <3>3. CASE /\ failed = {}
               /\ RenderingsMeasureAlike =>
                    parseSectionProgress(sections, today, m.past)
                    = parseSectionProgress(mapCourseStateJson(course[m.id].content), today, m.past)
      <4>1. RenderingsMeasureAlike => progress2[m.id]
              = parseSectionProgress(mapCourseStateJson(course[m.id].content), until, m.past)
        BY <1>13, <3>3
      <4>2. until \in b..until
        BY <1>8
      <4> QED
        BY <2>2, <3>1, <4>1, <4>2 DEF OnADay
    <3> QED
      BY <3>2, <3>3
  <2>3. CASE merged[k].id # m.id
    <3>1. progress2[merged[k].id] = progress[merged[k].id]
      BY <1>13, <2>1, <2>3
    <3>2. CASE \E j \in DOMAIN open : open[j] = merged[k] /\ step[j] # "done"
      <4>1. PICK j \in 1..n : open[j] = merged[k] /\ step[j] # "done"
        BY <1>5, <3>2
      <4>2. j # i
        BY <2>3, <4>1
      <4> QED
        BY <1>5, <1>12, <4>1, <4>2
    <3> QED
      BY <1>1, <1>15, <3>1, <3>2 DEF Scraped
  <2> QED
    BY <2>2, <2>3
<1>18. CASE \A j \in DOMAIN step2 : step2[j] = "done"
  <2> PICK list, lost : list = WithProgress(merged, progress2) /\ lost = gone2
    OBVIOUS
  <2>1. Give(list, lost)
    BY <1>14, <1>18
  <2>2. \A k \in DOMAIN merged :
           \/ OnADay(merged[k].id, merged[k].past, progress2[merged[k].id], listing.began, today)
           \/ progress2[merged[k].id] = NoProgress /\ merged[k].id \in lost
    BY <1>5, <1>12, <1>17, <1>18
  <2>3. Since(listing.began) /\ today \in Nat
    BY <1>1, <1>8
  <2>4. ShownIsTrue'
    BY <1>1, <2>1, <2>2, <2>3, GivenIsTrue
  <2>5. listing'.phase = "idle"
    BY <2>1 DEF Give, Idle
  <2> QED
    BY <1>2, <2>4, <2>5 DEF CoursesInv
<1>19. CASE ~ \A j \in DOMAIN step2 : step2[j] = "done"
  <2> PICK l, lost : l = listing' /\ lost = gone2
    OBVIOUS
  <2>1. /\ l = [listing EXCEPT !.step = step2, !.progress = progress2, !.failed = lost]
        /\ shown' = shown
    BY <1>14, <1>19
  <2>2. /\ l.phase = "scrape" /\ {"hid", "step", "progress", "failed"} \subseteq DOMAIN l
        /\ l.began = b /\ l.hid = hid /\ l.merged = merged /\ l.open = open /\ l.failed = lost
        /\ l.progress = progress2 /\ l.step = step2
    <3>1. listing.phase = "scrape" /\ {"hid", "step", "progress", "failed"} \subseteq DOMAIN listing
      BY DEF ScrapePhase
    <3> QED
      BY <2>1, <3>1
  <2>3. Scraped(merged, open, step2, progress2, lost, b, until)
    <3>1. \A j \in DOMAIN open : step2[j] # "done" => progress2[open[j].id] = NoProgress
      <4> SUFFICES ASSUME NEW j \in 1..n, step2[j] # "done"
                   PROVE  progress2[open[j].id] = NoProgress
        BY <1>5
      <4>1. j # i
        <5>1. step2[i] = "done"
          BY <1>5, <1>10
        <5> QED
          BY <5>1
      <4>2. step[j] # "done"
        <5>1. step[j] = "done" => step2[j] = "done"
          <6>1. step[j] = "done" => j \notin waiting
            OBVIOUS
          <6>2. waiting # {} => Min(waiting) \in waiting
            <7>1. waiting \in SUBSET Nat
              BY <1>5
            <7> HIDE DEF waiting
            <7> QED
              BY <7>1, MinIsThere
          <6> HIDE DEF waiting
          <6> QED
            BY <1>5, <1>10, <4>1, <6>1, <6>2
        <5> QED
          BY <5>1
      <4>3. open[j].id # m.id /\ open[j].id \in Courses
        BY <1>1, <1>4, <1>5, <4>1 DEF Scraped
      <4>4. progress[open[j].id] = NoProgress
        BY <1>1, <1>5, <4>2 DEF Scraped
      <4> QED
        BY <1>13, <4>3, <4>4
    <3> QED
      BY <1>1, <1>5, <1>12, <1>13, <1>17, <3>1 DEF Scraped
  <2>4. Scraped(merged, open, step2, progress2, lost, b, until)'
    <3>1. until <= until
      BY <1>8
    <3> QED
      BY <1>3, <1>7, <1>8, <2>3, <3>1, ScrapedStays
  <2>5. Complete(merged, hid)'
    BY <1>1, CompleteStays
  <2>6. ShownIsTrue'
    BY <1>3, <2>1, ShownStays
  <2>7. Since(b)'
    BY <1>1 DEF Since
  <2>8. ScrapePhase'
    <3>1. listing' = l /\ today' = until
      OBVIOUS
    <3>2. Scraped(merged, open, step2, progress2, lost, b, today)'
      BY <2>4, <3>1
    <3> QED
      BY <2>2, <2>5, <2>7, <3>1, <3>2 DEF ScrapePhase
  <2> QED
    BY <1>2, <2>6, <2>8 DEF CoursesInv
<1> QED
  BY <1>18, <1>19

\* A step that leaves the request where it is: a day passes, the student hides
\* a course or brings it back.
LEMMA RequestStays ==
    ASSUME CoursesInv, CoursesAreTyped', SameCourses, shown' = shown,
           today' \in Nat, today <= today', listing'.phase = listing.phase,
           listing.phase # "idle" =>
              /\ DOMAIN listing' = DOMAIN listing
              /\ \A field \in {"began", "lists", "merged", "open", "step", "progress", "failed"} :
                    listing'[field] = listing[field]
              /\ listing.hid \subseteq listing'.hid
              /\ \A c \in Courses \ listing'.hid : course'[c] = course[c]
    PROVE  CoursesInv'
<1> PICK hid, hid2, b, until, later : /\ hid = listing.hid /\ hid2 = listing'.hid
                                      /\ b = listing.began /\ until = today /\ later = today'
  OBVIOUS
<1>1. ShownIsTrue'
  BY ShownStays DEF CoursesInv
<1>2. today' \in Nat \ {0}
  BY DEF CoursesInv
<1>3. Since(b) => Since(b)'
  BY DEF Since, CoursesInv
<1>4. CASE listing.phase = "idle"
  BY <1>1, <1>2, <1>4 DEF CoursesInv
<1>5. CASE TimelinePhase
  <2> PICK lists : lists = listing.lists
    OBVIOUS
  <2>1. listing'.lists = lists /\ listing'.began = b /\ listing'.hid = hid2
        /\ listing'.phase = "timeline" /\ {"lists", "hid"} \subseteq DOMAIN listing'
    BY <1>5 DEF TimelinePhase
  <2>2. ASSUME NEW class \in Classes
        PROVE  lists[class] = NoAnswer \/ OfClass(lists[class], class, hid2)'
    <3> PICK list : list = lists[class]
      OBVIOUS
    <3>1. list = NoAnswer \/ OfClass(list, class, hid)
      BY <1>5 DEF TimelinePhase
    <3>2. hid \subseteq hid2 /\ \A c \in Courses \ hid2 : course'[c] = course[c]
      BY <1>5 DEF TimelinePhase
    <3> QED
      BY <3>1, <3>2, ClassStays
  <2>3. TimelinePhase'
    BY <1>3, <1>5, <2>1, <2>2 DEF TimelinePhase
  <2> QED
    BY <1>1, <1>2, <2>3 DEF CoursesInv
<1>6. CASE BatchPhase
  <2> PICK merged : merged = listing.merged
    OBVIOUS
  <2>1. listing'.merged = merged /\ listing'.began = b /\ listing'.hid = hid2
        /\ listing'.phase = "batch" /\ "hid" \in DOMAIN listing'
    BY <1>6 DEF BatchPhase
  <2>2. hid \subseteq hid2 /\ \A c \in Courses \ hid2 : course'[c] = course[c]
    BY <1>6 DEF BatchPhase
  <2>3. Complete(merged, hid)
    BY <1>6 DEF BatchPhase
  <2>4. Complete(merged, hid2)'
    BY <2>2, <2>3, CompleteStays
  <2>5. BatchPhase'
    BY <1>3, <1>6, <2>1, <2>4 DEF BatchPhase
  <2> QED
    BY <1>1, <1>2, <2>5 DEF CoursesInv
<1>7. CASE ScrapePhase
  <2> PICK merged, open, step, progress, failed :
         /\ merged = listing.merged /\ open = listing.open /\ step = listing.step
         /\ progress = listing.progress /\ failed = listing.failed
    OBVIOUS
  <2>1. /\ listing'.merged = merged /\ listing'.began = b /\ listing'.hid = hid2
        /\ listing'.open = open /\ listing'.step = step /\ listing'.progress = progress
        /\ listing'.failed = failed /\ listing'.phase = "scrape"
        /\ {"hid", "step", "progress", "failed"} \subseteq DOMAIN listing'
    BY <1>7 DEF ScrapePhase
  <2>2. hid \subseteq hid2 /\ \A c \in Courses \ hid2 : course'[c] = course[c]
    BY <1>7 DEF ScrapePhase
  <2>3. Complete(merged, hid) /\ Since(b) /\ Scraped(merged, open, step, progress, failed, b, until)
    BY <1>7 DEF ScrapePhase
  <2>4. Complete(merged, hid2)'
    BY <2>2, <2>3, CompleteStays
  <2>5. Scraped(merged, open, step, progress, failed, b, later)'
    <3>1. b \in Nat /\ until \in Nat /\ later \in Nat /\ until <= later
      BY <2>3 DEF Since, CoursesInv
    <3>2. \E n \in Nat : merged \in [1..n -> [id : Courses, past : BOOLEAN]]
      BY <2>3 DEF Complete
    <3> QED
      BY <2>3, <3>1, <3>2, ScrapedStays
  <2>6. ScrapePhase'
    <3>1. Scraped(merged, open, step, progress, failed, b, today)'
      BY <2>5
    <3>2. Since(b)'
      BY <1>3, <2>3
    <3> QED
      BY <2>1, <2>4, <3>1, <3>2 DEF ScrapePhase
  <2> QED
    BY <1>1, <1>2, <2>6 DEF CoursesInv
<1> QED
  BY <1>4, <1>5, <1>6, <1>7 DEF CoursesInv, Idle

\* A worker goes on to the next way to its course's page.
LEMMA WorkerGoesOn ==
    ASSUME NEW i, NEW next, next # "done", CoursesInv, ScrapePhase,
           i \in DOMAIN listing.step, listing.step[i] # "done",
           listing' = [listing EXCEPT !.step[i] = next], UNCHANGED <<course, today, shown>>
    PROVE  CoursesInv'
<1> PICK merged, hid, b, until, open, step, progress, failed :
       /\ merged = listing.merged /\ hid = listing.hid /\ b = listing.began /\ until = today
       /\ open = listing.open /\ step = listing.step /\ progress = listing.progress
       /\ failed = listing.failed
  OBVIOUS
<1> PICK step2 : step2 = [step EXCEPT ![i] = next]
  OBVIOUS
<1>1. Complete(merged, hid) /\ Since(b) /\ Scraped(merged, open, step, progress, failed, b, until)
  BY DEF ScrapePhase
<1>2. CoursesAreTyped' /\ today' \in Nat \ {0} /\ SameCourses
  BY DEF CoursesInv, CoursesAreTyped, SameCourses
<1>3. ShownIsTrue'
  BY <1>2, ShownStays DEF CoursesInv
<1>4. /\ listing'.phase = "scrape" /\ listing'.merged = merged /\ listing'.began = b
      /\ listing'.hid = hid /\ listing'.open = open /\ listing'.step = step2
      /\ listing'.progress = progress /\ listing'.failed = failed
      /\ {"hid", "step", "progress", "failed"} \subseteq DOMAIN listing'
  <2>1. listing.phase = "scrape" /\ {"hid", "step", "progress", "failed"} \subseteq DOMAIN listing
    BY DEF ScrapePhase
  <2> QED
    BY <2>1
<1>5. DOMAIN step2 = DOMAIN step /\ \A j \in DOMAIN step : step[j] # "done" <=> step2[j] # "done"
  OBVIOUS
<1>6. Scraped(merged, open, step2, progress, failed, b, until)
  BY <1>1, <1>5 DEF Scraped
<1>7. Scraped(merged, open, step2, progress, failed, b, until)'
  <2>1. b \in Nat /\ until \in Nat /\ until <= until
    BY <1>1 DEF Since, CoursesInv
  <2>2. \E n \in Nat : merged \in [1..n -> [id : Courses, past : BOOLEAN]]
    BY <1>1 DEF Complete
  <2> QED
    BY <1>2, <1>6, <2>1, <2>2, ScrapedStays
<1>8. Complete(merged, hid)'
  BY <1>1, CompleteStays
<1>9. Since(b)'
  BY <1>1 DEF Since
<1>10. ScrapePhase'
  <2>1. Scraped(merged, open, step2, progress, failed, b, today)'
    BY <1>7
  <2> QED
    BY <1>4, <1>8, <1>9, <2>1 DEF ScrapePhase
<1> QED
  BY <1>2, <1>3, <1>10 DEF CoursesInv

LEMMA TimelineKeeps ==
    ASSUME NEW class \in Classes, CoursesInv, TimelineAnswers(class)
    PROVE  CoursesInv'
<1> PICK old, hid, b, until : /\ old = listing.lists /\ hid = listing.hid
                              /\ b = listing.began /\ until = today
  OBVIOUS
<1>1. TimelinePhase /\ listing.phase = "timeline" /\ course' = course /\ today' = today
  BY DEF TimelineAnswers, CoursesInv, BatchPhase, ScrapePhase
<1>2. CoursesAreTyped /\ CoursesAreTyped' /\ today' \in Nat \ {0} /\ SameCourses /\ until \in Nat
  BY <1>1 DEF CoursesInv, CoursesAreTyped, SameCourses
<1>3. Since(b) /\ Since(b)' /\ b \in Nat
  BY <1>1 DEF TimelinePhase, Since
<1> PICK answered : answered = Timeline(class)
  OBVIOUS
<1>4. OfClass(answered, class, hid) /\ answered # NoAnswer
  BY <1>2, TimelineIsOfClass
<1> PICK lists : lists = [old EXCEPT ![class] = answered]
  OBVIOUS
<1>5. /\ lists = [k \in Classes |-> lists[k]]
      /\ \A k \in Classes : lists[k] = IF k = class THEN answered ELSE old[k]
  BY <1>1 DEF TimelinePhase
<1>6. \A k \in Classes : lists[k] = NoAnswer \/ OfClass(lists[k], k, hid)
  BY <1>1, <1>4, <1>5 DEF TimelinePhase
<1>7. \/ listing' = [listing EXCEPT !.lists = lists] /\ shown' = shown
      \/ NoAnswer \notin {lists[k] : k \in Classes} /\ Merged(lists) = <<>> /\ Give(<<>>, {})
      \/ /\ NoAnswer \notin {lists[k] : k \in Classes}
         /\ listing' = [phase |-> "batch", calls |-> listing.calls, hid |-> listing.hid,
                        began |-> listing.began, merged |-> Merged(lists)]
         /\ shown' = shown
  BY DEF TimelineAnswers
<1>8. CASE listing' = [listing EXCEPT !.lists = lists] /\ shown' = shown
  <2>1. /\ listing'.phase = "timeline" /\ {"lists", "hid"} \subseteq DOMAIN listing'
        /\ listing'.lists = lists /\ listing'.began = b /\ listing'.hid = hid
    BY <1>1, <1>8 DEF TimelinePhase
  <2>2. ASSUME NEW k \in Classes
        PROVE  lists[k] = NoAnswer \/ OfClass(lists[k], k, hid)'
    <3> PICK list : list = lists[k]
      OBVIOUS
    <3> QED
      BY <1>1, <1>6, ClassStays
  <2>3. TimelinePhase'
    BY <1>3, <1>5, <2>1, <2>2 DEF TimelinePhase
  <2>4. ShownIsTrue'
    BY <1>2, <1>8, ShownStays DEF CoursesInv
  <2> QED
    BY <1>2, <2>3, <2>4 DEF CoursesInv
<1>9. CASE NoAnswer \notin {lists[k] : k \in Classes}
  <2> PICK merged : merged = Merged(lists)
    OBVIOUS
  <2>1. \A k \in Classes : OfClass(lists[k], k, hid)
    BY <1>6, <1>9
  <2>2. Complete(merged, hid)
    BY <1>2, <2>1, MergedIsComplete
  <2>3. CASE merged = <<>> /\ Give(<<>>, {})
    <3> PICK progress, list : progress = [c \in Courses |-> NoProgress]
                              /\ list = WithProgress(merged, progress)
      OBVIOUS
    <3>1. list = <<>>
      BY <2>3 DEF WithProgress
    <3>2. Give(list, {})
      BY <2>3, <3>1
    <3>3. \A k \in DOMAIN merged :
             \/ OnADay(merged[k].id, merged[k].past, progress[merged[k].id], listing.began, today)
             \/ progress[merged[k].id] = NoProgress /\ merged[k].id \in {}
      BY <2>3
    <3>4. Since(listing.began) /\ today \in Nat
      BY <1>2, <1>3
    <3>5. ShownIsTrue'
      BY <1>1, <2>2, <3>2, <3>3, <3>4, GivenIsTrue
    <3>6. listing'.phase = "idle"
      BY <2>3 DEF Give, Idle
    <3> QED
      BY <1>2, <3>5, <3>6 DEF CoursesInv
  <2>4. CASE /\ listing' = [phase |-> "batch", calls |-> listing.calls, hid |-> listing.hid,
                            began |-> listing.began, merged |-> Merged(lists)]
             /\ shown' = shown
    <3>1. /\ listing'.phase = "batch" /\ "hid" \in DOMAIN listing'
          /\ listing'.merged = merged /\ listing'.began = b /\ listing'.hid = hid
      BY <2>4
    <3>2. Complete(merged, hid)'
      BY <1>1, <2>2, CompleteStays
    <3>3. BatchPhase'
      BY <1>3, <3>1, <3>2 DEF BatchPhase
    <3>4. ShownIsTrue'
      BY <1>2, <2>4, ShownStays DEF CoursesInv
    <3> QED
      BY <1>2, <3>3, <3>4 DEF CoursesInv
  <2>5. CASE listing' = [listing EXCEPT !.lists = lists] /\ shown' = shown
    BY <1>8, <2>5
  <2> QED
    BY <1>7, <2>3, <2>4, <2>5
<1> QED
  BY <1>7, <1>8, <1>9

LEMMA BatchFailureKeeps == CoursesInv /\ BatchFails => CoursesInv'
<1> SUFFICES ASSUME CoursesInv, BatchFails PROVE CoursesInv'
  OBVIOUS
<1> PICK merged, progress : merged = listing.merged /\ progress = [c \in Courses |-> NoProgress]
  OBVIOUS
<1>1. BatchPhase /\ UNCHANGED <<course, today>> /\ Scrape(merged, progress)
  BY DEF BatchFails, CoursesInv, TimelinePhase, ScrapePhase
<1>2. Complete(merged, listing.hid)
  BY <1>1 DEF BatchPhase
<1>3. PICK n \in Nat : merged \in [1..n -> [id : Courses, past : BOOLEAN]]
  BY <1>2 DEF Complete
<1>4. \A i \in DOMAIN merged : progress[merged[i].id] = NoProgress
  BY <1>3
<1>5. \A i, j \in DOMAIN merged : merged[i].id = merged[j].id => i = j
  BY <1>2 DEF Complete
<1>6. progress = [c \in Courses |-> progress[c]]
  OBVIOUS
<1>7. LeftOpen(merged, merged, progress, listing.began, today)
  BY <1>3, <1>4, <1>5, <1>6 DEF LeftOpen
<1>8. LeftOpen(listing.merged, merged, progress, listing.began, today)
  BY <1>7
<1> QED
  BY <1>1, <1>8, ScrapeStarts

LEMMA BatchKeeps == CoursesInv /\ BatchAnswers => CoursesInv'
<1> SUFFICES ASSUME CoursesInv, BatchAnswers PROVE CoursesInv'
  OBVIOUS
<1>1. BatchPhase /\ UNCHANGED <<course, today>>
  BY DEF BatchAnswers, CoursesInv, TimelinePhase, ScrapePhase
<1> DEFINE entriesOf(n, answers) ==
              [i \in 1..n |-> [answer |-> answers[i], of |-> listing.merged[i].id]]
           GoodOf(n, answers, i) == {e \in EntryOf(entriesOf(n, answers), i) : e.answer = "state"}
           MeasuredOf(n, answers, i) ==
              LET e == CHOOSE x \in GoodOf(n, answers, i) : TRUE IN
              parseSectionProgress(mapCourseStateJson(course[e.of].content),
                                   today, listing.merged[i].past)
           index == [c \in {m.id : m \in ToSet(listing.merged)} |->
                        CHOOSE i \in DOMAIN listing.merged : listing.merged[i].id = c]
           Left(n, answers) == {i \in DOMAIN listing.merged : GoodOf(n, answers, i) = {}}
           Known(n, answers) ==
              [c \in Courses |-> IF c \in DOMAIN index /\ GoodOf(n, answers, index[c]) # {}
                                 THEN MeasuredOf(n, answers, index[c]) ELSE NoProgress]
<1>2. \E n \in 0..Len(listing.merged) :
       \E answers \in [1..n -> {"state", "error", "malformed"}] :
          Scrape(Picked(listing.merged, Left(n, answers)), Known(n, answers))
  BY Zenon DEF BatchAnswers
<1>3. PICK n \in 0..Len(listing.merged) :
          \E answers \in [1..n -> {"state", "error", "malformed"}] :
             Scrape(Picked(listing.merged, Left(n, answers)), Known(n, answers))
  BY Zenon, <1>2
<1>4. PICK answers \in [1..n -> {"state", "error", "malformed"}] :
         Scrape(Picked(listing.merged, Left(n, answers)), Known(n, answers))
  BY Zenon, <1>3
<1> PICK merged, hid, b, until : /\ merged = listing.merged /\ hid = listing.hid
                                 /\ b = listing.began /\ until = today
  OBVIOUS
<1>5. Complete(merged, hid) /\ Since(b)
  BY <1>1 DEF BatchPhase
<1>6. PICK q \in Nat : merged \in [1..q -> [id : Courses, past : BOOLEAN]]
  BY <1>5 DEF Complete
<1>7. DOMAIN merged = 1..q /\ Len(merged) = q /\ n \in 0..q
  BY <1>6
<1> DEFINE Good(i) == GoodOf(n, answers, i)
           Measured(i) == MeasuredOf(n, answers, i)
<1>8. \A i \in 1..q : Good(i) # {} => \A e \in Good(i) : e.of = merged[i].id
  <2> SUFFICES ASSUME NEW i \in 1..q, NEW e \in Good(i) PROVE e.of = merged[i].id
    OBVIOUS
  <2>1. e \in EntryOf(entriesOf(n, answers), i)
    OBVIOUS
  <2>2. i \in 1..n /\ e = entriesOf(n, answers)[i]
    BY <2>1 DEF EntryOf
  <2> QED
    BY <2>2
<1>9. \A i \in 1..q : Good(i) # {} =>
         Measured(i) = parseSectionProgress(mapCourseStateJson(course[merged[i].id].content),
                                            until, merged[i].past)
  <2> SUFFICES ASSUME NEW i \in 1..q, Good(i) # {}
               PROVE  Measured(i) = parseSectionProgress(
                         mapCourseStateJson(course[merged[i].id].content), until, merged[i].past)
    OBVIOUS
  <2> PICK e : e = CHOOSE x \in Good(i) : TRUE
    OBVIOUS
  <2>1. e \in Good(i)
    OBVIOUS
  <2>2. e.of = merged[i].id
    BY <1>8, <2>1
  <2>3. Measured(i) = parseSectionProgress(mapCourseStateJson(course[e.of].content),
                                           until, merged[i].past)
    OBVIOUS
  <2> QED
    BY <2>2, <2>3
<1>10. /\ \A k \in 1..q : merged[k].id \in DOMAIN index /\ index[merged[k].id] = k
      /\ DOMAIN index = {m.id : m \in ToSet(merged)}
  <2> SUFFICES ASSUME NEW k \in 1..q
               PROVE  merged[k].id \in DOMAIN index /\ index[merged[k].id] = k
    OBVIOUS
  <2>1. merged[k].id \in DOMAIN index
    BY <1>7 DEF ToSet
  <2>2. index[merged[k].id] = CHOOSE i \in DOMAIN merged : merged[i].id = merged[k].id
    BY <2>1
  <2>3. \A i \in DOMAIN merged : merged[i].id = merged[k].id <=> i = k
    BY <1>5, <1>7 DEF Complete
  <2> QED
    BY <1>7, <2>1, <2>2, <2>3
<1> HIDE DEF index
<1> PICK left, open, progress : /\ left = Left(n, answers) /\ open = Picked(merged, left)
                                /\ progress = Known(n, answers)
  OBVIOUS
<1>11. left \in SUBSET (1..q) /\ \A i \in 1..q : i \in left <=> Good(i) = {}
  BY <1>7
<1>12. \A k \in 1..q : progress[merged[k].id] = IF Good(k) # {} THEN Measured(k) ELSE NoProgress
  <2> TAKE k \in 1..q
  <2>1. merged[k].id \in Courses
    BY <1>6
  <2> HIDE DEF GoodOf, MeasuredOf, entriesOf
  <2> PICK c : c = merged[k].id
    OBVIOUS
  <2>2. progress[c] = IF c \in DOMAIN index /\ GoodOf(n, answers, index[c]) # {}
                      THEN MeasuredOf(n, answers, index[c]) ELSE NoProgress
    BY <2>1
  <2>3. c \in DOMAIN index /\ index[c] = k
    BY <1>10
  <2> QED
    BY <2>2, <2>3
<1>13. progress = [c \in Courses |-> progress[c]]
  OBVIOUS
<1>14. Scrape(open, progress)
  BY <1>4
<1> HIDE DEF Good, Measured, GoodOf, MeasuredOf, entriesOf, Left, Known
<1> DEFINE p == Cardinality(left)
<1>15. PICK f : PicksOut(f, p, merged, left, [id : Courses, past : BOOLEAN])
  BY <1>6, <1>11, PickedAre
<1>16. /\ p \in Nat /\ open \in [1..p -> [id : Courses, past : BOOLEAN]]
       /\ \A k \in 1..p : open[k] = merged[f[k]] /\ f[k] \in left
       /\ \A k, l \in 1..p : f[k] = f[l] => k = l
       /\ \A i \in left : \E k \in 1..p : f[k] = i
  BY <1>15 DEF PicksOut
<1> HIDE DEF p
<1>17. DOMAIN open = 1..p
  BY <1>16
<1>18. \A i \in 1..p : f[i] \in 1..q /\ open[i] = merged[f[i]]
  BY <1>11, <1>16
<1>19. \A i \in DOMAIN open : \E k \in DOMAIN merged : open[i] = merged[k]
  BY <1>7, <1>17, <1>18
<1>20. \A i, j \in DOMAIN open : open[i].id = open[j].id => i = j
  <2>1. \A k, l \in 1..q : merged[k].id = merged[l].id => k = l
    BY <1>5, <1>7 DEF Complete
  <2>2. ASSUME NEW i \in 1..p, NEW j \in 1..p, open[i].id = open[j].id
        PROVE  f[i] = f[j]
    <3> PICK fi, fj : fi = f[i] /\ fj = f[j]
      OBVIOUS
    <3>1. fi \in 1..q /\ fj \in 1..q /\ open[i] = merged[fi] /\ open[j] = merged[fj]
      BY <1>18
    <3>2. merged[fi].id = merged[fj].id
      BY <2>2, <3>1
    <3> QED
      BY <2>1, <3>1, <3>2
  <2> QED
    BY <1>16, <1>17, <2>2
<1>21. \A i \in DOMAIN open : progress[open[i].id] = NoProgress
  BY <1>11, <1>12, <1>16, <1>17
<1>22. ASSUME NEW k \in DOMAIN merged
       PROVE  \/ OnADay(merged[k].id, merged[k].past, progress[merged[k].id], b, until)
              \/ \E i \in DOMAIN open : open[i] = merged[k]
  <2>1. k \in 1..q
    BY <1>7
  <2>2. CASE k \in left
    BY <1>16, <1>17, <2>2
  <2>3. CASE k \notin left
    <3>1. progress[merged[k].id] = parseSectionProgress(
             mapCourseStateJson(course[merged[k].id].content), until, merged[k].past)
      BY <1>9, <1>11, <1>12, <2>1, <2>3
    <3>2. until \in b..until
      BY <1>5 DEF Since, CoursesInv
    <3> QED
      BY <3>1, <3>2 DEF OnADay
  <2> QED
    BY <2>2, <2>3
<1>23. \E w \in Nat : open \in [1..w -> [id : Courses, past : BOOLEAN]]
  BY <1>16
<1>24. LeftOpen(merged, open, progress, b, until)
  BY <1>13, <1>19, <1>20, <1>21, <1>22, <1>23 DEF LeftOpen
<1>25. LeftOpen(listing.merged, open, progress, listing.began, today)
  BY <1>24
<1> QED
  BY <1>1, <1>14, <1>25, ScrapeStarts

LEMMA WorkersKeep ==
    ASSUME NEW i, CoursesInv,
           \/ ReadContent(i) \/ ContentFromJson(i) \/ JsonFails(i)
           \/ ContentFromHTML(i) \/ HtmlFails(i)
    PROVE  CoursesInv'
<1> PICK c, m : m = listing.open[i] /\ c = m.id
  OBVIOUS
<1>1. /\ ScrapePhase /\ i \in DOMAIN listing.step /\ listing.step[i] # "done"
      /\ UNCHANGED <<course, today>>
  <2>1. listing.phase = "scrape" /\ i \in DOMAIN listing.step /\ listing.step[i] # "done"
    BY DEF ReadContent, ContentFromJson, JsonFails, ContentFromHTML, HtmlFails, At
  <2>2. UNCHANGED <<course, today>>
    BY DEF ReadContent, ContentFromJson, JsonFails, ContentFromHTML, HtmlFails
  <2> QED
    BY <2>1, <2>2 DEF CoursesInv, TimelinePhase, BatchPhase
<1>2. i \in DOMAIN listing.open /\ c \in Courses
  <2>1. Scraped(listing.merged, listing.open, listing.step, listing.progress,
                listing.failed, listing.began, today)
    BY <1>1 DEF ScrapePhase
  <2> PICK open : open = listing.open
    OBVIOUS
  <2>2. (\E n \in Nat : open \in [1..n -> [id : Courses, past : BOOLEAN]])
        /\ DOMAIN listing.step = DOMAIN open
    BY <2>1 DEF Scraped
  <2> QED
    BY <1>1, <2>2
<1>3. CASE ReadContent(i) \/ ContentFromJson(i)
  <2>1. CASE WorkerDone(i, mapCourseStateJson(course[c].content), {})
    BY <1>1, <1>2, <2>1, WorkerDoneKeeps
  <2>2. CASE listing' = [listing EXCEPT !.step[i] = "json"] /\ UNCHANGED shown
    BY <1>1, <2>2, WorkerGoesOn
  <2> QED
    BY <1>3, <2>1, <2>2 DEF ReadContent, ContentFromJson
<1>4. CASE JsonFails(i)
  <2>1. listing' = [listing EXCEPT !.step[i] = "html"] /\ UNCHANGED shown
    BY <1>4 DEF JsonFails
  <2> QED
    BY <1>1, <2>1, WorkerGoesOn
<1>5. CASE ContentFromHTML(i)
  <2> PICK sections : sections = parseContentHtml(Page(course[c].content))
    OBVIOUS
  <2>1. WorkerDone(i, sections, {})
    BY <1>5 DEF ContentFromHTML
  <2>2. course[c].content \in Contents
    BY <1>2 DEF CoursesInv, CoursesAreTyped
  <2>3. RenderingsMeasureAlike =>
          parseSectionProgress(sections, today, m.past)
          = parseSectionProgress(mapCourseStateJson(course[c].content), today, m.past)
    BY <2>2 DEF RenderingsMeasureAlike
  <2> QED
    BY <1>1, <1>2, <2>1, <2>3, WorkerDoneKeeps
<1>6. CASE HtmlFails(i)
  <2>1. WorkerDone(i, <<>>, {c})
    BY <1>6 DEF HtmlFails
  <2> QED
    BY <1>1, <1>2, <2>1, WorkerDoneKeeps
<1> QED
  BY <1>3, <1>4, <1>5, <1>6

LEMMA CoursesKeep ==
    ASSUME CoursesInv, [CoursesNext]_courseVars
    PROVE  CoursesInv'
<1>1. CASE BeginList
  <2> PICK lists, b : lists = [class \in Classes |-> NoAnswer] /\ b = today
    OBVIOUS
  <2>1. /\ listing' = [phase |-> "timeline", calls |-> listing.calls + 1, began |-> b,
                       lists |-> lists, hid |-> {}]
        /\ UNCHANGED <<course, today, shown>>
    BY <1>1 DEF BeginList
  <2>2. /\ listing'.phase = "timeline" /\ {"lists", "hid"} \subseteq DOMAIN listing'
        /\ listing'.lists = lists /\ listing'.began = b
    BY <2>1
  <2>3. Since(b)'
    BY <2>1 DEF Since, CoursesInv
  <2>4. \A class \in Classes : lists[class] = NoAnswer
    OBVIOUS
  <2>5. lists = [class \in Classes |-> lists[class]]
    OBVIOUS
  <2>6. TimelinePhase'
    BY <2>2, <2>3, <2>4, <2>5 DEF TimelinePhase
  <2>7. SameCourses /\ CoursesAreTyped' /\ today' \in Nat \ {0}
    BY <2>1 DEF SameCourses, CoursesInv, CoursesAreTyped
  <2>8. ShownIsTrue'
    BY <2>1, <2>7, ShownStays DEF CoursesInv
  <2> QED
    BY <2>6, <2>7, <2>8 DEF CoursesInv
<1>2. CASE TimelineFails
  <2>1. listing'.phase = "idle" /\ UNCHANGED <<course, today, shown>>
    BY <1>2 DEF TimelineFails, Idle
  <2>2. SameCourses /\ CoursesAreTyped' /\ today' \in Nat \ {0}
    BY <2>1 DEF SameCourses, CoursesInv, CoursesAreTyped
  <2>3. ShownIsTrue'
    BY <2>1, <2>2, ShownStays DEF CoursesInv
  <2> QED
    BY <2>1, <2>2, <2>3 DEF CoursesInv
<1>3. CASE BatchAnswers
  BY <1>3, BatchKeeps
<1>4. CASE BatchFails
  BY <1>4, BatchFailureKeeps
<1>5. CASE NextDay \/ UNCHANGED <<course, today, listing, shown>>
  <2>1. UNCHANGED <<course, listing, shown>> /\ today' \in Nat /\ today <= today'
    BY <1>5 DEF NextDay, CoursesInv
  <2>2. SameCourses /\ CoursesAreTyped'
    BY <2>1 DEF SameCourses, CoursesInv, CoursesAreTyped
  <2> QED
    BY <2>1, <2>2, RequestStays
<1>6. ASSUME NEW class \in Classes, TimelineAnswers(class) PROVE CoursesInv'
  BY <1>6, TimelineKeeps
<1>7. ASSUME NEW i \in 1..Cardinality(Courses),
             ReadContent(i) \/ ContentFromJson(i) \/ JsonFails(i) \/ ContentFromHTML(i) \/ HtmlFails(i)
      PROVE  CoursesInv'
  BY <1>7, WorkersKeep
<1>8. ASSUME NEW c \in Courses, Hide(c) PROVE CoursesInv'
  <2>1. /\ course' = [course EXCEPT ![c].hidden = ~ course[c].hidden]
        /\ listing' = [listing EXCEPT !.hid = listing.hid \cup {c}]
        /\ UNCHANGED <<today, shown>> /\ listing.phase # "idle"
    BY <1>8 DEF Hide
  <2>2. "hid" \in DOMAIN listing
    BY <2>1 DEF CoursesInv, TimelinePhase, BatchPhase, ScrapePhase
  <2>3. /\ listing'.phase = listing.phase /\ DOMAIN listing' = DOMAIN listing
        /\ \A field \in {"began", "lists", "merged", "open", "step", "progress", "failed"} :
              listing'[field] = listing[field]
        /\ listing'.hid = listing.hid \cup {c}
    BY <2>1, <2>2
  <2>4. \A d \in Courses \ {c} : course'[d] = course[d]
    BY <2>1 DEF CoursesInv, CoursesAreTyped
  <2>5. SameCourses /\ CoursesAreTyped'
    BY <2>1 DEF CoursesInv, CoursesAreTyped, SameCourses
  <2>6. today' \in Nat /\ today <= today'
    BY <2>1 DEF CoursesInv
  <2>7. listing.hid \subseteq listing'.hid
        /\ \A d \in Courses \ listing'.hid : course'[d] = course[d]
    BY <2>3, <2>4
  <2> QED
    BY <2>1, <2>3, <2>5, <2>6, <2>7, RequestStays
<1>9. ASSUME NEW c \in Courses, CourseOpened(c) \/ Expires(c) PROVE CoursesInv'
  BY <1>5, <1>9 DEF CourseOpened, Expires
<1>10. CASE UNCHANGED courseVars
  BY <1>5, <1>10 DEF courseVars
<1> QED
  BY <1>1, <1>2, <1>3, <1>4, <1>5, <1>6, <1>7, <1>8, <1>9, <1>10 DEF CoursesNext

-----------------------------------------------------------------------------
(* The parts together.                                                       *)

LEMMA ServerUntouched ==
    ASSUME ServerInv, UNCHANGED serverVars
    PROVE  ServerInv'
BY DEF ServerInv, serverVars

LEMMA SpinnersUntouched ==
    ASSUME SpinnerInv, UNCHANGED viewVars
    PROVE  SpinnerInv'
BY DEF SpinnerInv, viewVars, UnderWay

LEMMA PanelUntouched ==
    ASSUME PanelInv, UNCHANGED panel
    PROVE  PanelInv'
BY DEF PanelInv, PanelShape, LoneLoad

LEMMA PageUntouched ==
    ASSUME ViewInv, UNCHANGED <<view, clock, outline>>
    PROVE  ViewInv'
BY OpenedStays DEF ViewInv, ViewShape, OwnContent, NeverBlank, OpenedAtFirst

ServicesInv ==
    /\ CardInv /\ PanelInv /\ ViewInv /\ ServerInv /\ SpinnerInv /\ RespInv
    /\ WorkInv /\ hour \in Int
    /\ RecordsInv /\ GradesArePast
    /\ CoursesInv

LEMMA ServicesInitially == ServicesInit => ServicesInv
<1> SUFFICES ASSUME ServicesInit PROVE ServicesInv
  OBVIOUS
<1>1. ScreensInit /\ Init /\ DashInit /\ CardInit
  BY DEF ServicesInit
<1>2. RespInv
  BY <1>1, ResponsesInitially DEF Init
<1>3. WorkInit /\ RecordsInit /\ CoursesInit
  BY DEF ServicesInit
<1>4. hour \in Int
  BY <1>3, CourseworkAssumption DEF WorkInit
<1> QED
  BY <1>1, <1>2, <1>3, <1>4, CardInitially, PanelInitially, PageInitially, ServerInitially,
     SpinnersInitially, WorkInitially, RecordsInitially, GradesInitially, CoursesInitially
     DEF ServicesInv

LEMMA ServicesKeep == ServicesInv /\ [ServicesNext]_servicesVars => ServicesInv'
<1> SUFFICES ASSUME ServicesInv, [ServicesNext]_servicesVars PROVE ServicesInv'
  OBVIOUS
<1>1. [CardNext]_cardVars
  BY DEF ServicesNext, servicesVars
<1>2. [PanelNext]_screenVars \/ UNCHANGED panel
  BY DEF ServicesNext, servicesVars, screenVars, CourseViewNext, Wiped, relogin, Recovers,
         RecoveryFails, Remount, GoTo, ListsSettle, ContentAnswers
<1>3. [CourseViewNext]_screenVars \/ UNCHANGED <<view, clock, outline>>
  BY DEF ServicesNext, servicesVars, screenVars, PanelNext, ClosePanel, OpenPanel, DetailAnswers
<1>4. [ServerNext]_dashVars \/ UNCHANGED serverVars
  BY DEF ServicesNext, servicesVars, dashVars, ViewNext, load, runSlice
<1>5. [ViewNext]_dashVars \/ UNCHANGED viewVars
  BY DEF ServicesNext, servicesVars, dashVars, ServerNext, SessionDies, SliceEnds
<1>6. [Next]_vars
  BY DEF ServicesNext, servicesVars
<1>7. CardInv'
  BY <1>1, CardKeeps DEF ServicesInv
<1>8. PanelInv'
  BY <1>2, PanelKeeps, PanelUntouched DEF ServicesInv
<1>9. ViewInv'
  BY <1>3, ViewKeeps, PageUntouched DEF ServicesInv
<1>10. ServerInv'
  BY <1>4, ServerKeeps, ServerUntouched DEF ServicesInv
<1>11. SpinnerInv'
  BY <1>5, SpinnersKeep, SpinnersUntouched DEF ServicesInv
<1>12. RespInv'
  BY <1>6, ResponsesKeep DEF ServicesInv
<1>13. WorkInv' /\ (hour \in Int)'
  <2>1. [WorkNext]_workVars
    BY DEF ServicesNext, servicesVars
  <2> QED
    BY <2>1, WorkKeeps DEF ServicesInv
<1>14. RecordsInv' /\ GradesArePast'
  <2>1. [RecordsNext]_recordVars
    BY DEF ServicesNext, servicesVars
  <2> QED
    BY <2>1, RecordsKeep, GradesKeep DEF ServicesInv
<1>15. CoursesInv'
  <2>1. [CoursesNext]_courseVars
    BY DEF ServicesNext, servicesVars
  <2> QED
    BY <2>1, CoursesKeep DEF ServicesInv
<1> QED
  BY <1>7, <1>8, <1>9, <1>10, <1>11, <1>12, <1>13, <1>14, <1>15 DEF ServicesInv

\* The invariants of the parts hold together: a step of one part leaves the
\* variables of the others alone.
THEOREM ServicesInvariant == ServicesSpec => []ServicesInv
BY ServicesInitially, ServicesKeep, PTL DEF ServicesSpec

\* A session found valid was alive and is nobody else's, an outage is never
\* taken for its end, and each attempt leaves one event.
THEOREM AnswersAreRead == ServicesSpec => []ResponsesAreRead
<1>1. ServicesInv => ResponsesAreRead
  BY DEF ServicesInv, RespInv, ResponsesAreRead
<1> QED
  BY <1>1, ServicesInvariant, PTL

\* The panel, the page of a course and the pairing card show what was asked for
\* last, and no timer outlives them.
THEOREM ScreensShowWhatWasAsked == ServicesSpec => []ScreensHold
<1>1. ServicesInv => ScreensHold
  BY CardTells, PanelShows, PageShows DEF ServicesInv, ScreensHold
<1> QED
  BY <1>1, ServicesInvariant, PTL

\* No payload of the backend hides a dead session among its slices, and the
\* spinners of the web client go on exactly while a load is under way.
THEOREM DashboardTellsTheTruth == ServicesSpec => []DashboardIsHonest
<1>1. ServicesInv => DashboardIsHonest
  BY ServerTells, SpinnersAreTrue DEF ServicesInv, DashboardIsHonest
<1> QED
  BY <1>1, ServicesInvariant, PTL

\* The counts, filters and deadlines of the coursework agree with Moodle and
\* with each other, whenever the list was fetched.
THEOREM CourseworkIsTold == ServicesSpec => []CourseworkAgrees
<1>1. ServicesInv => CourseworkAgrees
  BY CountsHold, DeadlinesHold DEF ServicesInv, CourseworkAgrees
<1> QED
  BY <1>1, ServicesInvariant, PTL

\* A student's records agree: the detail offered with a grade is the grade's, the
\* lecturer of every approved course is known, the charts sum up the same
\* credits, and attendance fits the classes.
THEOREM RecordsAreTold == ServicesSpec => []RecordsAgree
<1>1. ServicesInv => RecordsAgree
  BY DetailsHold, LecturersHold, ChartsHold, AttendanceHolds
     DEF ServicesInv, RecordsAgree, RecordsAddUp
<1> QED
  BY <1>1, ServicesInvariant, PTL

\* Every course that is not touched during the request is in the list once, with
\* the class Moodle has it in.
THEOREM UntouchedStayListed == ServicesSpec => []UntouchedAreListed
<1>1. ServicesInv => UntouchedAreListed
  BY DEF ServicesInv, CoursesInv, ShownIsTrue
<1> QED
  BY <1>1, ServicesInvariant, PTL

\* The list of courses is true, the progress of each its own, of all contents
\* whose two renderings agree: TLC checks that agreement of the contents of the
\* run, where FallbackAgrees states it.
THEOREM CourseListIsTold ==
    ASSUME \A content \in Contents : RenderingsAgree(content)
    PROVE  ServicesSpec => []CourseListIsTrue
<1>1. ServicesInv => CourseListIsTrue
  <2> SUFFICES ASSUME ServicesInv PROVE CourseListIsTrue
    OBVIOUS
  <2>1. ShownIsTrue /\ CoursesAreTyped
    BY DEF ServicesInv, CoursesInv
  <2>2. FallbackAgrees
    BY <2>1 DEF FallbackAgrees, CoursesAreTyped
  <2> QED
    BY <2>1, <2>2, AlikeWhereTheyAgree DEF ShownIsTrue, CourseListIsTrue
<1> QED
  BY <1>1, ServicesInvariant, PTL

=============================================================================
