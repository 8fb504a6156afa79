---------------------- MODULE RedisSessionStoreProofs ----------------------
(***************************************************************************)
(* Proofs about RedisSessionStore, for any number of clients, generations, *)
(* cookies and any lifetimes: type correctness, and that the record goes   *)
(* through the life SessionLife describes.                                 *)
(***************************************************************************)
EXTENDS RedisSessionStore, TLAPS

\* A SET under way carries a session whose generation has been drawn and not
\* been stored yet, and no two carry the same.
FreshSets ==
    /\ stored \subseteq issued \cup {NoGeneration}
    /\ \A c \in Clients :
         client[c].pc = "set" =>
            /\ client[c].call.replacement \in Sessions
            /\ client[c].call.replacement.sessionGeneration \in issued \ stored
    /\ \A c, d \in Clients :
         (/\ c # d
          /\ client[c].pc = "set"
          /\ client[d].pc = "set")
         => client[c].call.replacement.sessionGeneration
                # client[d].call.replacement.sessionGeneration

RecordStored == redis # NoEnvelope => redis.session.sessionGeneration \in stored

\* What is known of the state cl of a client: the envelope it holds past its
\* GET; that a renewal knows what it expects and what it writes; and, when a
\* renewal is about to be written, that the envelope the Lua script compares
\* with holds the very snapshot the caller expects.
Sound(cl) ==
    /\ cl.pc \in {"decide", "slide", "expire", "delete", "replace"}
          => cl.envelope \in Envelopes
    /\ cl.call.op = "set" => cl.pc \in {"set", "done"}
    /\ cl.call.op = "replaceIfUnchanged" =>
          cl.call.expected \in Sessions /\ cl.call.replacement \in Sessions
    /\ cl.pc = "replace" =>
          /\ cl.call.op = "replaceIfUnchanged"
          /\ Decrypt(cl.envelope) = cl.call.expected
          /\ IsUpstreamCookieRenewal(cl.call.generation, cl.call.expected,
                                     cl.call.replacement)

StoreInv ==
    /\ StoreTypeOK
    /\ FreshSets
    /\ RecordStored
    /\ \A c \in Clients : Sound(client[c])

USE LifetimesAssumption, GenerationsAssumption, CookiesAssumption, BoundsAssumption,
    NullsAssumption, CapturesAssumption

-----------------------------------------------------------------------------

\* A login hands over cookies, some of which it may leave out.
Handovers == [ssoCookie : Cookies \cup {NoCookie}, kulonCookie : Cookies,
              siapCookie : Cookies \cup {NoCookie}, other : Others]

LEMMA LoginSessionType ==
    ASSUME StoreTypeOK, NEW generation \in Generations \cup {NoGeneration},
           NEW capture \in Handovers
    PROVE  /\ LoginSession(generation, capture) \in Sessions
           /\ LoginSession(generation, capture).sessionGeneration = generation
BY DEF StoreTypeOK, Handovers, LoginSession, Sessions

LEMMA EnvelopeType ==
    ASSUME NEW iv \in Nat, NEW session \in Sessions
    PROVE  /\ Envelope(iv, session) \in Envelopes
           /\ Envelope(iv, session).session = session
           /\ Decrypt(Envelope(iv, session)) = session
BY DEF Envelope, Envelopes, Decrypt

LEMMA DecryptType ==
    ASSUME NEW envelope \in Envelopes
    PROVE  Decrypt(envelope) \in Sessions \cup {NoSession}
BY DEF Envelopes, Decrypt

LEMMA IdleType == Idle \in ClientStates /\ NoCall \in Calls
BY DEF Idle, NoCall, ClientStates, Calls, Operations, Results

THEOREM StoreInitInv == StoreInit => StoreInv
<1> SUFFICES ASSUME StoreInit PROVE StoreInv
  OBVIOUS
<1>1. redis \in Envelopes \cup {NoEnvelope} /\ RecordStored
  <2>1. CASE redis = NoEnvelope
    BY <2>1 DEF RecordStored
  <2>2. CASE redis # NoEnvelope
    <3>1. PICK capture \in Captures : redis = Envelope(0, LoginSession(NoGeneration, capture))
      BY <2>2 DEF StoreInit
    <3>2. /\ LoginSession(NoGeneration, capture) \in Sessions
          /\ LoginSession(NoGeneration, capture).sessionGeneration = NoGeneration
      BY DEF StoreInit, LoginSession, Sessions
    <3>3. stored = {NoGeneration}
      BY <2>2 DEF StoreInit
    <3> QED
      BY <3>1, <3>2, <3>3, EnvelopeType DEF RecordStored
  <2> QED
    BY <2>1, <2>2
<1>2. StoreTypeOK
  BY <1>1, IdleType DEF StoreInit, StoreTypeOK
<1>3. FreshSets
  BY DEF StoreInit, FreshSets, Idle
<1>4. \A c \in Clients : Sound(client[c])
  BY DEF StoreInit, Sound, Idle, NoCall
<1> QED
  BY <1>1, <1>2, <1>3, <1>4 DEF StoreInv

-----------------------------------------------------------------------------
(* Preservation.  One client moves in a step; Moves says what is left to     *)
(* show about its new state.                                                 *)

LEMMA Moves ==
    ASSUME StoreInv, NEW c \in Clients, NEW cl \in ClientStates,
           client' = [client EXCEPT ![c] = cl], Sound(cl), cl.pc # "set",
           stored' = stored, issued' = issued
    PROVE  /\ client' \in [Clients -> ClientStates]
           /\ FreshSets'
           /\ \A d \in Clients : Sound(client'[d])
<1>1. /\ client \in [Clients -> ClientStates]
      /\ client'[c] = cl
      /\ \A d \in Clients \ {c} : client'[d] = client[d]
  BY DEF StoreInv, StoreTypeOK
<1>2. FreshSets'
  BY <1>1 DEF StoreInv, FreshSets
<1> QED
  BY <1>1, <1>2 DEF StoreInv

LEMMA CallTypes ==
    ASSUME StoreTypeOK, NEW c \in Clients
    PROVE  /\ client[c] \in ClientStates
           /\ client[c].call \in Calls
           /\ client[c].call.op \in Operations
           /\ client[c].read \in Sessions \cup {NoSession}
BY DEF StoreTypeOK, ClientStates, Calls

\* A call that has its answer is in a sound state.
LEMMA FinishSound ==
    ASSUME StoreInv, NEW c \in Clients, NEW result \in Results,
           Finish(c, result), stored' = stored, issued' = issued
    PROVE  /\ client' \in [Clients -> ClientStates]
           /\ FreshSets'
           /\ \A d \in Clients : Sound(client'[d])
<1> DEFINE cl == [client[c] EXCEPT !.pc = "done", !.result = result, !.envelope = NoEnvelope]
<1>0. client[c] \in ClientStates
  BY CallTypes DEF StoreInv
<1>1. cl \in ClientStates
  BY <1>0 DEF ClientStates, Commands
<1>2. Sound(cl)
  BY <1>0 DEF StoreInv, Sound, ClientStates
<1>3. client' = [client EXCEPT ![c] = cl]
  BY <1>0 DEF Finish, StoreInv, StoreTypeOK
<1>4. cl.pc # "set"
  BY <1>0 DEF ClientStates
<1> QED
  BY <1>1, <1>2, <1>3, <1>4, Moves

LEMMA FinishReadSound ==
    ASSUME StoreInv, NEW c \in Clients, NEW session \in Sessions \cup {NoSession},
           FinishRead(c, session), stored' = stored, issued' = issued
    PROVE  /\ client' \in [Clients -> ClientStates]
           /\ FreshSets'
           /\ \A d \in Clients : Sound(client'[d])
<1> DEFINE cl == [client[c] EXCEPT !.pc = "done", !.result = "read", !.read = session,
                                   !.envelope = NoEnvelope]
<1>0. client[c] \in ClientStates
  BY CallTypes DEF StoreInv
<1>1. cl \in ClientStates
  BY <1>0 DEF ClientStates, Commands, Results
<1>2. Sound(cl)
  BY <1>0 DEF StoreInv, Sound, ClientStates
<1>3. client' = [client EXCEPT ![c] = cl]
  BY <1>0 DEF FinishRead, StoreInv, StoreTypeOK
<1>4. cl.pc # "set"
  BY <1>0 DEF ClientStates
<1> QED
  BY <1>1, <1>2, <1>3, <1>4, Moves

LEMMA FinishNullSound ==
    ASSUME StoreInv, NEW c \in Clients, FinishNull(c), stored' = stored, issued' = issued
    PROVE  /\ client' \in [Clients -> ClientStates]
           /\ FreshSets'
           /\ \A d \in Clients : Sound(client'[d])
<1>1. \/ Finish(c, "true") \/ Finish(c, "dead") \/ FinishRead(c, NoSession)
  BY DEF FinishNull
<1> QED
  BY <1>1, FinishSound, FinishReadSound DEF Results

\* A client that has decided which command to send: what Sound asks of it.
LEMMA SendSound ==
    ASSUME StoreInv, NEW c \in Clients, NEW command \in Commands \ {"set"},
           client[c].pc = "decide", Send(c, command),
           command = "replace" =>
              /\ client[c].call.op = "replaceIfUnchanged"
              /\ Decrypt(client[c].envelope) = client[c].call.expected
              /\ IsUpstreamCookieRenewal(client[c].call.generation,
                                         client[c].call.expected,
                                         client[c].call.replacement),
           stored' = stored, issued' = issued
    PROVE  /\ client' \in [Clients -> ClientStates]
           /\ FreshSets'
           /\ \A d \in Clients : Sound(client'[d])
<1> DEFINE cl == [client[c] EXCEPT !.pc = command]
<1>0. client[c] \in ClientStates /\ Sound(client[c])
  BY CallTypes DEF StoreInv
<1>1. cl \in ClientStates
  BY <1>0 DEF ClientStates, Commands
<1>2. /\ cl.pc = command
      /\ cl.call = client[c].call
      /\ cl.envelope = client[c].envelope
  BY <1>0 DEF ClientStates
<1>3. Sound(cl)
  BY <1>0, <1>2 DEF Sound
<1>4. client' = [client EXCEPT ![c] = cl]
  BY <1>0 DEF Send, StoreInv, StoreTypeOK
<1> QED
  BY <1>1, <1>2, <1>3, <1>4, Moves

-----------------------------------------------------------------------------
(* One lemma per action.                                                     *)

LEMMA EnterSound ==
    ASSUME StoreInv, NEW c \in Clients, NEW call \in Calls, Enter(c, call, "get"),
           call.op # "set",
           call.op = "replaceIfUnchanged" =>
              call.expected \in Sessions /\ call.replacement \in Sessions,
           issued' = issued
    PROVE  /\ client' \in [Clients -> ClientStates]
           /\ FreshSets'
           /\ \A d \in Clients : Sound(client'[d])
<1> DEFINE cl == [Idle EXCEPT !.pc = "get", !.call = call]
<1>1. cl \in ClientStates
  BY IdleType DEF ClientStates, Idle
<1>2. Sound(cl) /\ cl.pc # "set"
  BY DEF Sound, Idle
<1>3. client' = [client EXCEPT ![c] = cl] /\ stored' = stored
  BY DEF Enter
<1> QED
  BY <1>1, <1>2, <1>3, Moves

LEMMA CallSetInv ==
    ASSUME StoreInv, NEW c \in Clients, NEW generation \in Generations,
           NEW capture \in Handovers, CallSet(c, generation, capture)
    PROVE  StoreInv'
<1>0. StoreTypeOK /\ RecordStored
  BY DEF StoreInv
<1> DEFINE session == LoginSession(generation, capture)
           call == [NoCall EXCEPT !.op = "set", !.replacement = session, !.iv = nextIv]
           cl   == [Idle EXCEPT !.pc = "set", !.call = call]
<1>1. session \in Sessions /\ session.sessionGeneration = generation
  BY <1>0, LoginSessionType
<1>2. call \in Calls
  BY <1>0, <1>1 DEF StoreTypeOK, NoCall, Calls, Operations
<1>3. cl \in ClientStates /\ cl.pc = "set" /\ cl.call = call
  BY <1>2, IdleType DEF ClientStates, Commands, Idle
<1>4. call.op = "set" /\ call.replacement = session
  BY DEF NoCall
<1>5. client' = [client EXCEPT ![c] = cl] /\ UNCHANGED <<redis, expiresAt, now, stored>>
  BY DEF CallSet, Enter
<1>6. /\ client'[c] = cl
      /\ \A d \in Clients \ {c} : client'[d] = client[d]
      /\ client' \in [Clients -> ClientStates]
  BY <1>0, <1>3, <1>5 DEF StoreTypeOK
<1>7. generation \notin issued /\ issued' = issued \cup {generation} /\ nextIv' = nextIv + 1
  BY DEF CallSet
<1> HIDE DEF cl, call, session
<1>8. FreshSets'
  <2>1. stored' \subseteq issued' \cup {NoGeneration}
    BY <1>5, <1>7 DEF StoreInv, FreshSets
  <2>2. generation \notin stored
    BY <1>7 DEF StoreInv, FreshSets
  <2>3. \A d \in Clients : client'[d].pc = "set" =>
          /\ client'[d].call.replacement \in Sessions
          /\ client'[d].call.replacement.sessionGeneration \in issued' \ stored'
    BY <1>1, <1>3, <1>4, <1>5, <1>6, <1>7, <2>2 DEF StoreInv, FreshSets
  <2>4. \A d \in Clients \ {c} : client'[d].pc = "set" =>
          client'[d].call.replacement.sessionGeneration # generation
    BY <1>6, <1>7 DEF StoreInv, FreshSets
  <2>5. \A d, e \in Clients :
           (d # e /\ client'[d].pc = "set" /\ client'[e].pc = "set")
           => client'[d].call.replacement.sessionGeneration
                 # client'[e].call.replacement.sessionGeneration
    BY <1>1, <1>3, <1>4, <1>6, <2>4 DEF StoreInv, FreshSets
  <2> QED
    BY <2>1, <2>3, <2>5 DEF FreshSets
<1>9. Sound(cl)
  BY <1>3, <1>4 DEF Sound
<1>10. \A d \in Clients : Sound(client'[d])
  BY <1>6, <1>9 DEF StoreInv
<1>11. StoreTypeOK'
  BY <1>0, <1>5, <1>6, <1>7 DEF StoreTypeOK
<1> QED
  BY <1>0, <1>5, <1>8, <1>10, <1>11 DEF StoreInv, RecordStored

LEMMA CallReadInv ==
    ASSUME StoreInv, NEW c \in Clients, NEW op \in {"get", "all"}, CallRead(c, op)
    PROVE  StoreInv'
<1>0. StoreTypeOK /\ RecordStored
  BY DEF StoreInv
<1> DEFINE call == [NoCall EXCEPT !.op = op]
<1>1. call \in Calls /\ call.op \notin {"set", "replaceIfUnchanged"}
  BY DEF NoCall, Calls, Operations
<1>2. Enter(c, call, "get") /\ UNCHANGED <<issued, nextIv>>
  BY DEF CallRead
<1>3. client' \in [Clients -> ClientStates] /\ FreshSets' /\ \A d \in Clients : Sound(client'[d])
  BY <1>1, <1>2, EnterSound
<1> QED
  BY <1>0, <1>2, <1>3 DEF Enter, StoreInv, StoreTypeOK, RecordStored

LEMMA CallQualifiedInv ==
    ASSUME StoreInv, NEW c \in Clients,
           NEW op \in {"getIfGeneration", "clearIfGeneration"}, NEW generation \in stored,
           CallQualified(c, op, generation)
    PROVE  StoreInv'
<1>0. StoreTypeOK /\ RecordStored
  BY DEF StoreInv
<1> DEFINE call == [NoCall EXCEPT !.op = op, !.generation = generation]
<1>1. call \in Calls /\ call.op \notin {"set", "replaceIfUnchanged"}
  BY <1>0 DEF NoCall, Calls, Operations, StoreTypeOK
<1>2. Enter(c, call, "get") /\ UNCHANGED <<issued, nextIv>>
  BY DEF CallQualified
<1>3. client' \in [Clients -> ClientStates] /\ FreshSets' /\ \A d \in Clients : Sound(client'[d])
  BY <1>1, <1>2, EnterSound
<1> QED
  BY <1>0, <1>2, <1>3 DEF Enter, StoreInv, StoreTypeOK, RecordStored

LEMMA CallReplaceInv ==
    ASSUME StoreInv, NEW c \in Clients, NEW expected \in Sessions,
           NEW replacement \in Sessions, CallReplace(c, expected, replacement)
    PROVE  StoreInv'
<1>0. StoreTypeOK /\ RecordStored
  BY DEF StoreInv
<1> DEFINE call == [NoCall EXCEPT !.op = "replaceIfUnchanged",
                                  !.generation = expected.sessionGeneration,
                                  !.expected = expected,
                                  !.replacement = replacement, !.iv = nextIv]
<1>1. expected.sessionGeneration \in Generations \cup {NoGeneration}
  BY DEF Sessions
<1>2. nextIv \in Nat /\ nextIv' = nextIv + 1
  BY <1>0 DEF CallReplace, StoreTypeOK
<1>3. Enter(c, call, "get") /\ UNCHANGED issued
  BY DEF CallReplace
<1>4. call \in Calls /\ call.op # "set" /\ call.expected = expected /\ call.replacement = replacement
  BY <1>1, <1>2 DEF NoCall, Calls, Operations
<1>5. client' \in [Clients -> ClientStates] /\ FreshSets' /\ \A d \in Clients : Sound(client'[d])
  BY <1>3, <1>4, EnterSound
<1> QED
  BY <1>0, <1>2, <1>3, <1>5 DEF Enter, StoreInv, StoreTypeOK, RecordStored

LEMMA CallInv ==
    ASSUME StoreInv, NEW c \in Clients, Call(c)
    PROVE  StoreInv'
<1>1. \A capture \in Captures : capture \in Handovers
  BY DEF Handovers
<1>2. ASSUME NEW field \in CookieFields, NEW cookie \in Cookies \cup {NoCookie},
             client[c].read # NoSession
      PROVE  /\ client[c].read \in Sessions
             /\ [client[c].read EXCEPT ![field] = cookie] \in Sessions
  BY <1>2, CallTypes DEF StoreInv, Sessions, CookieFields
<1> QED
  BY <1>1, <1>2, CallSetInv, CallReadInv, CallQualifiedInv, CallReplaceInv DEF Call

LEMMA GetInv ==
    ASSUME StoreInv, NEW c \in Clients, Get(c)
    PROVE  StoreInv'
<1>0. StoreTypeOK /\ RecordStored
  BY DEF StoreInv
<1>1. client' \in [Clients -> ClientStates] /\ FreshSets' /\ \A d \in Clients : Sound(client'[d])
  <2>1. CASE redis = NoEnvelope
    BY <2>1, FinishNullSound DEF Get
  <2>2. CASE redis # NoEnvelope
    <3> DEFINE cl == [client[c] EXCEPT !.pc = "decide", !.envelope = redis]
    <3>1. client[c] \in ClientStates /\ Sound(client[c]) /\ redis \in Envelopes
      BY <2>2, CallTypes DEF StoreInv, StoreTypeOK
    <3>2. /\ cl \in ClientStates
          /\ cl.pc = "decide"
          /\ cl.envelope = redis
          /\ cl.call = client[c].call
      BY <3>1 DEF ClientStates
    <3>3. Sound(cl)
      BY <3>1, <3>2 DEF Sound, Get
    <3>4. client' = [client EXCEPT ![c] = cl]
      BY <2>2 DEF Get, StoreInv, StoreTypeOK
    <3>5. cl.pc # "set"
      BY <3>2
    <3> QED
      BY <3>2, <3>3, <3>4, <3>5, Moves DEF Get
  <2> QED
    BY <2>1, <2>2
<1> QED
  BY <1>0, <1>1 DEF Get, StoreInv, StoreTypeOK, RecordStored

\* Every branch of a decision answers or sends a command.
LEMMA DecideInv ==
    ASSUME StoreInv, NEW c \in Clients, Decide(c)
    PROVE  StoreInv'
<1>0. StoreTypeOK /\ RecordStored /\ client[c].pc = "decide"
  BY DEF StoreInv, Decide
<1>a. UNCHANGED <<redis, expiresAt, now, issued, stored, nextIv>>
  BY DEF Decide
<1>b. Decrypt(client[c].envelope) \in Sessions \cup {NoSession}
  BY <1>0, DecryptType DEF StoreInv, Sound
<1> DEFINE Goal == /\ client' \in [Clients -> ClientStates]
                   /\ FreshSets'
                   /\ \A d \in Clients : Sound(client'[d])
<1>1. Goal
  <2>1. CASE DecideAll(c)
    BY <2>1, <1>a, <1>b, FinishReadSound DEF DecideAll
  <2>2. ASSUME Send(c, "delete") PROVE Goal
    BY <1>0, <2>2, <1>a, SendSound DEF Commands
  <2>3. CASE DecideUnreadable(c)
    BY <2>2, <2>3, <1>a, FinishNullSound DEF DecideUnreadable
  <2>4. CASE DecideReadable(c)
    <3> DEFINE session == Decrypt(client[c].envelope)
               call == client[c].call
               decision == EvaluateRecord(session, now, call.generation)
    <3>1. decision \in {"absolute-dead", "generation-mismatch", "live"}
      BY DEF EvaluateRecord
    <3>2. CASE decision = "absolute-dead"
      BY <2>2, <2>4, <3>2 DEF DecideReadable
    <3>3. CASE decision = "generation-mismatch"
      <4>1. FinishMismatch(c)
        BY <2>4, <3>3 DEF DecideReadable
      <4>2. Finish(c, "false") \/ Finish(c, "conflict") \/ FinishRead(c, NoSession)
        BY <4>1 DEF FinishMismatch
      <4> QED
        BY <1>a, <4>2, FinishSound, FinishReadSound DEF Results
    <3>4. CASE decision = "live"
      <4>1. DecideLive(c, session) /\ call.op # "all"
        BY <2>4, <3>4 DEF DecideReadable
      <4>2. CASE call.op = "get"
        BY <1>0, <1>a, <4>1, <4>2, SendSound DEF DecideLive, Commands
      <4>3. CASE call.op = "getIfGeneration"
        BY <1>0, <1>a, <4>1, <4>3, SendSound DEF DecideLive, Commands
      <4>4. CASE call.op = "clearIfGeneration"
        BY <2>2, <4>1, <4>4 DEF DecideLive
      <4>5. CASE call.op = "replaceIfUnchanged"
        <5>1. IF ~ SameCapturedSession(session, call.expected)
              THEN Finish(c, "conflict")
              ELSE IF ~ IsUpstreamCookieRenewal(call.generation, call.expected,
                                                call.replacement)
              THEN Finish(c, "throw")
              ELSE Send(c, "replace")
          BY <4>1, <4>5 DEF DecideLive
        <5>2. CASE Finish(c, "conflict") \/ Finish(c, "throw")
          BY <1>a, <5>2, FinishSound DEF Results
        <5>3. CASE /\ SameCapturedSession(session, call.expected)
                   /\ IsUpstreamCookieRenewal(call.generation, call.expected,
                                              call.replacement)
                   /\ Send(c, "replace")
          BY <1>0, <1>a, <4>5, <5>3, SendSound DEF Commands, SameCapturedSession
        <5> QED
          BY <5>1, <5>2, <5>3
      <4>6. call.op # "set"
        BY <1>0 DEF StoreInv, Sound
      <4> QED
        BY <1>0, <4>1, <4>2, <4>3, <4>4, <4>5, <4>6, CallTypes DEF Operations
    <3> QED
      BY <3>1, <3>2, <3>3, <3>4
  <2> QED
    BY <2>1, <2>3, <2>4 DEF Decide
<1> QED
  BY <1>0, <1>1, <1>a DEF StoreInv, StoreTypeOK, RecordStored

LEMMA SetInv ==
    ASSUME StoreInv, NEW c \in Clients, Set(c)
    PROVE  StoreInv'
<1> DEFINE session == client[c].call.replacement
           generation == session.sessionGeneration
           cl == [client[c] EXCEPT !.pc = "done", !.result = "void", !.envelope = NoEnvelope]
<1>1. /\ client[c] \in ClientStates
      /\ client[c].pc = "set"
      /\ client[c].call.iv \in Nat
      /\ session \in Sessions
      /\ generation \in issued \ stored
  BY CallTypes DEF StoreInv, FreshSets, Set, Calls
<1>2. cl \in ClientStates /\ cl.pc = "done" /\ cl.call = client[c].call
  BY <1>1 DEF ClientStates, Results
<1>3. /\ client' \in [Clients -> ClientStates]
      /\ client'[c] = cl
      /\ \A d \in Clients \ {c} : client'[d] = client[d]
  BY <1>2 DEF Set, Finish, StoreInv, StoreTypeOK
<1>4. Sound(cl)
  BY <1>1, <1>2 DEF StoreInv, Sound
<1>5. /\ redis' = Envelope(client[c].call.iv, session)
      /\ expiresAt' = now + TtlMs
      /\ stored' = stored \cup {generation}
      /\ UNCHANGED <<now, issued, nextIv>>
  BY DEF Set
<1>6. redis' \in Envelopes /\ redis'.session = session
  BY <1>1, <1>5, EnvelopeType
<1> HIDE DEF cl
<1>7. FreshSets'
  <2>1. \A d \in Clients \ {c} : client[d].pc = "set" =>
          client[d].call.replacement.sessionGeneration # generation
    BY <1>1 DEF StoreInv, FreshSets
  <2> QED
    BY <1>1, <1>2, <1>3, <1>5, <2>1 DEF StoreInv, FreshSets
<1>8. StoreTypeOK'
  BY <1>1, <1>3, <1>5, <1>6 DEF StoreInv, StoreTypeOK
<1>9. RecordStored'
  BY <1>5, <1>6 DEF RecordStored
<1>10. \A d \in Clients : Sound(client'[d])
  BY <1>3, <1>4 DEF StoreInv
<1> QED
  BY <1>7, <1>8, <1>9, <1>10 DEF StoreInv

LEMMA SlideInv ==
    ASSUME StoreInv, NEW c \in Clients, Slide(c) \/ CasExpire(c)
    PROVE  StoreInv'
<1>1. Decrypt(client[c].envelope) \in Sessions \cup {NoSession}
  BY DecryptType DEF StoreInv, Sound, Slide, CasExpire
<1>2. \E session \in Sessions \cup {NoSession} : FinishRead(c, session)
  BY <1>1 DEF Slide, CasExpire
<1>3. expiresAt' \in Nat /\ UNCHANGED <<redis, now, issued, stored, nextIv>>
  BY DEF Slide, CasExpire, StoreInv, StoreTypeOK
<1>4. client' \in [Clients -> ClientStates] /\ FreshSets' /\ \A d \in Clients : Sound(client'[d])
  BY <1>2, <1>3, FinishReadSound
<1> QED
  BY <1>3, <1>4 DEF StoreInv, StoreTypeOK, RecordStored

LEMMA CasDeleteInv ==
    ASSUME StoreInv, NEW c \in Clients, CasDelete(c)
    PROVE  StoreInv'
<1>1. Finish(c, "false") \/ FinishNull(c)
  BY DEF CasDelete
<1>2. /\ redis' \in {redis, NoEnvelope}
      /\ expiresAt' \in {expiresAt, 0}
      /\ UNCHANGED <<now, issued, stored, nextIv>>
  BY DEF CasDelete
<1>3. client' \in [Clients -> ClientStates] /\ FreshSets' /\ \A d \in Clients : Sound(client'[d])
  BY <1>1, <1>2, FinishSound, FinishNullSound DEF Results
<1> QED
  BY <1>2, <1>3 DEF StoreInv, StoreTypeOK, RecordStored

\* A renewal that wins the comparison replaces the snapshot its caller expects
\* by one of the same generation.
LEMMA ReplaceWins ==
    ASSUME StoreInv, NEW c \in Clients, CasReplace(c), Unchanged(c)
    PROVE  /\ redis \in Envelopes
           /\ redis' \in Envelopes
           /\ Decrypt(redis) = client[c].call.expected
           /\ redis.session = client[c].call.expected
           /\ Decrypt(redis') = client[c].call.replacement
           /\ redis'.session = client[c].call.replacement
           /\ client[c].call.expected \in Sessions
           /\ client[c].call.replacement \in Sessions
           /\ IsUpstreamCookieRenewal(client[c].call.generation,
                 client[c].call.expected, client[c].call.replacement)
<1>1. /\ client[c].call.expected \in Sessions
      /\ client[c].call.replacement \in Sessions
      /\ client[c].call.iv \in Nat
  BY CallTypes DEF StoreInv, Sound, CasReplace, Calls
<1>2. redis \in Envelopes /\ Decrypt(redis) = client[c].call.expected
  BY DEF StoreInv, Sound, CasReplace, Unchanged
<1>3. redis.session = client[c].call.expected
  BY <1>1, <1>2 DEF Decrypt
<1>4. redis' = Envelope(client[c].call.iv, client[c].call.replacement)
  BY DEF CasReplace
<1> QED
  BY <1>1, <1>2, <1>3, <1>4, EnvelopeType DEF StoreInv, Sound, CasReplace

LEMMA CasReplaceInv ==
    ASSUME StoreInv, NEW c \in Clients, CasReplace(c)
    PROVE  StoreInv'
<1>1. Finish(c, "updated") \/ Finish(c, "conflict")
  BY DEF CasReplace
<1>2. UNCHANGED <<now, issued, stored, nextIv>>
  BY DEF CasReplace
<1>3. client' \in [Clients -> ClientStates] /\ FreshSets' /\ \A d \in Clients : Sound(client'[d])
  BY <1>1, <1>2, FinishSound DEF Results
<1>4. CASE Unchanged(c)
  <2>1. redis'.session.sessionGeneration = redis.session.sessionGeneration
    BY <1>4, ReplaceWins DEF IsUpstreamCookieRenewal, IsCookieRenewal
  <2>2. redis # NoEnvelope /\ redis' \in Envelopes
    BY <1>4, ReplaceWins DEF Envelopes
  <2>3. expiresAt' = now + TtlMs
    BY <1>4 DEF CasReplace
  <2> QED
    BY <1>2, <1>3, <2>1, <2>2, <2>3 DEF StoreInv, StoreTypeOK, RecordStored
<1>5. CASE ~ Unchanged(c)
  <2>1. UNCHANGED <<redis, expiresAt>>
    BY <1>5 DEF CasReplace
  <2> QED
    BY <1>2, <1>3, <2>1 DEF StoreInv, StoreTypeOK, RecordStored
<1> QED
  BY <1>4, <1>5

\* Back to the caller, or lost with the process: an idle client.
LEMMA IdleSound == Sound(Idle) /\ Idle.pc = "idle"
BY DEF Sound, Idle, NoCall

LEMMA ReturnInv ==
    ASSUME StoreInv, NEW c \in Clients, Return(c)
    PROVE  StoreInv'
<1>1. client' \in [Clients -> ClientStates] /\ FreshSets' /\ \A d \in Clients : Sound(client'[d])
  BY IdleType, IdleSound, Moves DEF Return
<1> QED
  BY <1>1 DEF Return, StoreInv, StoreTypeOK, RecordStored

LEMMA RestartInv ==
    ASSUME StoreInv, Restart \/ RotateKey
    PROVE  StoreInv'
<1>1. /\ client' \in [Clients -> ClientStates]
      /\ \A d \in Clients : client'[d] = Idle
  BY IdleType DEF Restart, RotateKey
<1>2. FreshSets' /\ \A d \in Clients : Sound(client'[d])
  BY <1>1, IdleSound DEF Restart, RotateKey, StoreInv, FreshSets
<1>3. redis' \in Envelopes \cup {NoEnvelope} /\ RecordStored'
  <2>1. CASE Restart
    BY <2>1 DEF Restart, StoreInv, StoreTypeOK, RecordStored
  <2>2. CASE RotateKey
    <3>1. redis \in Envelopes
      BY <2>2 DEF RotateKey, StoreInv, StoreTypeOK
    <3>2. redis' \in Envelopes /\ redis'.session = redis.session
      BY <2>2, <3>1 DEF RotateKey, Envelopes
    <3> QED
      BY <2>2, <3>2 DEF RotateKey, StoreInv, RecordStored
  <2> QED
    BY <2>1, <2>2
<1> QED
  BY <1>1, <1>2, <1>3 DEF Restart, RotateKey, StoreInv, StoreTypeOK

LEMMA TickInv ==
    ASSUME StoreInv, Tick
    PROVE  StoreInv'
<1>1. /\ redis' \in {redis, NoEnvelope}
      /\ expiresAt' \in {expiresAt, 0}
      /\ now' \in Nat
      /\ UNCHANGED <<issued, stored, nextIv, client>>
  BY DEF Tick, StoreInv, StoreTypeOK
<1> QED
  BY <1>1 DEF StoreInv, StoreTypeOK, RecordStored, FreshSets

THEOREM StoreNextInv == StoreInv /\ [StoreNext]_storeVars => StoreInv'
<1> SUFFICES ASSUME StoreInv, [StoreNext]_storeVars PROVE StoreInv'
  OBVIOUS
<1>1. CASE \E c \in Clients : Call(c) \/ StoreStep(c) \/ Return(c)
  BY <1>1, CallInv, GetInv, DecideInv, SetInv, SlideInv, CasDeleteInv, CasReplaceInv,
     ReturnInv DEF StoreStep
<1>2. CASE Tick \/ Restart \/ RotateKey
  BY <1>2, TickInv, RestartInv
<1>3. CASE UNCHANGED storeVars
  BY <1>3 DEF storeVars, StoreInv, StoreTypeOK, RecordStored, FreshSets
<1> QED
  BY <1>1, <1>2, <1>3 DEF StoreNext

THEOREM StoreInvariant == StoreSpec => []StoreInv
<1>1. StoreInit => StoreInv
  BY StoreInitInv
<1>2. StoreInv /\ [StoreNext]_storeVars => StoreInv'
  BY StoreNextInv
<1> QED
  BY <1>1, <1>2, PTL DEF StoreSpec

\* Every variable keeps its type: in particular a call never hands out anything
\* but a session or null.
THEOREM StoreTypeCorrect == StoreSpec => []StoreTypeOK
<1>1. StoreInv => StoreTypeOK
  BY DEF StoreInv
<1> QED
  BY <1>1, StoreInvariant, PTL

-----------------------------------------------------------------------------
(* Refinement.  The record changes in four steps only: the SET of a login,   *)
(* the SET of a renewal that wins its comparison, the DEL of a clear or of a *)
(* clean-up that wins its own, and the end of a lifetime or of a key.        *)

LEMMA RecordTypes ==
    ASSUME StoreInv
    PROVE  /\ Record \in Sessions \cup {NoSession}
           /\ Record # NoSession => /\ redis # NoEnvelope
                                    /\ Record = redis.session
                                    /\ RecordGeneration = {Record.sessionGeneration}
                                    /\ Record.sessionGeneration \in stored
           /\ Record = NoSession => RecordGeneration = {}
BY DecryptType DEF StoreInv, StoreTypeOK, RecordStored, Record, RecordGeneration,
   Decrypt, Envelopes

\* Once ended, always accounted for: what the abstract specification adds to
\* `ended` when a live session ends.
LEMMA EndingIsStored ==
    ASSUME StoreInv
    PROVE  Life!Ending = stored
BY RecordTypes DEF Life!Ending, Life!Live

LEMMA RecordGone ==
    ASSUME StoreInv, Record' = NoSession, stored' = stored
    PROVE  Life!End \/ UNCHANGED <<Record, stored \ RecordGeneration>>
<1>1. RecordGeneration' = {}
  BY DEF RecordGeneration
<1>2. CASE Record = NoSession
  BY <1>1, <1>2, RecordTypes
<1>3. CASE Record # NoSession
  BY <1>1, <1>3, EndingIsStored DEF Life!End, Life!Live
<1> QED
  BY <1>2, <1>3

LEMMA RecordKept ==
    ASSUME UNCHANGED <<redis, stored>>
    PROVE  UNCHANGED <<Record, stored \ RecordGeneration>>
BY DEF Record, RecordGeneration, Decrypt

LEMMA SetEstablishes ==
    ASSUME StoreInv, NEW c \in Clients, Set(c)
    PROVE  Life!Establish
<1> DEFINE session == client[c].call.replacement
<1>1. /\ client[c].call.iv \in Nat
      /\ session \in Sessions
      /\ session.sessionGeneration \in issued \ stored
      /\ issued \subseteq Generations
  BY CallTypes DEF StoreInv, StoreTypeOK, FreshSets, Set, Calls
<1>2. /\ redis' = Envelope(client[c].call.iv, session)
      /\ stored' = stored \cup {session.sessionGeneration}
  BY DEF Set
<1>3. redis' \in Envelopes /\ redis'.session = session /\ Decrypt(redis') = session
  BY <1>1, <1>2, EnvelopeType
<1>4. redis' # NoEnvelope
  BY <1>3 DEF Envelopes
<1>5. Record' = session
  BY <1>3, <1>4 DEF Record
<1>6. RecordGeneration' = {session.sessionGeneration}
  BY <1>1, <1>5 DEF RecordGeneration
<1>7. stored' \ RecordGeneration' = stored
  BY <1>1, <1>2, <1>6
<1> QED
  BY <1>1, <1>5, <1>7, EndingIsStored DEF Life!Establish, Life!Sessions, Sessions

LEMMA CasReplaceRenews ==
    ASSUME StoreInv, NEW c \in Clients, CasReplace(c)
    PROVE  \/ \E field \in CookieFields, cookie \in Cookies : Life!Renew(field, cookie)
           \/ UNCHANGED <<Record, stored \ RecordGeneration>>
<1>1. CASE ~ Unchanged(c)
  BY <1>1, RecordKept DEF CasReplace
<1>2. CASE Unchanged(c)
  <2> DEFINE expected == client[c].call.expected
             replacement == client[c].call.replacement
  <2>1. PICK field \in CookieFields :
          IsCookieRenewal(field, client[c].call.generation, expected, replacement)
    BY <1>2, ReplaceWins DEF IsUpstreamCookieRenewal
  <2>2. /\ replacement[field] # NoCookie
        /\ replacement[field] # expected[field]
        /\ replacement = [expected EXCEPT ![field] = replacement[field]]
        /\ replacement.sessionGeneration = expected.sessionGeneration
    BY <2>1 DEF IsCookieRenewal
  <2>3. expected \in Sessions /\ replacement \in Sessions
    BY <1>2, ReplaceWins
  <2>4. replacement[field] \in Cookies
    BY <2>2, <2>3 DEF Sessions, CookieFields
  <2>5. redis # NoEnvelope /\ redis' # NoEnvelope
    BY <1>2, ReplaceWins DEF Envelopes
  <2>6. Record = expected /\ Record' = replacement
    BY <1>2, <2>5, ReplaceWins DEF Record
  <2>7. RecordGeneration' = RecordGeneration /\ stored' = stored
    BY <2>2, <2>3, <2>6 DEF RecordGeneration, CasReplace
  <2>8. Life!Renew(field, replacement[field])
    BY <2>2, <2>3, <2>6, <2>7 DEF Life!Renew, Life!Live
  <2> QED
    BY <2>4, <2>8
<1> QED
  BY <1>1, <1>2

LEMMA EndOrKeep ==
    ASSUME StoreInv, StoreInv',
           (\E c \in Clients : CasDelete(c)) \/ Tick \/ RotateKey
    PROVE  Life!End \/ UNCHANGED <<Record, stored \ RecordGeneration>>
<1>1. stored' = stored
  BY DEF CasDelete, Tick, RotateKey
<1>2. redis' = redis \/ redis' = NoEnvelope \/ RotateKey
  BY DEF CasDelete, Tick
<1>3. CASE redis' = redis
  BY <1>1, <1>3, RecordKept
<1>4. CASE redis' = NoEnvelope
  BY <1>1, <1>4, RecordGone DEF Record
<1>5. CASE RotateKey
  <2>1. redis \in Envelopes /\ redis' = [redis EXCEPT !.readable = FALSE]
    BY <1>5 DEF RotateKey, StoreInv, StoreTypeOK
  <2>2. redis' \in Envelopes /\ ~ redis'.readable
    BY <2>1 DEF Envelopes
  <2>3. Record' = NoSession
    BY <2>2 DEF Record, Decrypt
  <2> QED
    BY <1>1, <2>3, RecordGone
<1> QED
  BY <1>2, <1>3, <1>4, <1>5

LEMMA OtherStepsKeep ==
    ASSUME \/ \E c \in Clients : Call(c) \/ Get(c) \/ Decide(c) \/ Slide(c)
                                 \/ CasExpire(c) \/ Return(c)
           \/ Restart
           \/ UNCHANGED storeVars
    PROVE  UNCHANGED <<Record, stored \ RecordGeneration>>
<1>1. UNCHANGED <<redis, stored>>
  BY DEF Call, CallSet, CallRead, CallQualified, CallReplace, Enter, Get, Decide, Slide,
         CasExpire, Return, Restart, storeVars
<1> QED
  BY <1>1, RecordKept

\* The Redis adapter implements SessionLife: whatever round trips interleave, a
\* session that was logged out, replaced, expired or lost its key never comes
\* back, and a renewal changes one cookie of the live session.
THEOREM StoreImplementsLife == StoreSpec => LifeRefined
<1>1. StoreInit => Life!LifeInit
  <2> SUFFICES ASSUME StoreInit PROVE Life!LifeInit
    OBVIOUS
  <2>1. CASE redis = NoEnvelope
    BY <2>1 DEF StoreInit, Record, RecordGeneration, Life!LifeInit
  <2>2. CASE redis # NoEnvelope
    <3>1. PICK capture \in Captures : redis = Envelope(0, LoginSession(NoGeneration, capture))
      BY <2>2 DEF StoreInit
    <3>2. /\ LoginSession(NoGeneration, capture) \in Sessions
          /\ LoginSession(NoGeneration, capture).sessionGeneration = NoGeneration
      BY DEF StoreInit, LoginSession, Sessions
    <3>3. Record = LoginSession(NoGeneration, capture)
      BY <2>2, <3>1, <3>2, EnvelopeType DEF Record
    <3>4. stored \ RecordGeneration = {}
      BY <2>2, <3>2, <3>3 DEF StoreInit, RecordGeneration
    <3> QED
      BY <3>2, <3>3, <3>4 DEF Life!LifeInit, Life!Sessions, Sessions
  <2> QED
    BY <2>1, <2>2
<1>2. StoreInv /\ StoreInv' /\ [StoreNext]_storeVars => [Life!LifeNext]_(Life!lifeVars)
  <2> SUFFICES ASSUME StoreInv, StoreInv', [StoreNext]_storeVars
               PROVE  [Life!LifeNext]_(Life!lifeVars)
    OBVIOUS
  <2>1. CASE \E c \in Clients : Set(c)
    BY <2>1, SetEstablishes DEF Life!LifeNext
  <2>2. CASE \E c \in Clients : CasReplace(c)
    BY <2>2, CasReplaceRenews DEF Life!LifeNext, Life!lifeVars, Life!CookieFields, CookieFields
  <2>3. CASE (\E c \in Clients : CasDelete(c)) \/ Tick \/ RotateKey
    BY <2>3, EndOrKeep DEF Life!LifeNext, Life!lifeVars
  <2>4. CASE \/ \E c \in Clients : Call(c) \/ Get(c) \/ Decide(c) \/ Slide(c)
                                   \/ CasExpire(c) \/ Return(c)
             \/ Restart
             \/ UNCHANGED storeVars
    BY <2>4, OtherStepsKeep DEF Life!lifeVars
  <2> QED
    BY <2>1, <2>2, <2>3, <2>4 DEF StoreNext, StoreStep
<1> QED
  BY <1>1, <1>2, StoreInvariant, PTL DEF StoreSpec, LifeRefined, Life!LifeSpec

-----------------------------------------------------------------------------
(* What a call answers, and whom it may touch.                               *)

\* What else is known of a client cl, when `ended` are the generations stored so
\* far and t is the time: it has no result before it is done, a logout's token
\* is of a session that was stored, and a command that compares envelopes was
\* only sent for an envelope that is unreadable, over its absolute cap, or of
\* the call's own generation.
Answering(cl, known, t) ==
    /\ cl.pc # "done" => cl.result = "void"
    /\ cl.call.op = "clearIfGeneration" => cl.call.generation \in known
    /\ cl.pc \in {"expire", "delete", "replace"} =>
          LET session == Decrypt(cl.envelope) IN
          \/ session = NoSession
          \/ AbsoluteDead(session, t)
          \/ GenerationMatches(session, cl.call.generation)

\* LogoutIsFinal, of one client and the generations of the record.
ClearedFor(cl, generations) ==
    (/\ cl.pc = "done"
     /\ cl.call.op = "clearIfGeneration"
     /\ cl.call.generation # NoGeneration
     /\ cl.result = "true")
    => cl.call.generation \notin generations

AnswerInv ==
    /\ \A c \in Clients : Answering(client[c], stored, now)
    /\ \A c \in Clients : ClearedFor(client[c], RecordGeneration)

LEMMA IdleAnswers ==
    ASSUME NEW known, NEW t, NEW generations
    PROVE  Answering(Idle, known, t) /\ ClearedFor(Idle, generations)
BY DEF Answering, ClearedFor, Idle, NoCall

\* One client moves, and no generation comes into the record but a new one.
LEMMA AnswerMoves ==
    ASSUME StoreInv, AnswerInv, NEW c \in Clients, NEW cl,
           client' = [client EXCEPT ![c] = cl],
           Answering(cl, stored, now), ClearedFor(cl, RecordGeneration'),
           stored \subseteq stored', now' = now,
           \A g \in RecordGeneration' : g \in RecordGeneration \/ g \notin stored
    PROVE  AnswerInv'
<1>1. /\ client'[c] = cl
      /\ \A d \in Clients \ {c} : client'[d] = client[d]
  BY DEF StoreInv, StoreTypeOK
<1>2. \A d \in Clients : Answering(client'[d], stored, now)
  BY <1>1 DEF AnswerInv
<1>3. \A d \in Clients : Answering(client'[d], stored', now')
  BY <1>2 DEF Answering
<1>4. \A d \in Clients \ {c} : ClearedFor(client'[d], RecordGeneration')
  BY <1>1 DEF AnswerInv, Answering, ClearedFor
<1> QED
  BY <1>1, <1>3, <1>4 DEF AnswerInv

\* A step that leaves redis alone, and ends a call with no "true" or carries it on.
LEMMA QuietMoves ==
    ASSUME StoreInv, AnswerInv, NEW c \in Clients, NEW cl,
           client' = [client EXCEPT ![c] = cl],
           Answering(cl, stored, now), cl.result # "true",
           UNCHANGED <<redis, stored, now>>
    PROVE  AnswerInv'
<1>1. RecordGeneration' = RecordGeneration
  BY DEF RecordGeneration, Record, Decrypt
<1>2. ClearedFor(cl, RecordGeneration')
  BY DEF ClearedFor
<1> QED
  BY <1>1, <1>2, AnswerMoves

LEMMA FinishAnswers ==
    ASSUME StoreInv, AnswerInv, NEW c \in Clients, NEW result,
           Finish(c, result), result # "true", UNCHANGED <<redis, stored, now>>
    PROVE  AnswerInv'
<1> DEFINE cl == [client[c] EXCEPT !.pc = "done", !.result = result, !.envelope = NoEnvelope]
<1>1. client[c] \in ClientStates /\ Answering(client[c], stored, now)
  BY CallTypes DEF StoreInv, AnswerInv
<1>2. cl.pc = "done" /\ cl.result = result /\ cl.call = client[c].call
  BY <1>1 DEF ClientStates
<1>3. Answering(cl, stored, now)
  BY <1>1, <1>2 DEF Answering
<1>4. client' = [client EXCEPT ![c] = cl]
  BY <1>1 DEF Finish, StoreInv, StoreTypeOK
<1> QED
  BY <1>2, <1>3, <1>4, QuietMoves

LEMMA FinishReadAnswers ==
    ASSUME StoreInv, AnswerInv, NEW c \in Clients, NEW session,
           FinishRead(c, session), UNCHANGED <<redis, stored, now>>
    PROVE  AnswerInv'
<1> DEFINE cl == [client[c] EXCEPT !.pc = "done", !.result = "read", !.read = session,
                                   !.envelope = NoEnvelope]
<1>1. client[c] \in ClientStates /\ Answering(client[c], stored, now)
  BY CallTypes DEF StoreInv, AnswerInv
<1>2. cl.pc = "done" /\ cl.result = "read" /\ cl.call = client[c].call
  BY <1>1 DEF ClientStates
<1>3. Answering(cl, stored, now)
  BY <1>1, <1>2 DEF Answering
<1>4. client' = [client EXCEPT ![c] = cl]
  BY <1>1 DEF FinishRead, StoreInv, StoreTypeOK
<1> QED
  BY <1>2, <1>3, <1>4, QuietMoves

LEMMA SendAnswers ==
    ASSUME StoreInv, AnswerInv, NEW c \in Clients, NEW command \in Commands,
           client[c].pc = "decide", Send(c, command),
           LET session == Decrypt(client[c].envelope) IN
           \/ command = "slide"
           \/ session = NoSession
           \/ AbsoluteDead(session, now)
           \/ GenerationMatches(session, client[c].call.generation),
           UNCHANGED <<redis, stored, now>>
    PROVE  AnswerInv'
<1> DEFINE cl == [client[c] EXCEPT !.pc = command]
<1>1. client[c] \in ClientStates /\ Answering(client[c], stored, now)
  BY CallTypes DEF StoreInv, AnswerInv
<1>2. /\ cl.pc = command /\ cl.result = client[c].result /\ cl.call = client[c].call
      /\ cl.envelope = client[c].envelope
  BY <1>1 DEF ClientStates
<1>3. cl.result = "void" /\ command # "done"
  BY <1>1, <1>2 DEF Answering, Commands
<1>4. Answering(cl, stored, now)
  BY <1>1, <1>2, <1>3 DEF Answering
<1>5. client' = [client EXCEPT ![c] = cl]
  BY <1>1 DEF Send, StoreInv, StoreTypeOK
<1> QED
  BY <1>3, <1>4, <1>5, QuietMoves

LEMMA CallAnswers ==
    ASSUME StoreInv, AnswerInv, NEW c \in Clients, Call(c)
    PROVE  AnswerInv'
<1>1. ASSUME NEW call, NEW pc \in {"set", "get"}, Enter(c, call, pc),
             call.op = "clearIfGeneration" => call.generation \in stored
      PROVE  AnswerInv'
  <2> DEFINE cl == [Idle EXCEPT !.pc = pc, !.call = call]
  <2>1. cl.pc = pc /\ cl.call = call /\ cl.result = "void"
    BY DEF Idle
  <2>2. Answering(cl, stored, now)
    BY <1>1, <2>1 DEF Answering
  <2>3. client' = [client EXCEPT ![c] = cl] /\ UNCHANGED <<redis, stored, now>>
    BY <1>1 DEF Enter
  <2> QED
    BY <2>1, <2>2, <2>3, QuietMoves
<1>2. ASSUME NEW generation \in Generations, NEW capture \in Captures,
             CallSet(c, generation, capture)
      PROVE  AnswerInv'
  <2> DEFINE call == [NoCall EXCEPT !.op = "set",
                                    !.replacement = LoginSession(generation, capture),
                                    !.iv = nextIv]
  <2>1. Enter(c, call, "set") /\ call.op = "set"
    BY <1>2 DEF CallSet, NoCall
  <2> QED
    BY <1>1, <2>1
<1>3. ASSUME NEW op \in {"get", "all"}, CallRead(c, op)
      PROVE  AnswerInv'
  <2> DEFINE call == [NoCall EXCEPT !.op = op]
  <2>1. Enter(c, call, "get") /\ call.op = op
    BY <1>3 DEF CallRead, NoCall
  <2> QED
    BY <1>1, <2>1
<1>4. ASSUME NEW op \in {"getIfGeneration", "clearIfGeneration"}, NEW generation \in stored,
             CallQualified(c, op, generation)
      PROVE  AnswerInv'
  <2> DEFINE call == [NoCall EXCEPT !.op = op, !.generation = generation]
  <2>1. Enter(c, call, "get") /\ call.generation = generation
    BY <1>4 DEF CallQualified, NoCall
  <2> QED
    BY <1>1, <2>1
<1>5. ASSUME NEW expected, NEW replacement, CallReplace(c, expected, replacement)
      PROVE  AnswerInv'
  <2> DEFINE call == [NoCall EXCEPT !.op = "replaceIfUnchanged",
                                    !.generation = expected.sessionGeneration,
                                    !.expected = expected,
                                    !.replacement = replacement, !.iv = nextIv]
  <2>1. Enter(c, call, "get") /\ call.op = "replaceIfUnchanged"
    BY <1>5 DEF CallReplace, NoCall
  <2> QED
    BY <1>1, <2>1
<1> QED
  BY <1>2, <1>3, <1>4, <1>5 DEF Call

LEMMA GetAnswers ==
    ASSUME StoreInv, AnswerInv, NEW c \in Clients, Get(c)
    PROVE  AnswerInv'
<1>0. UNCHANGED <<redis, stored, now>>
  BY DEF Get
<1>1. client[c] \in ClientStates /\ Answering(client[c], stored, now) /\ client[c].pc = "get"
  BY CallTypes DEF StoreInv, AnswerInv, Get
<1>2. CASE redis # NoEnvelope
  <2> DEFINE cl == [client[c] EXCEPT !.pc = "decide", !.envelope = redis]
  <2>1. cl.pc = "decide" /\ cl.result = client[c].result /\ cl.call = client[c].call
    BY <1>1 DEF ClientStates
  <2>2. Answering(cl, stored, now) /\ cl.result = "void"
    BY <1>1, <2>1 DEF Answering
  <2>3. client' = [client EXCEPT ![c] = cl]
    BY <1>2 DEF Get, StoreInv, StoreTypeOK
  <2> QED
    BY <1>0, <2>2, <2>3, QuietMoves
<1>3. CASE redis = NoEnvelope
  <2>1. Finish(c, "true") \/ Finish(c, "dead") \/ FinishRead(c, NoSession)
    BY <1>3 DEF Get, FinishNull
  <2>2. CASE Finish(c, "true")
    <3> DEFINE cl == [client[c] EXCEPT !.pc = "done", !.result = "true",
                                       !.envelope = NoEnvelope]
    <3>1. cl.pc = "done" /\ cl.call = client[c].call
      BY <1>1 DEF ClientStates
    <3>2. Answering(cl, stored, now)
      BY <1>1, <3>1 DEF Answering
    <3>3. RecordGeneration' = {}
      BY <1>0, <1>3 DEF RecordGeneration, Record
    <3>4. client' = [client EXCEPT ![c] = cl]
      BY <1>1, <2>2 DEF Finish, StoreInv, StoreTypeOK
    <3>5. ClearedFor(cl, RecordGeneration')
      BY <3>3 DEF ClearedFor
    <3> QED
      BY <1>0, <3>2, <3>3, <3>4, <3>5, AnswerMoves
  <2> QED
    BY <1>0, <2>1, <2>2, FinishAnswers, FinishReadAnswers
<1> QED
  BY <1>2, <1>3

LEMMA DecideAnswers ==
    ASSUME StoreInv, AnswerInv, NEW c \in Clients, Decide(c)
    PROVE  AnswerInv'
<1>0. client[c].pc = "decide" /\ UNCHANGED <<redis, stored, now>>
  BY DEF Decide
<1> DEFINE session == Decrypt(client[c].envelope)
           call == client[c].call
           decision == EvaluateRecord(session, now, call.generation)
<1>1. CASE DecideAll(c)
  BY <1>0, <1>1, FinishReadAnswers DEF DecideAll
<1>2. CASE DecideUnreadable(c)
  <2>1. CASE call.op = "get"
    BY <1>0, <1>2, <2>1, FinishReadAnswers DEF DecideUnreadable, FinishNull
  <2>2. CASE call.op # "get"
    BY <1>0, <1>2, <2>2, SendAnswers DEF DecideUnreadable, Commands
  <2> QED
    BY <2>1, <2>2
<1>3. CASE DecideReadable(c)
  <2>1. CASE decision = "absolute-dead"
    <3>1. Send(c, "delete") /\ AbsoluteDead(session, now)
      BY <1>3, <2>1 DEF DecideReadable, EvaluateRecord
    <3> QED
      BY <1>0, <3>1, SendAnswers DEF Commands
  <2>2. CASE decision = "generation-mismatch"
    <3>1. FinishMismatch(c)
      BY <1>3, <2>2 DEF DecideReadable
    <3>2. Finish(c, "false") \/ Finish(c, "conflict") \/ FinishRead(c, NoSession)
      BY <3>1 DEF FinishMismatch
    <3> QED
      BY <1>0, <3>2, FinishAnswers, FinishReadAnswers
  <2>3. CASE decision = "live"
    <3>1. DecideLive(c, session) /\ call.op # "all"
      BY <1>3, <2>3 DEF DecideReadable
    <3>2. GenerationMatches(session, call.generation)
      BY <2>3 DEF EvaluateRecord
    <3>3. call.op \in {"get", "getIfGeneration", "clearIfGeneration", "replaceIfUnchanged"}
      BY <1>0, <3>1, CallTypes DEF StoreInv, Sound, Operations
    <3>4. \/ \E command \in Commands : Send(c, command)
          \/ Finish(c, "conflict") \/ Finish(c, "throw")
      BY <3>1, <3>3 DEF DecideLive, Commands
    <3> QED
      BY <1>0, <3>2, <3>4, SendAnswers, FinishAnswers
  <2>4. decision \in {"absolute-dead", "generation-mismatch", "live"}
    BY DEF EvaluateRecord
  <2> QED
    BY <2>1, <2>2, <2>3, <2>4
<1> QED
  BY <1>1, <1>2, <1>3 DEF Decide

LEMMA SetAnswers ==
    ASSUME StoreInv, AnswerInv, NEW c \in Clients, Set(c)
    PROVE  AnswerInv'
<1> DEFINE session == client[c].call.replacement
           cl == [client[c] EXCEPT !.pc = "done", !.result = "void", !.envelope = NoEnvelope]
<1>1. /\ client[c] \in ClientStates /\ Answering(client[c], stored, now)
      /\ client[c].call.iv \in Nat
      /\ session \in Sessions
      /\ session.sessionGeneration \notin stored
  BY CallTypes DEF StoreInv, AnswerInv, FreshSets, Set, Calls
<1>2. cl.pc = "done" /\ cl.result = "void" /\ cl.call = client[c].call
  BY <1>1 DEF ClientStates
<1>3. Answering(cl, stored, now)
  BY <1>1, <1>2 DEF Answering
<1>4. client' = [client EXCEPT ![c] = cl] /\ stored \subseteq stored' /\ now' = now
  BY <1>1 DEF Set, Finish, StoreInv, StoreTypeOK
<1>5. redis' = Envelope(client[c].call.iv, session)
  BY DEF Set
<1>6. Decrypt(redis') = session
  BY <1>1, <1>5, EnvelopeType
<1>7. \A g \in RecordGeneration' : g \notin stored
  BY <1>1, <1>6 DEF RecordGeneration, Record
<1>8. ClearedFor(cl, RecordGeneration')
  BY <1>2 DEF ClearedFor
<1> QED
  BY <1>3, <1>4, <1>7, <1>8, AnswerMoves

LEMMA SlideAnswers ==
    ASSUME StoreInv, AnswerInv, NEW c \in Clients, Slide(c) \/ CasExpire(c)
    PROVE  AnswerInv'
BY FinishReadAnswers DEF Slide, CasExpire

LEMMA CasDeleteAnswers ==
    ASSUME StoreInv, AnswerInv, NEW c \in Clients, CasDelete(c)
    PROVE  AnswerInv'
<1>0. UNCHANGED <<stored, now>>
  BY DEF CasDelete
<1>1. CASE ~ Unchanged(c)
  <2>1. Finish(c, "false") \/ Finish(c, "dead") \/ FinishRead(c, NoSession)
    BY <1>1 DEF CasDelete, FinishNull
  <2> QED
    BY <1>0, <1>1, <2>1, FinishAnswers, FinishReadAnswers DEF CasDelete
<1>2. CASE Unchanged(c)
  <2>1. client[c] \in ClientStates /\ Answering(client[c], stored, now)
    BY CallTypes DEF StoreInv, AnswerInv
  <2>2. RecordGeneration' = {}
    BY <1>2 DEF CasDelete, RecordGeneration, Record
  <2>3. \E result, session : client' = [client EXCEPT ![c] =
            [client[c] EXCEPT !.pc = "done", !.result = result, !.read = session,
                              !.envelope = NoEnvelope]]
    <3>1. Finish(c, "true") \/ Finish(c, "dead") \/ FinishRead(c, NoSession)
      BY <1>2 DEF CasDelete, FinishNull
    <3>2. ASSUME NEW result, Finish(c, result)
          PROVE  client' = [client EXCEPT ![c] =
            [client[c] EXCEPT !.pc = "done", !.result = result, !.read = client[c].read,
                              !.envelope = NoEnvelope]]
      BY <2>1, <3>2 DEF Finish, StoreInv, StoreTypeOK, ClientStates
    <3>3. CASE FinishRead(c, NoSession)
      BY <2>1, <3>3 DEF FinishRead, StoreInv, StoreTypeOK
    <3> QED
      BY <3>1, <3>2, <3>3
  <2>4. PICK result, session : client' = [client EXCEPT ![c] =
            [client[c] EXCEPT !.pc = "done", !.result = result, !.read = session,
                              !.envelope = NoEnvelope]]
    BY <2>3
  <2> DEFINE cl == [client[c] EXCEPT !.pc = "done", !.result = result, !.read = session,
                                     !.envelope = NoEnvelope]
  <2>5. cl.pc = "done" /\ cl.call = client[c].call
    BY <2>1 DEF ClientStates
  <2>6. Answering(cl, stored, now)
    BY <2>1, <2>5 DEF Answering
  <2>7. ClearedFor(cl, RecordGeneration')
    BY <2>2 DEF ClearedFor
  <2> QED
    BY <1>0, <2>2, <2>4, <2>6, <2>7, AnswerMoves
<1> QED
  BY <1>1, <1>2

LEMMA CasReplaceAnswers ==
    ASSUME StoreInv, AnswerInv, NEW c \in Clients, CasReplace(c)
    PROVE  AnswerInv'
<1>0. UNCHANGED <<stored, now>>
  BY DEF CasReplace
<1>1. CASE ~ Unchanged(c)
  BY <1>0, <1>1, FinishAnswers DEF CasReplace
<1>2. CASE Unchanged(c)
  <2> DEFINE cl == [client[c] EXCEPT !.pc = "done", !.result = "updated",
                                     !.envelope = NoEnvelope]
  <2>1. client[c] \in ClientStates /\ Answering(client[c], stored, now)
    BY CallTypes DEF StoreInv, AnswerInv
  <2>2. cl.pc = "done" /\ cl.result = "updated" /\ cl.call = client[c].call
    BY <2>1 DEF ClientStates
  <2>3. Answering(cl, stored, now) /\ ClearedFor(cl, RecordGeneration')
    BY <2>1, <2>2 DEF Answering, ClearedFor
  <2>4. client' = [client EXCEPT ![c] = cl]
    BY <1>2, <2>1 DEF CasReplace, Finish, StoreInv, StoreTypeOK
  <2>5. Decrypt(redis) = client[c].call.expected /\ Decrypt(redis') = client[c].call.replacement
        /\ client[c].call.expected \in Sessions
    BY <1>2, ReplaceWins
  <2>6. client[c].call.replacement.sessionGeneration = client[c].call.expected.sessionGeneration
    BY <1>2, ReplaceWins DEF IsUpstreamCookieRenewal, IsCookieRenewal
  <2>7. redis # NoEnvelope
    BY <1>2, ReplaceWins DEF Envelopes
  <2>8. RecordGeneration' \subseteq RecordGeneration
    BY <2>5, <2>6, <2>7 DEF RecordGeneration, Record
  <2> QED
    BY <1>0, <2>3, <2>4, <2>8, AnswerMoves
<1> QED
  BY <1>1, <1>2

LEMMA AroundAnswers ==
    ASSUME StoreInv, AnswerInv,
           (\E c \in Clients : Return(c)) \/ Tick \/ Restart \/ RotateKey \/ UNCHANGED storeVars
    PROVE  AnswerInv'
<1>1. CASE \E c \in Clients : Return(c)
  <2>1. PICK c \in Clients : Return(c)
    BY <1>1
  <2> QED
    BY <2>1, IdleAnswers, QuietMoves DEF Return, Idle
<1>2. CASE Tick
  <2>1. now \in Nat /\ now' = now + 1 /\ UNCHANGED <<stored, client>>
    BY <1>2 DEF Tick, StoreInv, StoreTypeOK
  <2>2. RecordGeneration' \subseteq RecordGeneration
    BY <1>2 DEF Tick, RecordGeneration, Record, Decrypt
  <2>3. ASSUME NEW c \in Clients
        PROVE  Answering(client[c], stored, now + 1)
    <3>1. CASE client[c].pc \in {"expire", "delete", "replace"}
      <4> DEFINE session == Decrypt(client[c].envelope)
      <4>1. session = NoSession \/ session \in Sessions
        BY <3>1, DecryptType DEF StoreInv, Sound
      <4>2. ASSUME session \in Sessions, AbsoluteDead(session, now)
            PROVE  AbsoluteDead(session, now + 1)
        <5>1. session.capturedAt \in Int
          BY <4>2 DEF Sessions
        <5> QED
          BY <2>1, <4>2, <5>1 DEF AbsoluteDead
      <4> QED
        BY <3>1, <4>1, <4>2 DEF AnswerInv, Answering
    <3> QED
      BY <3>1 DEF AnswerInv, Answering
  <2> QED
    BY <2>1, <2>2, <2>3 DEF AnswerInv, ClearedFor
<1>3. CASE Restart \/ RotateKey
  BY <1>3, IdleAnswers DEF Restart, RotateKey, AnswerInv
<1>4. CASE UNCHANGED storeVars
  BY <1>4 DEF storeVars, AnswerInv, RecordGeneration, Record, Decrypt
<1> QED
  BY <1>1, <1>2, <1>3, <1>4

THEOREM AnswersInvariant == StoreSpec => []AnswerInv
<1>1. StoreInit => AnswerInv
  BY IdleAnswers DEF StoreInit, AnswerInv
<1>2. StoreInv /\ AnswerInv /\ [StoreNext]_storeVars => AnswerInv'
  <2> SUFFICES ASSUME StoreInv, AnswerInv, [StoreNext]_storeVars PROVE AnswerInv'
    OBVIOUS
  <2>1. ASSUME NEW c \in Clients, Call(c) \/ StoreStep(c) PROVE AnswerInv'
    BY <2>1, CallAnswers, GetAnswers, DecideAnswers, SetAnswers, SlideAnswers,
       CasDeleteAnswers, CasReplaceAnswers DEF StoreStep
  <2> QED
    BY <2>1, AroundAnswers DEF StoreNext
<1> QED
  BY <1>1, <1>2, StoreInvariant, PTL DEF StoreSpec

\* A logout that is answered ok has ended the session of its token for good.
THEOREM LogoutsAreFinal == StoreSpec => []LogoutIsFinal
<1>1. AnswerInv => LogoutIsFinal
  BY DEF AnswerInv, ClearedFor, LogoutIsFinal
<1> QED
  BY <1>1, AnswersInvariant, PTL

\* Whoever ends a call that had sent a command is the client itself.
LEMMA EndsItself ==
    ASSUME StoreInv, AnswerInv, [StoreNext]_storeVars, NEW c \in Clients,
           client[c].pc \in {"expire", "delete", "replace"}, client'[c] # client[c],
           client'[c].pc = "done"
    PROVE  CasExpire(c) \/ CasDelete(c) \/ CasReplace(c)
<1>0. client \in [Clients -> ClientStates]
  BY DEF StoreInv, StoreTypeOK
<1>1. ASSUME NEW d \in Clients, Call(d) \/ StoreStep(d) \/ Return(d), d # c
      PROVE  FALSE
  <2>1. \E cl : client' = [client EXCEPT ![d] = cl]
    <3>1. CASE Call(d) \/ Return(d)
      BY <3>1 DEF Call, CallSet, CallRead, CallQualified, CallReplace, Enter, Return
    <3>2. CASE StoreStep(d)
      <4>1. CASE Get(d)
        BY <1>0, <4>1 DEF Get, FinishNull, Finish, FinishRead
      <4>2. CASE Decide(d)
        <5>1. \/ \E result : Finish(d, result)
              \/ \E session : FinishRead(d, session)
              \/ \E command : Send(d, command)
          <6>1. CASE DecideAll(d)
            BY <6>1 DEF DecideAll
          <6>2. CASE DecideUnreadable(d)
            BY <6>2 DEF DecideUnreadable, FinishNull
          <6>3. CASE DecideReadable(d)
            <7>1. EvaluateRecord(Decrypt(client[d].envelope), now, client[d].call.generation)
                    \in {"absolute-dead", "generation-mismatch", "live"}
              BY DEF EvaluateRecord
            <7>2. \/ Send(d, "delete") \/ FinishMismatch(d)
                  \/ DecideLive(d, Decrypt(client[d].envelope))
              BY <6>3, <7>1 DEF DecideReadable
            <7>3. client[d].call.op \in {"get", "getIfGeneration", "clearIfGeneration",
                                         "replaceIfUnchanged"}
              BY <4>2, <6>3, CallTypes DEF StoreInv, Sound, Decide, DecideReadable, Operations
            <7> QED
              BY <7>2, <7>3 DEF FinishMismatch, DecideLive
          <6> QED
            BY <4>2, <6>1, <6>2, <6>3 DEF Decide
        <5> QED
          BY <5>1 DEF Finish, FinishRead, Send
      <4>3. CASE Set(d) \/ Slide(d) \/ CasExpire(d) \/ CasReplace(d)
        BY <4>3 DEF Set, Slide, CasExpire, CasReplace, Finish, FinishRead
      <4>4. CASE CasDelete(d)
        BY <4>4 DEF CasDelete, FinishNull, Finish, FinishRead
      <4> QED
        BY <3>2, <4>1, <4>2, <4>3, <4>4 DEF StoreStep
    <3> QED
      BY <1>1, <3>1, <3>2
  <2> QED
    BY <1>0, <1>1, <2>1
<1>2. ~ Call(c) /\ ~ Return(c)
  BY DEF Call, CallSet, CallRead, CallQualified, CallReplace, Enter, Return
<1>3. ~ Get(c) /\ ~ Decide(c) /\ ~ Set(c) /\ ~ Slide(c)
  BY DEF Get, Decide, Set, Slide
<1>4. ~ Tick /\ ~ Restart /\ ~ RotateKey /\ ~ UNCHANGED storeVars
  BY DEF Tick, Restart, RotateKey, storeVars, Idle
<1> QED
  BY <1>1, <1>2, <1>3, <1>4 DEF StoreNext, StoreStep

\* No interleaving makes a call with the token of one session slide, rewrite or
\* delete the session of another.
THEOREM QualifiedCallsAreHarmless == StoreSpec => QualifiedCallsSpareOthers
<1> DEFINE Spares(c) ==
      (/\ client[c].pc \in {"expire", "delete", "replace"}
       /\ client'[c].pc = "done"
       /\ client[c].call.generation # NoGeneration
       /\ Record # NoSession
       /\ Record.sessionGeneration # client[c].call.generation
       /\ ~ AbsoluteDead(Record, now))
      => UNCHANGED <<redis, expiresAt>>
<1>1. StoreInv /\ AnswerInv /\ [StoreNext]_storeVars => \A c \in Clients : Spares(c)
  <2> SUFFICES ASSUME StoreInv, AnswerInv, [StoreNext]_storeVars, NEW c \in Clients,
                      client[c].pc \in {"expire", "delete", "replace"},
                      client'[c].pc = "done",
                      client[c].call.generation # NoGeneration,
                      Record # NoSession,
                      Record.sessionGeneration # client[c].call.generation,
                      ~ AbsoluteDead(Record, now)
               PROVE  UNCHANGED <<redis, expiresAt>>
    OBVIOUS
  <2>1. CasExpire(c) \/ CasDelete(c) \/ CasReplace(c)
    BY EndsItself
  <2>2. ~ Unchanged(c)
    <3>1. SUFFICES ASSUME Unchanged(c) PROVE FALSE
      OBVIOUS
    <3>2. Record = Decrypt(client[c].envelope)
      BY <3>1 DEF Record, Unchanged
    <3> QED
      BY <3>2 DEF AnswerInv, Answering, GenerationMatches
  <2> QED
    BY <2>1, <2>2 DEF CasExpire, CasDelete, CasReplace
<1> QED
  BY <1>1, StoreInvariant, AnswersInvariant, PTL DEF StoreSpec, QualifiedCallsSpareOthers

\* A renewal overwrites nothing but the snapshot its caller read before it
\* validated the new cookie.
THEOREM NoRenewalIsLost == StoreSpec => NoLostRenewal
<1>1. StoreInv /\ AnswerInv /\ AnswerInv' /\ [StoreNext]_storeVars =>
        \A c \in Clients :
           (client[c].pc = "replace" /\ redis' # redis /\ client'[c].result = "updated")
           => Record = client[c].call.expected
  <2> SUFFICES ASSUME StoreInv, AnswerInv, AnswerInv', [StoreNext]_storeVars,
                      NEW c \in Clients, client[c].pc = "replace", redis' # redis,
                      client'[c].result = "updated"
               PROVE  Record = client[c].call.expected
    OBVIOUS
  <2>1. client[c].result = "void" /\ client'[c].pc = "done"
    BY DEF AnswerInv, Answering
  <2>2. client'[c] # client[c]
    BY <2>1
  <2>3. CasExpire(c) \/ CasDelete(c) \/ CasReplace(c)
    BY <2>1, <2>2, EndsItself
  <2>4. CasReplace(c) /\ Unchanged(c)
    BY <2>3 DEF CasReplace, CasExpire, CasDelete
  <2> QED
    BY <2>4, ReplaceWins DEF Record, Envelopes
<1> QED
  BY <1>1, StoreInvariant, AnswersInvariant, PTL DEF StoreSpec, NoLostRenewal

-----------------------------------------------------------------------------
(* What a step of the store makes of a call, for the modules that have calls *)
(* of their own to follow: the state of the client before and after it.      *)

\* A qualified read ends with a session of the generation it asked for, or none.
OwnRead(cl) ==
    /\ cl.pc \in {"get", "decide", "expire", "delete", "done"}
    /\ cl.pc = "expire" =>
          /\ Decrypt(cl.envelope) # NoSession
          /\ GenerationMatches(Decrypt(cl.envelope), cl.call.generation)
    /\ (cl.pc = "done" /\ cl.read # NoSession) =>
          GenerationMatches(cl.read, cl.call.generation)

\* The session a key holds, as Record has it.
SessionIn(e) == IF e = NoEnvelope THEN NoSession ELSE Decrypt(e)

LEMMA RecordIn ==
    /\ Record = SessionIn(redis)
    /\ \A generation : RecordGeneration = {generation} <=>
          (SessionIn(redis) # NoSession /\ SessionIn(redis).sessionGeneration = generation)
BY DEF Record, SessionIn, RecordGeneration

LEMMA RecordInLater ==
    /\ Record' = SessionIn(redis')
    /\ \A generation : RecordGeneration' = {generation} <=>
          (SessionIn(redis') # NoSession /\ SessionIn(redis').sessionGeneration = generation)
BY DEF Record, SessionIn, RecordGeneration

\* CAS_DELETE_LUA
DeletesOwn(old) == redis' = IF redis = old.envelope THEN NoEnvelope ELSE redis

StepsRead(old, new) ==
    /\ new.call = old.call /\ (new.result # "throw" \/ new.result = old.result)
    /\ \/ /\ old.pc = "get" /\ redis = NoEnvelope
          /\ new.pc = "done" /\ new.read = NoSession /\ UNCHANGED redis
       \/ /\ old.pc = "get" /\ redis # NoEnvelope
          /\ new.pc = "decide" /\ new.envelope = redis /\ UNCHANGED redis
       \/ /\ old.pc = "decide" /\ new.pc = "delete" /\ new.envelope = old.envelope
          /\ \/ Decrypt(old.envelope) = NoSession
             \/ AbsoluteDead(Decrypt(old.envelope), now)
          /\ UNCHANGED redis
       \/ /\ old.pc = "decide" /\ Decrypt(old.envelope) # NoSession
          /\ ~ GenerationMatches(Decrypt(old.envelope), old.call.generation)
          /\ new.pc = "done" /\ new.read = NoSession /\ UNCHANGED redis
       \/ /\ old.pc = "decide" /\ Decrypt(old.envelope) # NoSession
          /\ GenerationMatches(Decrypt(old.envelope), old.call.generation)
          /\ new.pc = "expire" /\ new.envelope = old.envelope /\ UNCHANGED redis
       \/ /\ old.pc = "expire" /\ new.pc = "done" /\ UNCHANGED redis
          /\ new.read = IF redis = old.envelope THEN Decrypt(old.envelope) ELSE NoSession
       \/ /\ old.pc = "delete" /\ new.pc = "done" /\ new.read = NoSession
          /\ DeletesOwn(old)

StepsClear(old, new) ==
    /\ new.call = old.call /\ (new.result # "throw" \/ new.result = old.result)
    /\ \/ /\ old.pc = "get" /\ redis = NoEnvelope
          /\ new.pc = "done" /\ new.result = "true" /\ UNCHANGED redis
       \/ /\ old.pc = "get" /\ redis # NoEnvelope
          /\ new.pc = "decide" /\ new.envelope = redis /\ UNCHANGED redis
       \/ /\ old.pc = "decide" /\ new.pc = "delete" /\ new.envelope = old.envelope
          /\ UNCHANGED redis
       \/ /\ old.pc = "decide" /\ Decrypt(old.envelope) # NoSession
          /\ ~ GenerationMatches(Decrypt(old.envelope), old.call.generation)
          /\ new.pc = "done" /\ new.result = "false" /\ UNCHANGED redis
       \/ /\ old.pc = "delete" /\ new.pc = "done" /\ DeletesOwn(old)
          /\ new.result = IF redis = old.envelope THEN "true" ELSE "false"

StepsReplace(old, new) ==
    /\ new.call = old.call
    /\ \/ /\ old.pc = "get" /\ redis = NoEnvelope
          /\ new.pc = "done" /\ new.result = "dead" /\ UNCHANGED redis
       \/ /\ old.pc = "get" /\ redis # NoEnvelope /\ new.result = old.result
          /\ new.pc = "decide" /\ new.envelope = redis /\ UNCHANGED redis
       \/ /\ old.pc = "decide" /\ new.pc = "delete" /\ new.envelope = old.envelope
          /\ \/ Decrypt(old.envelope) = NoSession
             \/ AbsoluteDead(Decrypt(old.envelope), now)
          /\ new.result = old.result /\ UNCHANGED redis
       \/ /\ old.pc = "decide" /\ Decrypt(old.envelope) # NoSession
          /\ \/ ~ GenerationMatches(Decrypt(old.envelope), old.call.generation)
             \/ Decrypt(old.envelope) # old.call.expected
          /\ new.pc = "done" /\ new.result = "conflict" /\ UNCHANGED redis
       \/ /\ old.pc = "decide" /\ new.pc = "done" /\ new.result = "throw" /\ UNCHANGED redis
          /\ ~ IsUpstreamCookieRenewal(old.call.generation, old.call.expected,
                                       old.call.replacement)
       \/ /\ old.pc = "decide" /\ Decrypt(old.envelope) = old.call.expected
          /\ new.pc = "replace" /\ new.envelope = old.envelope
          /\ new.result = old.result /\ UNCHANGED redis
       \/ /\ old.pc = "delete" /\ new.pc = "done" /\ new.result = "dead" /\ DeletesOwn(old)
       \/ /\ old.pc = "replace" /\ new.pc = "done" /\ redis = old.envelope
          /\ redis' = Envelope(old.call.iv, old.call.replacement) /\ new.result = "updated"
       \/ /\ old.pc = "replace" /\ new.pc = "done" /\ redis # old.envelope
          /\ UNCHANGED redis /\ new.result = "conflict"

StepsSet(old, new) ==
    /\ new.call = old.call /\ old.pc = "set" /\ new.pc = "done" /\ new.result = "void"

LEMMA ClientFields ==
    ASSUME StoreInv, NEW c \in Clients
    PROVE  /\ client \in [Clients -> ClientStates] /\ client[c] \in ClientStates
           /\ client[c].pc \in {"idle", "get", "decide", "done"} \cup Commands
           /\ client[c].call \in Calls /\ client[c].call.op \in Operations
           /\ client[c].result \in Results
           /\ client[c].envelope \in Envelopes \cup {NoEnvelope}
BY CallTypes DEF StoreInv, StoreTypeOK, ClientStates

\* evaluateRecord has one of three outcomes for a record that can be read.
LEMMA Decision ==
    ASSUME NEW c \in Clients, DecideReadable(c)
    PROVE  /\ client[c].call.op # "all"
           /\ Decrypt(client[c].envelope) # NoSession
           /\ \/ AbsoluteDead(Decrypt(client[c].envelope), now) /\ Send(c, "delete")
              \/ /\ ~ GenerationMatches(Decrypt(client[c].envelope), client[c].call.generation)
                 /\ FinishMismatch(c)
              \/ /\ GenerationMatches(Decrypt(client[c].envelope), client[c].call.generation)
                 /\ DecideLive(c, Decrypt(client[c].envelope))
BY DEF DecideReadable, EvaluateRecord

\* A step of the store is on one client's call, and draws no generation.
LEMMA StoreStepIsOfOne ==
    ASSUME StoreInv, NEW c \in Clients, StoreStep(c)
    PROVE  /\ \A d \in Clients \ {c} : client'[d] = client[d]
           /\ UNCHANGED <<now, issued, nextIv>>
<1>1. client \in [Clients -> ClientStates]
  BY ClientFields
<1>2. ASSUME NEW result, Finish(c, result)
      PROVE  \A d \in Clients \ {c} : client'[d] = client[d]
  BY <1>1, <1>2, ClientFields DEF Finish, ClientStates
<1>3. ASSUME NEW session, FinishRead(c, session)
      PROVE  \A d \in Clients \ {c} : client'[d] = client[d]
  BY <1>1, <1>3, ClientFields DEF FinishRead, ClientStates
<1>4. ASSUME NEW command, Send(c, command)
      PROVE  \A d \in Clients \ {c} : client'[d] = client[d]
  BY <1>1, <1>4, ClientFields DEF Send, ClientStates
<1>5. FinishNull(c) \/ FinishMismatch(c) => \A d \in Clients \ {c} : client'[d] = client[d]
  BY <1>2, <1>3 DEF FinishNull, FinishMismatch
<1>6. CASE Get(c)
  BY <1>1, <1>5, <1>6 DEF Get
<1>7. CASE Decide(c)
  <2>1. CASE DecideAll(c)
    BY <1>3, <1>7, <2>1 DEF Decide, DecideAll
  <2>2. CASE DecideUnreadable(c)
    BY <1>4, <1>5, <1>7, <2>2 DEF Decide, DecideUnreadable
  <2>3. CASE DecideReadable(c)
    <3>1. ASSUME NEW session, DecideLive(c, session)
          PROVE  \A d \in Clients \ {c} : client'[d] = client[d]
      <4>1. \/ Send(c, "slide") \/ Send(c, "expire") \/ Send(c, "delete") \/ Send(c, "replace")
            \/ Finish(c, "conflict") \/ Finish(c, "throw")
        <5>1. client[c].call.op \in {"get", "getIfGeneration", "clearIfGeneration",
                                    "replaceIfUnchanged"}
          <6>1. client[c].call.op # "set"
            BY <1>7, <2>3, ClientFields DEF StoreInv, Sound, Decide
          <6> QED
            BY <2>3, <6>1, ClientFields DEF DecideReadable, Operations
        <5> QED
          BY <3>1, <5>1 DEF DecideLive
      <4> QED
        BY <1>2, <1>4, <4>1
    <3>2. \/ Send(c, "delete") \/ FinishMismatch(c)
          \/ DecideLive(c, Decrypt(client[c].envelope))
      BY <2>3, Decision
    <3> QED
      BY <1>4, <1>5, <1>7, <3>1, <3>2 DEF Decide
  <2> QED
    BY <1>7, <2>1, <2>2, <2>3 DEF Decide
<1>8. CASE Set(c) \/ Slide(c) \/ CasExpire(c) \/ CasDelete(c) \/ CasReplace(c)
  BY <1>2, <1>3, <1>5, <1>8 DEF Set, Slide, CasExpire, CasDelete, CasReplace
<1> QED
  BY <1>6, <1>7, <1>8 DEF StoreStep, Get, Decide, Set, Slide, CasExpire, CasDelete, CasReplace

\* The steps of a qualified read, of a logout, of a renewal and of a login.
LEMMA ReadSteps ==
    ASSUME StoreInv, NEW c \in Clients, StoreStep(c),
           client[c].call.op = "getIfGeneration", OwnRead(client[c])
    PROVE  StepsRead(client[c], client'[c])
<1>1. client \in [Clients -> ClientStates] /\ client[c] \in ClientStates
  BY ClientFields
<1>2. CASE Get(c)
  BY <1>1, <1>2 DEF Get, FinishNull, FinishRead, StepsRead, ClientStates
<1>3. CASE Decide(c)
  <2>1. ~ DecideAll(c)
    BY DEF DecideAll
  <2>2. CASE DecideUnreadable(c)
    BY <1>1, <1>3, <2>2 DEF Decide, DecideUnreadable, Send, StepsRead, ClientStates
  <2>3. CASE DecideReadable(c)
    <3>1. FinishMismatch(c) => FinishRead(c, NoSession)
      BY DEF FinishMismatch
    <3>2. DecideLive(c, Decrypt(client[c].envelope)) => Send(c, "expire")
      BY DEF DecideLive, SameCapturedSession
    <3>3. CASE AbsoluteDead(Decrypt(client[c].envelope), now) /\ Send(c, "delete")
      BY <1>1, <1>3, <3>3 DEF Decide, Send, StepsRead, ClientStates
    <3>4. CASE /\ ~ GenerationMatches(Decrypt(client[c].envelope), client[c].call.generation)
               /\ FinishMismatch(c)
      BY <1>1, <1>3, <2>3, <3>1, <3>4, Decision DEF Decide, Finish, FinishRead, StepsRead, ClientStates
    <3>5. CASE /\ GenerationMatches(Decrypt(client[c].envelope), client[c].call.generation)
               /\ DecideLive(c, Decrypt(client[c].envelope))
      BY <1>1, <1>3, <2>3, <3>2, <3>5, Decision DEF Decide, Finish, Send, StepsRead, ClientStates
    <3> QED
      BY <2>3, <3>3, <3>4, <3>5, Decision
  <2> QED
    BY <1>3, <2>1, <2>2, <2>3 DEF Decide
<1>4. CASE CasExpire(c)
  BY <1>1, <1>4 DEF CasExpire, Unchanged, FinishRead, StepsRead, ClientStates
<1>5. CASE CasDelete(c)
  BY <1>1, <1>5 DEF CasDelete, Unchanged, FinishNull, FinishRead, StepsRead, DeletesOwn,
     ClientStates
<1> QED
  BY <1>2, <1>3, <1>4, <1>5 DEF StoreStep, OwnRead, Set, Slide, CasReplace

LEMMA ClearSteps ==
    ASSUME StoreInv, NEW c \in Clients, StoreStep(c),
           client[c].call.op = "clearIfGeneration",
           client[c].pc \in {"get", "decide", "delete", "done"}
    PROVE  StepsClear(client[c], client'[c])
<1>1. client \in [Clients -> ClientStates] /\ client[c] \in ClientStates
  BY ClientFields
<1>2. CASE Get(c)
  BY <1>1, <1>2 DEF Get, FinishNull, Finish, StepsClear, ClientStates
<1>3. CASE Decide(c)
  <2>1. ~ DecideAll(c)
    BY DEF DecideAll
  <2>2. CASE DecideUnreadable(c)
    BY <1>1, <1>3, <2>2 DEF Decide, DecideUnreadable, Send, StepsClear, ClientStates
  <2>3. CASE DecideReadable(c)
    <3>1. FinishMismatch(c) => Finish(c, "false")
      BY DEF FinishMismatch
    <3>2. DecideLive(c, Decrypt(client[c].envelope)) => Send(c, "delete")
      BY DEF DecideLive, SameCapturedSession
    <3>3. CASE AbsoluteDead(Decrypt(client[c].envelope), now) /\ Send(c, "delete")
      BY <1>1, <1>3, <3>3 DEF Decide, Send, StepsClear, ClientStates
    <3>4. CASE /\ ~ GenerationMatches(Decrypt(client[c].envelope), client[c].call.generation)
               /\ FinishMismatch(c)
      BY <1>1, <1>3, <2>3, <3>1, <3>4, Decision DEF Decide, Finish, FinishRead, StepsClear, ClientStates
    <3>5. CASE /\ GenerationMatches(Decrypt(client[c].envelope), client[c].call.generation)
               /\ DecideLive(c, Decrypt(client[c].envelope))
      BY <1>1, <1>3, <2>3, <3>2, <3>5, Decision DEF Decide, Finish, Send, StepsClear, ClientStates
    <3> QED
      BY <2>3, <3>3, <3>4, <3>5, Decision
  <2> QED
    BY <1>3, <2>1, <2>2, <2>3 DEF Decide
<1>4. CASE CasDelete(c)
  BY <1>1, <1>4 DEF CasDelete, Unchanged, FinishNull, Finish, StepsClear, DeletesOwn,
     ClientStates
<1> QED
  BY <1>2, <1>3, <1>4 DEF StoreStep, Set, Slide, CasReplace, CasExpire

LEMMA ReplaceSteps ==
    ASSUME StoreInv, NEW c \in Clients, StoreStep(c),
           client[c].call.op = "replaceIfUnchanged",
           client[c].pc \in {"get", "decide", "delete", "replace", "done"}
    PROVE  StepsReplace(client[c], client'[c])
<1>1. client \in [Clients -> ClientStates] /\ client[c] \in ClientStates
  BY ClientFields
<1>2. CASE Get(c)
  BY <1>1, <1>2 DEF Get, FinishNull, Finish, StepsReplace, ClientStates
<1>3. CASE Decide(c)
  <2>1. ~ DecideAll(c)
    BY DEF DecideAll
  <2>2. CASE DecideUnreadable(c)
    BY <1>1, <1>3, <2>2 DEF Decide, DecideUnreadable, Send, StepsReplace, ClientStates
  <2>3. CASE DecideReadable(c)
    <3>1. FinishMismatch(c) => Finish(c, "conflict")
      BY DEF FinishMismatch
    <3>2. DecideLive(c, Decrypt(client[c].envelope)) => 
            \/ /\ Decrypt(client[c].envelope) # client[c].call.expected
               /\ Finish(c, "conflict")
            \/ /\ ~ IsUpstreamCookieRenewal(client[c].call.generation,
                       client[c].call.expected, client[c].call.replacement)
               /\ Finish(c, "throw")
            \/ /\ Decrypt(client[c].envelope) = client[c].call.expected
               /\ Send(c, "replace")
      BY DEF DecideLive, SameCapturedSession
    <3>3. CASE AbsoluteDead(Decrypt(client[c].envelope), now) /\ Send(c, "delete")
      BY <1>1, <1>3, <3>3 DEF Decide, Send, StepsReplace, ClientStates
    <3>4. CASE /\ ~ GenerationMatches(Decrypt(client[c].envelope), client[c].call.generation)
               /\ FinishMismatch(c)
      BY <1>1, <1>3, <2>3, <3>1, <3>4, Decision DEF Decide, Finish, FinishRead, StepsReplace, ClientStates
    <3>5. CASE /\ GenerationMatches(Decrypt(client[c].envelope), client[c].call.generation)
               /\ DecideLive(c, Decrypt(client[c].envelope))
      BY <1>1, <1>3, <2>3, <3>2, <3>5, Decision DEF Decide, Finish, Send, StepsReplace, ClientStates
    <3> QED
      BY <2>3, <3>3, <3>4, <3>5, Decision
  <2> QED
    BY <1>3, <2>1, <2>2, <2>3 DEF Decide
<1>4. CASE CasDelete(c)
  BY <1>1, <1>4 DEF CasDelete, Unchanged, FinishNull, Finish, StepsReplace, DeletesOwn,
     ClientStates
<1>5. CASE CasReplace(c)
  BY <1>1, <1>5 DEF CasReplace, Unchanged, Finish, StepsReplace, ClientStates
<1> QED
  BY <1>2, <1>3, <1>4, <1>5 DEF StoreStep, Set, Slide, CasExpire

LEMMA SetSteps ==
    ASSUME StoreInv, NEW c \in Clients, StoreStep(c),
           client[c].call.op = "set", client[c].pc \in {"set", "done"}
    PROVE  StepsSet(client[c], client'[c])
<1>1. client \in [Clients -> ClientStates] /\ client[c] \in ClientStates
  BY ClientFields
<1> QED
  BY <1>1 DEF StoreStep, Get, Decide, Slide, CasExpire, CasDelete, CasReplace, Set, Finish,
     StepsSet, ClientStates

\* A call that is entered: nobody else moves, and Redis is not touched.
LEMMA EnterEffect ==
    ASSUME StoreInv, NEW c \in Clients, NEW call, NEW pc, Enter(c, call, pc)
    PROVE  /\ \A d \in Clients \ {c} : client'[d] = client[d]
           /\ client'[c].pc = pc /\ client'[c].call = call /\ client'[c].result = "void"
           /\ UNCHANGED redis
<1>1. client'[c] = [Idle EXCEPT !.pc = pc, !.call = call]
  BY DEF Enter, StoreInv, StoreTypeOK
<1> QED
  BY <1>1 DEF Enter, StoreInv, StoreTypeOK, Idle

=============================================================================
