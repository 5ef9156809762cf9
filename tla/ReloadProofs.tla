---------------------------- MODULE ReloadProofs ----------------------------
(***************************************************************************)
(* For any number of clients, specs and spec sizes: rush is only ever      *)
(* configured with whole, valid specs, a missed SIGHUP is the only way for *)
(* it to rest on a spec that is not the file's, and each exception that    *)
(* can end the frontend has the cause that FrontendEnds states.            *)
(***************************************************************************)
EXTENDS Reload, TLAPS

LEMMA InitIInv ==
  ASSUME Init
  PROVE  IInv
  <1>1. file \in Content
    BY DEF Init, Content, Whole
  <1>2. EmptyFile \in Content
    BY DEF Content
  <1>3. TypeOK
    BY <1>1, <1>2 DEF Init, TypeOK
  <1>4. AppliesWholeSpecs
    BY DEF Init, AppliesWholeSpecs
  <1>. QED BY <1>3, <1>4 DEF Init, IInv

LEMMA PostOpenStep ==
  ASSUME IInv, NEW r \in Request, NEW c \in Conf, PostOpen(r, c)
  PROVE  IInv'
  BY DEF PostOpen, IInv, TypeOK, AppliesWholeSpecs, rushVars, Content, read_qos_spec, Parses

\* A write leaves a spec at the head and the size of some spec, its own or the
\* longer one it was written over.
LEMMA PostWriteStep ==
  ASSUME IInv, NEW r \in Request, PostWrite(r)
  PROVE  IInv'
  <1>1. body[r] \in Conf
    BY DEF IInv, PostWrite
  <1>2. file' \in Content
    <2>1. file.size > Size[body[r]] => file.size \in {Size[c] : c \in Conf}
      BY <1>1, SizeAssumption DEF IInv, TypeOK, Content, EmptyFile
    <2>. QED BY <1>1, <2>1 DEF PostWrite, Content
  <1>3. ~ \A q \in Request : request'[q] \in {"new", "done"}
    BY DEF PostWrite, IInv, TypeOK
  <1>. QED BY <1>1, <1>2, <1>3 DEF PostWrite, IInv, TypeOK, AppliesWholeSpecs, rushVars

LEMMA PostCallbackStep ==
  ASSUME IInv, NEW r \in Request, PostCallback(r)
  PROVE  IInv'
  <1>1. CASE rushGone
    BY <1>1 DEF PostCallback, IInv, TypeOK, AppliesWholeSpecs, rushVars
  <1>2. CASE ~rushGone
    BY <1>2 DEF PostCallback, rushGone, Signal, IInv, TypeOK, AppliesWholeSpecs
  <1>. QED BY <1>1, <1>2

LEMMA GetStep ==
  ASSUME IInv, Get
  PROVE  IInv'
  BY DEF Get, IInv, TypeOK, AppliesWholeSpecs, rushVars, Parses

\* The handlers of profiles, and errors of the file system, leave the spec file,
\* the POSTs and rush alone.
LEMMA ServeStep ==
  ASSUME IInv,
         \/ \E t \in Transfer : GetProfile(t) \/ \E aborted \in BOOLEAN : ProfileSent(t, aborted)
         \/ FileError
  PROVE  IInv' /\ UNCHANGED <<file, request, body, raced, rushVars>>
  <1>1. /\ UNCHANGED <<file, request, body, raced, rushVars>>
        /\ thrown' \in {"none", "parse", "kill", "missing", "aborted", "file"}
        /\ sending' \subseteq Transfer
    BY DEF IInv, TypeOK, GetProfile, ProfileSent, FileError
  <1>. QED BY <1>1 DEF IInv, TypeOK, AppliesWholeSpecs, rushVars, read_qos_spec, Parses

LEMMA ReadStep ==
  ASSUME IInv, try_read_qos_spec
  PROVE  IInv'
  BY DEF try_read_qos_spec, IInv, TypeOK, AppliesWholeSpecs, frontendVars, Content

\* The spec is applied when there is one; it was whole when it was read.
LEMMA ConfigureStep ==
  ASSUME IInv, configure
  PROVE  IInv'
  <1>1. spec # EmptyFile => spec \in {Whole(c) : c \in Conf \ BadConf}
    BY DEF IInv, TypeOK, Content, Whole, read_qos_spec, Parses
  <1>2. read_qos_spec(file) => file # EmptyFile
    BY ConfAssumption DEF read_qos_spec, Parses, EmptyFile
  <1>. QED BY <1>1, <1>2 DEF configure, IInv, TypeOK, AppliesWholeSpecs, frontendVars

LEMMA RegisterStep ==
  ASSUME IInv, signal_received
  PROVE  IInv'
  BY DEF signal_received, IInv, TypeOK, AppliesWholeSpecs, frontendVars

LEMMA DoneStep ==
  ASSUME IInv, done
  PROVE  IInv'
  BY DEF done, IInv, TypeOK, AppliesWholeSpecs, frontendVars

LEMMA PanicStep ==
  ASSUME IInv, panic
  PROVE  IInv'
  BY DEF panic, IInv, TypeOK, AppliesWholeSpecs, frontendVars

LEMMA IInvStep ==
  ASSUME IInv, [Next]_vars
  PROVE  IInv'
  <1>1. CASE UNCHANGED vars
    BY <1>1 DEF vars, frontendVars, rushVars, IInv, TypeOK, AppliesWholeSpecs
  <1>2. CASE Frontend
    BY <1>2, PostOpenStep, PostWriteStep, PostCallbackStep, GetStep, ServeStep DEF Frontend
  <1>3. CASE Rush
    BY <1>3, ReadStep, ConfigureStep, RegisterStep, DoneStep DEF Rush
  <1>. QED BY <1>1, <1>2, <1>3, PanicStep DEF Next

THEOREM InductiveInvariant == Spec => []IInv
  <1>1. Init => IInv
    BY InitIInv
  <1>2. IInv /\ [Next]_vars => IInv'
    BY IInvStep
  <1>. QED BY <1>1, <1>2, PTL DEF Spec

\* main configures the engine with nothing but a whole, valid spec, whoever
\* writes the file at the time.
THEOREM OnlyWholeSpecsRun == Spec => []AppliesWholeSpecs
  <1>1. IInv => AppliesWholeSpecs
    BY DEF IInv
  <1>. QED BY <1>1, InductiveInvariant, PTL

\* The window between read_qos_spec and signal_received is the only race
\* through which a POST that was answered is not applied.
THEOREM OnlyMissedSignalsAreLost == Spec => []RunsFileUnlessMissed
  <1>1. IInv => RunsFileUnlessMissed
    BY DEF IInv, RunsFileUnlessMissed, Settled
  <1>. QED BY <1>1, InductiveInvariant, PTL

\* FrontendInv is about the spec file and the POSTs, which no step of rush touches.
LEMMA FrontendInvKept ==
  ASSUME FrontendInv, UNCHANGED <<file, request, raced>>
  PROVE  FrontendInv'
  BY DEF FrontendInv, Truncated, Parses

LEMMA FrontendInvOpen ==
  ASSUME IInv, FrontendInv, NEW r \in Request, NEW c \in Conf, PostOpen(r, c)
  PROVE  FrontendInv'
  <1>1. request'[r] = "opened"
    BY DEF PostOpen, IInv, TypeOK
  <1>2. ASSUME ~raced'
        PROVE  \A p, q \in Request : request'[p] = "opened" /\ request'[q] = "opened" => p = q
    BY <1>2 DEF PostOpen, IInv, TypeOK, Truncated
  <1>. QED BY <1>1, <1>2 DEF PostOpen, FrontendInv, Truncated

\* The file was empty, so that the text is all there is in it.
LEMMA FrontendInvWrite ==
  ASSUME IInv, FrontendInv, NEW r \in Request, PostWrite(r)
  PROVE  FrontendInv'
  <1>1. ASSUME ~raced'
        PROVE  /\ \A p, q \in Request : request'[p] = "opened" /\ request'[q] = "opened" => p = q
               /\ ~Truncated'
    BY <1>1 DEF PostWrite, IInv, TypeOK, FrontendInv, Truncated
  <1>2. ASSUME ~raced'
        PROVE  Parses(file')
    <2>1. file = EmptyFile /\ body[r] \in Conf
      BY <1>2 DEF PostWrite, IInv, FrontendInv, Truncated
    <2>2. Size[body[r]] \in Nat \ {0} /\ file.size = 0
      BY <2>1, SizeAssumption DEF EmptyFile
    <2>. QED BY <2>1, <2>2 DEF PostWrite, Parses
  <1>. QED BY <1>1, <1>2 DEF FrontendInv, Parses

LEMMA FrontendInvCallback ==
  ASSUME IInv, FrontendInv, NEW r \in Request, PostCallback(r)
  PROVE  FrontendInv'
  <1>1. Truncated' = Truncated /\ raced' = raced /\ file' = file
    BY DEF PostCallback, IInv, TypeOK, Truncated
  <1>2. \A p \in Request : request'[p] = "opened" => request[p] = "opened"
    BY DEF PostCallback, IInv, TypeOK
  <1>. QED BY <1>1, <1>2 DEF FrontendInv, Parses

LEMMA FrontendInvGet ==
  ASSUME FrontendInv, Get
  PROVE  FrontendInv'
  BY DEF Get, rushVars, FrontendInv, Truncated, Parses

LEMMA FrontendInvStep ==
  ASSUME IInv, FrontendInv, [Next]_vars
  PROVE  FrontendInv'
  <1>1. CASE UNCHANGED vars
    BY <1>1, FrontendInvKept DEF vars, frontendVars
  <1>2. CASE Rush \/ panic
    <2>1. UNCHANGED <<file, frontendVars>>
      BY <1>2 DEF Rush, try_read_qos_spec, configure, signal_received, done, panic
    <2>. QED BY <2>1, FrontendInvKept DEF frontendVars
  <1>3. CASE Frontend
    BY <1>3, ServeStep, FrontendInvKept, FrontendInvOpen, FrontendInvWrite, FrontendInvCallback,
       FrontendInvGet DEF Frontend
  <1>. QED BY <1>1, <1>2, <1>3 DEF Next

\* A step that throws tells something of the state in which it is taken.
LEMMA ThrowStep ==
  ASSUME IInv, FrontendInv, Next
  PROVE  ThrowsForACause
  <1>1. CASE Rush \/ panic
    BY <1>1 DEF Rush, try_read_qos_spec, configure, signal_received, done, panic, frontendVars,
                ThrowsForACause
  <1>2. ASSUME NEW r \in Request, NEW c \in Conf, PostOpen(r, c)
        PROVE  ThrowsForACause
    BY <1>2 DEF PostOpen, ThrowsForACause
  <1>3. ASSUME NEW r \in Request, PostCallback(r)
        PROVE  ThrowsForACause
    BY <1>3 DEF PostCallback, rushGone, IInv, ThrowsForACause
  <1>4. ASSUME Get
        PROVE  ThrowsForACause
    <2>1. ~Parses(file) => raced \/ Truncated
      BY DEF FrontendInv
    <2>. QED BY <1>4, <2>1 DEF Get, ThrowsForACause
  <1>5. ASSUME NEW t \in Transfer, GetProfile(t)
        PROVE  ThrowsForACause
    BY <1>5 DEF GetProfile, IInv, ThrowsForACause
  <1>6. ASSUME NEW t \in Transfer, NEW aborted \in BOOLEAN, ProfileSent(t, aborted)
        PROVE  ThrowsForACause
    BY <1>6 DEF ProfileSent, ThrowsForACause
  <1>7. ASSUME FileError
        PROVE  ThrowsForACause
    BY <1>7 DEF FileError, ThrowsForACause
  <1>8. ASSUME NEW r \in Request, PostWrite(r)
        PROVE  ThrowsForACause
    BY <1>8 DEF PostWrite, ThrowsForACause
  <1>. QED BY <1>1, <1>2, <1>3, <1>4, <1>5, <1>6, <1>7, <1>8 DEF Next, Frontend

\* No sequence of requests of one client at a time makes JSON.parse throw
\* (frontend.js:38), process.kill finds no process (frontend.js:48) only after a
\* panic or a SIGHUP before the first registration (synthetic_network.rs:420), and
\* sendFile finds no profile (frontend.js:59, 67) only before the first spec applied.
THEOREM WhatEndsTheFrontend == Spec => FrontendEnds
  <1>1. Init => FrontendInv
    BY ConfAssumption DEF Init, FrontendInv, Truncated, Whole, Parses
  <1>2. IInv /\ FrontendInv /\ [Next]_vars => FrontendInv'
    BY FrontendInvStep
  <1>3. IInv /\ FrontendInv /\ [Next]_vars => [ThrowsForACause]_vars
    BY ThrowStep
  <1>. QED BY <1>1, <1>2, <1>3, InductiveInvariant, PTL DEF Spec, FrontendEnds
=============================================================================
