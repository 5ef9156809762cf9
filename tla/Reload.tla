------------------------------- MODULE Reload -------------------------------
(***************************************************************************)
(* How a new QoS spec reaches the running network: the frontend's handlers *)
(* (frontend/frontend.js), the spec file, SIGHUP, and rush's main loop     *)
(* (rush/src/synthetic_network.rs).  Two processes and the files they      *)
(* share: each file system call and each step of the main loop is an       *)
(* action.  A file is written from its start over what is there, so all    *)
(* that matters of its contents is the spec at its head and its size: a    *)
(* longer spec's tail may be left behind a shorter one.  What is in a      *)
(* profile is left to module Profile; here it exists or not.  An exception *)
(* in a callback of the frontend is caught by nobody and ends it.          *)
(***************************************************************************)
EXTENDS Naturals

CONSTANTS Conf,       \* QoS specs a client posts
          BadConf,    \* those sanitize_labels (or serde) rejects
          Size,       \* length of each spec's JSON text
          NoConf,     \* no spec
          Request,    \* bound: the POST requests made
          Transfer    \* bound: the profiles sent at a time

ASSUME ConfAssumption == BadConf \subseteq Conf /\ NoConf \notin Conf
ASSUME SizeAssumption == Size \in [Conf -> Nat \ {0}]

VARIABLES file,        \* contents of specpath: [conf, size]
          request,     \* POST -> "new", "opened", "written" or "done"
          body,        \* POST -> its body, once it has begun
          thrown,      \* the exception that ended the frontend, or "none"
          sending,     \* profiles that sendFile is sending
          raced,       \* history: a GET or a second POST met a truncated file
          pc,          \* rush: "read", "configure", "register", "breathe", "killed", "panicked"
          spec,        \* rush: what try_read_qos_spec returned
          running,     \* rush: the spec the engine is configured with
          profile,     \* rush: the Top apps' files exist
          handler,     \* rush: a SIGHUP handler is registered
          flag,        \* rush: the flag registered last
          missed       \* history: a SIGHUP came after the read, before register

frontendVars == <<request, body, thrown, sending, raced>>
rushVars == <<pc, spec, running, profile, handler, flag, missed>>
vars == <<file, frontendVars, rushVars>>

Whole(c) == [conf |-> c, size |-> Size[c]]
EmptyFile == [conf |-> NoConf, size |-> 0]

\* JSON.parse and serde_json::from_reader accept a text that is one spec, with
\* nothing after it.
Parses(f) == f.conf \in Conf /\ f.size = Size[f.conf]

\* Mutant: what follows the spec is not looked at.
read_qos_spec_Prefix(f) == f.conf \in Conf \ BadConf
\* read_qos_spec succeeds.
read_qos_spec(f) == Parses(f) /\ f.conf \notin BadConf

\* setup.sh starts rush and the frontend on a spec file that exists; the user
\* may have put any spec there.  The profiles are there if the container ran before.
Init == /\ file \in {Whole(c) : c \in Conf}
        /\ request = [r \in Request |-> "new"]
        /\ body = [r \in Request |-> NoConf]
        /\ thrown = "none" /\ sending = {} /\ raced = FALSE
        /\ pc = "read" /\ profile \in BOOLEAN
        /\ spec = EmptyFile /\ running = EmptyFile
        /\ handler = FALSE /\ flag = FALSE
        /\ missed = FALSE

-----------------------------------------------------------------------------
(* The frontend.                                                           *)

frontendUp == thrown = "none"
rushGone == pc \in {"killed", "panicked"}

\* A POST has truncated the file and not written it yet.
Truncated == \E r \in Request : request[r] = "opened"

\* Mutant: the file is not truncated.
PostOpen_Keep(r, c) ==
  /\ frontendUp
  /\ request[r] = "new"
  /\ request' = [request EXCEPT ![r] = "opened"]
  /\ body' = [body EXCEPT ![r] = c]
  /\ raced' = (raced \/ Truncated)
  /\ UNCHANGED <<file, thrown, sending, rushVars>>
\* POST /qos: fs.writeFile opens the file, which truncates it.
PostOpen(r, c) ==
  /\ frontendUp
  /\ request[r] = "new"
  /\ request' = [request EXCEPT ![r] = "opened"]
  /\ body' = [body EXCEPT ![r] = c]
  /\ file' = EmptyFile
  /\ raced' = (raced \/ Truncated)
  /\ UNCHANGED <<thrown, sending, rushVars>>

\* ... and writes the text from offset 0.
PostWrite(r) ==
  /\ frontendUp
  /\ request[r] = "opened"
  /\ request' = [request EXCEPT ![r] = "written"]
  /\ file' = [conf |-> body[r],
              size |-> IF file.size > Size[body[r]] THEN file.size ELSE Size[body[r]]]
  /\ UNCHANGED <<body, thrown, sending, raced, rushVars>>

\* SIGHUP as the kernel and signal_hook deliver it: rush's flag is set, or rush
\* is killed when it has not registered a handler yet.
Signal == /\ IF handler THEN flag' = TRUE /\ UNCHANGED pc
                        ELSE pc' = "killed" /\ UNCHANGED flag
          /\ missed' = (missed \/ pc \in {"configure", "register"})
          /\ UNCHANGED <<spec, running, profile, handler>>

\* The callback of fs.writeFile: send SIGHUP, then respond OK.  process.kill
\* throws when there is no such process.
PostCallback(r) ==
  /\ frontendUp
  /\ request[r] = "written"
  /\ IF rushGone
     THEN thrown' = "kill" /\ UNCHANGED <<request, rushVars>>
     ELSE /\ request' = [request EXCEPT ![r] = "done"]
          /\ Signal
          /\ UNCHANGED thrown
  /\ UNCHANGED <<file, body, sending, raced>>

\* GET /qos: respond with the file's contents; JSON.parse may throw.
Get == /\ frontendUp
       /\ thrown' = IF Parses(file) THEN "none" ELSE "parse"
       /\ raced' = (raced \/ Truncated)
       /\ UNCHANGED <<file, request, body, sending, rushVars>>

\* GET /top/ingress.profile and egress.profile: the callback of sendFile throws
\* the error it is given.  There is one when there is no such file ...
GetProfile(t) ==
  /\ frontendUp
  /\ t \notin sending
  /\ IF profile THEN sending' = sending \cup {t} /\ UNCHANGED thrown
                ELSE thrown' = "missing" /\ UNCHANGED sending
  /\ UNCHANGED <<file, request, body, raced, rushVars>>

\* ... and when the client closes the connection before the end of the file.
ProfileSent(t, aborted) ==
  /\ frontendUp
  /\ t \in sending
  /\ sending' = sending \ {t}
  /\ thrown' = IF aborted THEN "aborted" ELSE "none"
  /\ UNCHANGED <<file, request, body, raced, rushVars>>

\* The file system refuses the frontend a call (of fs.readFile or fs.writeFile,
\* which throw in their callbacks, or for sendFile): no permission, or a full disk.
FileError == /\ frontendUp
             /\ thrown' = "file"
             /\ UNCHANGED <<file, request, body, sending, raced, rushVars>>

-----------------------------------------------------------------------------
(* rush: main and signal_received.                                         *)

\* Mutant: a spec is only read while none is running.
try_read_qos_spec_Once ==
  /\ pc = "read"
  /\ pc' = "configure"
  /\ spec' = IF running = EmptyFile /\ read_qos_spec(file) THEN file ELSE EmptyFile
  /\ missed' = FALSE
  /\ UNCHANGED <<file, frontendVars, running, profile, handler, flag>>
try_read_qos_spec ==
  /\ pc = "read"
  /\ pc' = "configure"
  /\ spec' = IF read_qos_spec(file) THEN file ELSE EmptyFile
  /\ missed' = FALSE
  /\ UNCHANGED <<file, frontendVars, running, profile, handler, flag>>

\* engine::configure, if there is a spec; the Top apps that it starts make their
\* files, which nobody removes.
configure ==
  /\ pc = "configure"
  /\ pc' = "register"
  /\ running' = IF spec = EmptyFile THEN running ELSE spec
  /\ profile' = (profile \/ spec # EmptyFile)
  /\ UNCHANGED <<file, frontendVars, spec, handler, flag, missed>>

\* signal_received: a new flag is registered next to the earlier ones, which
\* nobody reads any more.
signal_received ==
  /\ pc = "register"
  /\ pc' = "breathe"
  /\ handler' = TRUE
  /\ flag' = FALSE
  /\ UNCHANGED <<file, frontendVars, spec, running, profile, missed>>

\* Mutant: the flag is not handed to engine::main as its `done'.
done_NotPassed == FALSE /\ UNCHANGED vars
\* engine::main breathes until done() swaps a flag that is set; main reports
\* the load and starts over.
done ==
  /\ pc = "breathe"
  /\ flag
  /\ flag' = FALSE
  /\ pc' = "read"
  /\ UNCHANGED <<file, frontendVars, spec, running, profile, handler, missed>>

\* An app panics, in a breath (modules Delay and PacketPool say when) or when
\* configure makes it (Loss asserts its ratio, which sanitize_labels does not look
\* at; the Top apps may have been made before): rush ends.
panic ==
  /\ pc = "breathe" \/ (pc = "configure" /\ spec # EmptyFile)
  /\ pc' = "panicked"
  /\ profile' \in {profile, profile \/ pc = "configure"}
  /\ UNCHANGED <<file, frontendVars, spec, running, handler, flag, missed>>

Frontend == \/ \E r \in Request, c \in Conf : PostOpen(r, c)
            \/ \E r \in Request : PostWrite(r) \/ PostCallback(r)
            \/ Get
            \/ \E t \in Transfer : GetProfile(t) \/ \E aborted \in BOOLEAN : ProfileSent(t, aborted)
            \/ FileError
Rush == try_read_qos_spec \/ configure \/ signal_received \/ done

Next == Frontend \/ Rush \/ panic

\* rush is scheduled, and the file system calls of the frontend return.
Fairness == /\ WF_vars(Rush)
            /\ \A r \in Request : WF_vars(PostWrite(r) \/ PostCallback(r))

Spec == Init /\ [][Next]_vars /\ Fairness

-----------------------------------------------------------------------------

Content == {EmptyFile} \cup [conf : Conf, size : {Size[c] : c \in Conf}]

TypeOK == /\ file \in Content
          /\ request \in [Request -> {"new", "opened", "written", "done"}]
          /\ body \in [Request -> Conf \cup {NoConf}]
          /\ thrown \in {"none", "parse", "kill", "missing", "aborted", "file"}
          /\ sending \subseteq Transfer /\ raced \in BOOLEAN /\ profile \in BOOLEAN
          /\ pc \in {"read", "configure", "register", "breathe", "killed", "panicked"}
          /\ spec \in Content /\ running \in Content
          /\ handler \in BOOLEAN /\ flag \in BOOLEAN /\ missed \in BOOLEAN

\* Whatever two clients write over each other, and whenever rush reads, the
\* engine is configured with nothing but whole, valid specs: a truncated or
\* mixed file makes try_read_qos_spec keep the running configuration.
AppliesWholeSpecs == running \in {EmptyFile} \cup {Whole(c) : c \in Conf \ BadConf}

\* No POST is under way and rush has seen every signal it will see.
Settled == /\ \A r \in Request : request[r] \in {"new", "done"}
           /\ pc = "breathe" /\ ~flag

\* When everything is answered and rush breathes, it runs what the file holds
\* (if that is a spec at all), unless a SIGHUP came while rush was between
\* reading the spec and registering its next flag.
RunsFileUnlessMissed == Settled /\ ~missed /\ read_qos_spec(file) => running = file

\* What a step in which the frontend throws shows.
ThrowsForACause ==
  thrown' # thrown =>
    /\ thrown' = "parse" => raced'
    /\ thrown' = "kill" => pc = "panicked" \/ (pc = "killed" /\ ~handler)
    /\ thrown' = "missing" => running = EmptyFile

\* What ends the frontend, besides a client that closes its connection while it
\* is sent a profile and a file system that refuses a call (both do, at any time:
\* frontend.js throws in those callbacks): JSON.parse throws only after a GET or
\* another POST met the file that a POST had truncated and not yet written (even if
\* the mixture that two POSTs leave behind is read much later); process.kill only
\* if rush panicked, or a SIGHUP reached it before its first handler; and a profile
\* is missing only while rush has not applied any spec.
FrontendEnds == [][ThrowsForACause]_vars

\* The inductive invariant: between POSTs, and unless a signal was missed, what
\* rush has read is still what the file holds, wherever it is in its loop.
IInv == /\ TypeOK
        /\ AppliesWholeSpecs
        /\ spec # EmptyFile => read_qos_spec(spec)
        /\ \A r \in Request : request[r] # "new" => body[r] \in Conf
        /\ pc = "breathe" => handler
        /\ pc = "killed" => ~handler
        /\ running # EmptyFile => profile
        /\ ((\A r \in Request : request[r] \in {"new", "done"})
              /\ ~missed /\ read_qos_spec(file))
             => /\ pc = "configure" => spec = file
                /\ pc = "register" => running = file
                /\ pc = "breathe" /\ ~flag => running = file

\* What keeps the frontend alive: without a race, one POST at a time finds an
\* empty file and leaves a whole one.
FrontendInv ==
  ~raced =>
    /\ \A q, r \in Request : request[q] = "opened" /\ request[r] = "opened" => q = r
    /\ IF Truncated THEN file = EmptyFile ELSE Parses(file)

\* After the last POST is answered, rush reloads as often as it was told to,
\* comes to rest and runs the spec in the file, unless a signal was missed or
\* killed it, an app panicked or the file is not a spec.
Converges == (\A r \in Request : request[r] = "done") ~>
               \/ Settled /\ (missed \/ ~read_qos_spec(file) \/ running = file)
               \/ rushGone

\* doc/report2/README.md:73: "If you send the `SIGHUP` signal to the synthetic
\* network program it will reload and apply the new configuration": once all
\* is quiet, the spec in the file runs.
RunsFile == Settled /\ read_qos_spec(file) => running = file
=============================================================================
