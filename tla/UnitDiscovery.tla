--------------------------- MODULE UnitDiscovery ---------------------------
(***************************************************************************)
(* Several units on one bus, found and numbered by the printer: the online *)
(* detect handshake of bambu_bus_ams.cpp with its prefixes and tokens, the *)
(* gate it puts before all other traffic in the AUTO image, and which unit *)
(* answers a request.                                                      *)
(*                                                                         *)
(* A frame of the printer reaches every unit that has room for it, unless  *)
(* it is lost on the way; a unit deals with it when its main loop comes    *)
(* round, which may be after the printer has given up and gone on.  A unit *)
(* may restart at any time.  The contents of requests and answers are left *)
(* out, but for the number they are for; the printer is external.          *)
(***************************************************************************)
EXTENDS Integers, Sequences, FiniteSets

CONSTANTS Units,
          Numbers,     \* AMS numbers, 0..3
          Requested,   \* bound: the numbers the printer sends requests for
          AmsAuto,     \* BMCU_AMS_AUTO
          Letter,      \* BAMBU_BUS_AMS_NUM of each unit of the fixed image
          Tokens,      \* what online_detect_make_token may return
          MaxWaiting,  \* frames the port holds
          MaxArranges, \* bound: how often the printer starts over
          MaxRestarts  \* bound: restarts and outages of units

First == "0C"     \* the prefixes of the fixed image
Second == "0A"
None == "none"

ASSUME DiscoveryAssumption ==
  /\ None \notin Units
  /\ AmsAuto \in BOOLEAN /\ 0 \in Numbers /\ Requested \subseteq Numbers
  /\ Letter \in [Units -> Numbers]
  /\ ~AmsAuto => \A u, v \in Units : u # v => Letter[u] # Letter[v]
  /\ Tokens # {} /\ {First, Second, None} \cap Tokens = {}
  /\ MaxWaiting \in Nat \ {0} /\ MaxArranges \in Nat /\ MaxRestarts \in Nat

Prefixes == IF AmsAuto THEN Tokens ELSE {First, Second}

VARIABLES
  unit,     \* have_registered, auto_arrange_wait, the number, the prefix and the phase
  inbox,    \* the frames in each unit's port, the one being dealt with first
  answer,   \* what each unit has built and not yet sent
  heard,    \* printer: what it last heard from each unit
  given,    \* printer: the unit it gave each number to
  replied,  \* ghost: the units that have answered the printer's last request, but for strays
  stray,    \* ghost: units that missed an arrange command, until they read one or restart
  used      \* bound: arranges and restarts so far

units == <<unit, inbox, answer>>
vars  == <<units, heard, given, replied, stray, used>>

NoAnswer == [kind |-> "none"]

Frames ==
  {[kind |-> "probe"], [kind |-> "arrange"]}
  \cup [kind : {"confirm"}, num : Numbers, prefix : Prefixes, id : Units]
  \cup [kind : {"request"}, num : Numbers, last : BOOLEAN]

Answers ==
  {NoAnswer}
  \cup [kind : {"found", "confirmed"}, num : Numbers, prefix : Prefixes]
  \cup [kind : {"reply"}, num : Numbers, last : BOOLEAN]

Reset(u) ==
  [registered : {FALSE}, wait : {FALSE}, num : {IF AmsAuto THEN 0 ELSE Letter[u]},
   prefix : IF AmsAuto THEN Tokens ELSE {First}, phase : {0}]

Init ==
  /\ unit \in {f \in [Units -> UNION {Reset(u) : u \in Units}] : \A u \in Units : f[u] \in Reset(u)}
  /\ inbox = [u \in Units |-> << >>] /\ answer = [u \in Units |-> NoAnswer]
  /\ heard = [u \in Units |-> None]
  /\ given = [n \in Numbers |-> None]
  /\ replied = {} /\ stray = {} /\ used = [arranges |-> 0, restarts |-> 0]

-----------------------------------------------------------------------------
(* The printer.                                                            *)

(* A frame reaches the units of to; the last request is now another one if *)
(* this is a request.                                                      *)
Older(f) == IF f.kind \in {"request", "reply"} THEN [f EXCEPT !.last = FALSE] ELSE f

Broadcast(frame, to) ==
  LET age(f) == IF frame.kind = "request" THEN Older(f) ELSE f
  IN /\ inbox' = [u \in Units |->
                    LET old == [i \in 1 .. Len(inbox[u]) |-> age(inbox[u][i])]
                    IN IF u \in to THEN Append(old, frame) ELSE old]
     /\ answer' = [u \in Units |-> age(answer[u])]

Reached == {to \in SUBSET Units : \A u \in to : Len(inbox[u]) < MaxWaiting}

Probe ==
  /\ \E to \in Reached : Broadcast([kind |-> "probe"], to)
  /\ UNCHANGED <<unit, heard, given, replied, stray, used>>

(* Until it starts over, the printer gives each unit one number and each   *)
(* number to one unit.                                                     *)
Offered(u) ==
  IF ~AmsAuto THEN {Letter[u]}
  ELSE IF \E n \in Numbers : given[n] = u THEN {n \in Numbers : given[n] = u}
  ELSE {n \in Numbers : given[n] = None}

Confirm(u, to) ==
  /\ heard[u] # None /\ to \in Reached
  /\ \E n \in Offered(u) :
       /\ given' = [given EXCEPT ![n] = u]
       /\ Broadcast([kind |-> "confirm", num |-> n, prefix |-> heard[u], id |-> u], to)
  /\ UNCHANGED <<unit, heard, replied, stray, used>>

Request ==
  /\ \E to \in Reached, n \in Requested :
       Broadcast([kind |-> "request", num |-> n, last |-> TRUE], to)
  /\ replied' = {}
  /\ UNCHANGED <<unit, heard, given, stray, used>>

Arrange ==
  /\ used.arranges < MaxArranges /\ used' = [used EXCEPT !.arranges = @ + 1]
  /\ \E to \in Reached : /\ Broadcast([kind |-> "arrange"], to)
                         /\ stray' = IF AmsAuto THEN stray \cup (Units \ to) ELSE stray
  /\ heard' = [u \in Units |-> None] /\ given' = [n \in Numbers |-> None]
  /\ UNCHANGED <<unit, replied>>

-----------------------------------------------------------------------------
(* The units.                                                              *)

(* The first probe after a reset is answered with one prefix, the later    *)
(* ones with the other; the AUTO image always answers with its token.      *)
PrefixShown(s) == IF AmsAuto THEN s.prefix ELSE IF s.phase = 0 THEN First ELSE Second

\* Variant for mutation: a new token with every probe.
ProbedAnew(s) ==
  [s EXCEPT !.prefix = CHOOSE p \in Prefixes : Cardinality(Prefixes) > 1 => p # @]

Probed(s) ==
  [s EXCEPT !.prefix = PrefixShown(s),
            !.phase  = IF AmsAuto THEN @ ELSE IF @ = 0 THEN 1 ELSE 2]

(* Does a confirm name this unit: its number, its prefix, its identity? *)
PrefixAwaited(s) == IF AmsAuto THEN s.prefix ELSE Second

\* Variant for mutation: whose identity is in it is not looked at.
NamesByPrefix(u, f) ==
  /\ ~AmsAuto => f.num = unit[u].num
  /\ f.prefix = PrefixAwaited(unit[u])

Names(u, f) ==
  /\ ~AmsAuto => f.num = unit[u].num
  /\ f.prefix = PrefixAwaited(unit[u]) /\ f.id = u

(* An arrange command cancels the answer it overtakes. *)
Cancelled(u) == NoAnswer

Rearmed(s) == [s EXCEPT !.registered = FALSE, !.num = 0, !.wait = TRUE, !.phase = 0]

(* get_package_online_detect: the unit and its answer afterwards. *)
get_package_online_detect(u, f) ==
  LET s == unit[u]
  IN CASE f.kind = "arrange" ->
            IF AmsAuto THEN [s |-> Rearmed(s), a |-> Cancelled(u)] ELSE [s |-> s, a |-> NoAnswer]
       [] f.kind = "probe" ->
            IF s.wait \/ s.registered THEN [s |-> s, a |-> NoAnswer]
            ELSE LET t == Probed(s)
                 IN [s |-> t, a |-> [kind |-> "found", num |-> t.num, prefix |-> t.prefix]]
       [] f.kind = "confirm" ->
            LET t == [s EXCEPT !.prefix = IF AmsAuto \/ f.num # s.num THEN @ ELSE Second]
            IN IF s.wait \/ ~Names(u, f) THEN [s |-> IF s.wait THEN s ELSE t, a |-> NoAnswer]
               ELSE [s |-> [t EXCEPT !.registered = TRUE, !.phase = 3, !.num = f.num],
                     a |-> [kind |-> "confirmed", num |-> f.num, prefix |-> t.prefix]]

(* All other traffic: in the AUTO image only for a unit with a number. *)
Admitted(s) == AmsAuto => s.registered /\ ~s.wait

Replied(u, f) ==
  IF Admitted(unit[u]) /\ f.num = unit[u].num
  THEN [kind |-> "reply", num |-> f.num, last |-> f.last /\ u \notin stray] ELSE NoAnswer

(* An arrange command is not held up by an answer waiting to go out. *)
Cancels(f) == AmsAuto /\ f.kind = "arrange"

(* bambubus_run. *)
Pass(u) ==
  /\ inbox[u] # << >>
  /\ LET f == Head(inbox[u])
     IN /\ answer[u] = NoAnswer \/ Cancels(f)
        /\ LET r == IF f.kind = "request" THEN [s |-> unit[u], a |-> Replied(u, f)]
                    ELSE get_package_online_detect(u, f)
           IN /\ unit' = [unit EXCEPT ![u] = r.s]
              /\ answer' = [answer EXCEPT ![u] = r.a]
        /\ stray' = IF Cancels(f) THEN stray \ {u} ELSE stray
  /\ inbox' = [inbox EXCEPT ![u] = Tail(@)]
  /\ UNCHANGED <<heard, given, replied, used>>

(* send_package; the printer hears the answer, or it is lost. *)
Send(u, hears) ==
  /\ answer[u] # NoAnswer
  /\ answer' = [answer EXCEPT ![u] = NoAnswer]
  /\ heard' = IF hears /\ answer[u].kind = "found" THEN [heard EXCEPT ![u] = answer[u].prefix]
              ELSE heard
  /\ replied' = IF answer[u].kind = "reply" /\ answer[u].last THEN replied \cup {u} ELSE replied
  /\ UNCHANGED <<unit, inbox, given, stray, used>>

(* Power off and on, or a reset by the watchdog: bambubus_init. *)
Restart(u) ==
  /\ used.restarts < MaxRestarts /\ used' = [used EXCEPT !.restarts = @ + 1]
  /\ \E s \in Reset(u) : unit' = [unit EXCEPT ![u] = s]
  /\ inbox' = [inbox EXCEPT ![u] = << >>] /\ answer' = [answer EXCEPT ![u] = NoAnswer]
  /\ stray' = stray \ {u}
  /\ UNCHANGED <<heard, given, replied>>

(* No heartbeat for a second: the fixed image is to be found again. *)
LinkLost(u) ==
  /\ ~AmsAuto
  /\ used.restarts < MaxRestarts /\ used' = [used EXCEPT !.restarts = @ + 1]
  /\ unit' = [unit EXCEPT ![u] = [@ EXCEPT !.registered = FALSE, !.prefix = First, !.phase = 0]]
  /\ UNCHANGED <<inbox, answer, heard, given, replied, stray>>

Next ==
  \/ Probe \/ Request \/ Arrange
  \/ \E u \in Units :
       \/ \E to \in Reached : Confirm(u, to)
       \/ Pass(u) \/ Restart(u) \/ LinkLost(u)
       \/ \E hears \in BOOLEAN : Send(u, hears)

Spec == Init /\ [][Next]_vars

-----------------------------------------------------------------------------
TypeOK ==
  /\ unit \in [Units -> [registered : BOOLEAN, wait : BOOLEAN, num : Numbers,
                         prefix : Prefixes, phase : 0 .. 3]]
  /\ inbox \in [Units -> Seq(Frames)] /\ \A u \in Units : Len(inbox[u]) <= MaxWaiting
  /\ answer \in [Units -> Answers]
  /\ heard \in [Units -> Prefixes \cup {None}] /\ given \in [Numbers -> Units \cup {None}]
  /\ replied \subseteq Units /\ stray \subseteq Units
  /\ used \in [arranges : 0 .. MaxArranges, restarts : 0 .. MaxRestarts]

(* One request, one answer: whatever is lost, late or restarted, of the    *)
(* units that missed no arrange command no two answer the same request.    *)
OneUnitAnswers == Cardinality(replied) <= 1

(* The main loop of a unit goes round. *)
UnitRuns(u) == WF_vars(Pass(u)) /\ WF_vars(\E hears \in BOOLEAN : Send(u, hears))

(* The printer probes, and confirms what it heard last, again and again,   *)
(* and not every frame between it and the unit is lost.                    *)
LineReaches(u) ==
  /\ SF_vars(answer[u].kind = "found" /\ Send(u, TRUE))
  /\ SF_vars(Probe /\ inbox'[u] # inbox[u])
  /\ SF_vars(\E to \in Reached : u \in to /\ Confirm(u, to))

(* A unit that the line reaches is found in the end, and stays so, whatever *)
(* becomes of the other units.                                              *)
AllFound == \A u \in Units : UnitRuns(u) /\ LineReaches(u) => <>[](unit[u].registered)
=============================================================================
