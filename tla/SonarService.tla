--------------------------- MODULE SonarService ---------------------------
(***************************************************************************)
(* What the field sonar promises a program that waited its turn: a call is *)
(* recorded once, after it is asked for, and returns that recording, whole *)
(* and with the chirp this program uploaded.  A program that opened the    *)
(* port while the board was busy is promised nothing until it opens again. *)
(***************************************************************************)
EXTENDS Integers

CONSTANTS Chunks,     \* pieces in which a channel is sent
          Calls       \* calls are numbered modulo Calls

VARIABLES hpc,        \* the program: "closed", "flush", "ready" or "reading"
          call,       \* number of the present or last call
          mine,       \* number of the call that uploaded its chirp
          busy,       \* is the board at work on a job?
          owed,       \* what has become of the present call: "asked",
                      \* "recording", "recorded"; "none" or "unsure"
          result      \* the frame the last call returned, if any

vars == <<hpc, call, mine, busy, owed, result>>

Init ==
    /\ hpc = "closed" /\ call = 0 /\ mine = 0
    /\ busy = FALSE /\ owed = "none" /\ result = <<>>

NextCall == (call + 1) % Calls

(* Both channels of one job in order, nothing older in them, and the chirp *)
(* that was in the air.                                                    *)
Recording(j, chirp) ==
    [k \in 1 .. 2 * Chunks |->
        [job |-> j, ch |-> (k - 1) \div Chunks, i |-> ((k - 1) % Chunks) + 1,
         clean |-> TRUE, played |-> TRUE, chirp |-> chirp]]

(* The port is opened, a chirp uploaded, and a recording asked for that is *)
(* to be thrown away.                                                      *)
Open ==
    /\ hpc = "closed" /\ hpc' = "flush"
    /\ call' = NextCall /\ mine' = NextCall
    /\ owed' = IF busy THEN "unsure" ELSE "asked"
    /\ UNCHANGED <<busy, result>>

Ask ==
    /\ hpc = "ready" /\ hpc' = "reading"
    /\ call' = NextCall
    /\ owed' = IF owed = "unsure" THEN "unsure" ELSE "asked"
    /\ result' = <<>>
    /\ UNCHANGED <<mine, busy>>

Record ==
    /\ owed = "asked" /\ ~busy
    /\ owed' = "recording" /\ busy' = TRUE
    /\ UNCHANGED <<hpc, call, mine, result>>

Finish ==
    /\ owed = "recording"
    /\ owed' = "recorded" /\ busy' = FALSE
    /\ UNCHANGED <<hpc, call, mine, result>>

Return ==
    /\ owed = "recorded"
    /\ owed' = "none" /\ hpc' = "ready"
    /\ result' = IF hpc = "flush" THEN <<>> ELSE Recording(call, mine)
    /\ UNCHANGED <<call, mine, busy>>

(* Something comes back to a program that is promised nothing. *)
ReturnUnsure ==
    /\ owed = "unsure" /\ hpc \in {"flush", "reading"}
    /\ hpc' = "ready"
    /\ UNCHANGED <<call, mine, busy, owed, result>>

(* The port is closed, or the program killed: also in the middle of a call.*)
End ==
    /\ hpc # "closed" /\ hpc' = "closed"
    /\ owed' = "none" /\ result' = <<>>
    /\ UNCHANGED <<call, mine, busy>>

(* What a program that was killed had asked for is begun, or ends. *)
LeftOver ==
    /\ hpc = "closed" \/ owed = "unsure"
    /\ busy' = ~busy
    /\ UNCHANGED <<hpc, call, mine, owed, result>>

Next == Open \/ Ask \/ Record \/ Finish \/ Return \/ ReturnUnsure \/ End \/ LeftOver
Spec == Init /\ [][Next]_vars
=============================================================================
