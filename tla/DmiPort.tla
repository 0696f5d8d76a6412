------------------------------- MODULE DmiPort -------------------------------
(***************************************************************************)
(* What the JTAG transport promises a client of the debug module: a port   *)
(* into which the client scans words.  There is no TAP, no pin and no      *)
(* register here.  A scan that begins while idle cycles are owed, or after *)
(* one was refused, is refused until the client clears that; any other is  *)
(* executed when it ends, once, with the word the client shifted in, and   *)
(* owes the idle cycles again.  The debug module sees at most one access   *)
(* in a tick of the server.                                                *)
(***************************************************************************)
EXTENDS Integers, Sequences

CONSTANTS
    RequiredRti,    \* idle cycles an executed scan owes
    WordLength,     \* bits of a word
    Bit,
    Word,           \* the words
    CallWord,       \* those that are calls of the debug module
    NoCall          \* no call is made

VARIABLES
    owed,           \* idle cycles to wait
    refused,        \* a scan was refused and that has not been cleared
    scan, word,     \* whether a scan is open, and the bits shifted into it
    call, made      \* the call of this step, and the number of calls of this tick

vars == <<owed, refused, scan, word, call, made>>

Init ==
    /\ owed \in 0..RequiredRti
    /\ refused \in BOOLEAN
    /\ scan = "none" /\ word = <<>>
    /\ call = NoCall /\ made = 0

\* The bits s were the last to be shifted into w.
EndsWith(w, s) ==
    /\ Len(s) <= WordLength
    /\ \A i \in 1..Len(s) : s[i] = w[WordLength - Len(s) + i]

-----------------------------------------------------------------------------
\* A step that makes no call.
Silent == call' = NoCall

BeginTick ==
    /\ made' = 0
    /\ Silent /\ UNCHANGED <<owed, refused, scan, word>>

Idle ==
    /\ scan = "none" /\ owed > 0
    /\ owed' = owed - 1
    /\ Silent /\ UNCHANGED <<refused, scan, word, made>>

BeginScan ==
    /\ scan = "none" /\ owed = 0 /\ ~refused
    /\ scan' = "open" /\ word' = <<>>
    /\ Silent /\ UNCHANGED <<owed, refused, made>>

RefuseScan ==
    /\ scan = "none" /\ (owed > 0 \/ refused)
    /\ refused' = TRUE
    /\ Silent /\ UNCHANGED <<owed, scan, word, made>>

Shift(bit) ==
    /\ scan = "open"
    /\ word' = IF Len(word) < WordLength THEN Append(word, bit) ELSE Tail(Append(word, bit))
    /\ Silent /\ UNCHANGED <<owed, refused, scan, made>>

\* A client that shifts less than a word executes one that ends with its bits.
Execute(w) ==
    /\ scan = "open" /\ owed = 0 /\ ~refused
    /\ EndsWith(w, word)
    /\ IF w \in CallWord THEN made = 0 /\ made' = 1 /\ call' = w
                         ELSE Silent /\ UNCHANGED made
    /\ owed' = RequiredRti
    /\ scan' = "none" /\ word' = <<>>
    /\ UNCHANGED refused

Clear ==
    /\ scan = "none" /\ refused' = FALSE
    /\ Silent /\ UNCHANGED <<owed, scan, word, made>>

\* A scan that is open is lost.
HardReset ==
    /\ owed' = 0 /\ refused' = FALSE
    /\ scan' = "none" /\ word' = <<>>
    /\ Silent /\ UNCHANGED made

\* The call of the step before is over.
Rest == Silent /\ UNCHANGED <<owed, refused, scan, word, made>>

Next ==
    \/ BeginTick \/ Idle \/ BeginScan \/ RefuseScan
    \/ (\E bit \in Bit : Shift(bit))
    \/ (\E w \in Word : Execute(w))
    \/ Clear \/ HardReset \/ Rest

Spec == Init /\ [][Next]_vars
=============================================================================
