----------------------------- MODULE AuditScript -----------------------------
(***************************************************************************)
(* The standalone audit listener (scripts/audit-listener.mjs), deployed    *)
(* without the backend: the chain, the tables of AuditTrail and one loop,  *)
(* which is meant to poll ranges of blocks and never gets to read one.     *)
(***************************************************************************)
EXTENDS AuditTrail

VARIABLE
    scr     \* the block the script holds as its cursor, 0 before it has one

scriptVars == <<vars, scr>>

\* What the script never touches: the calls and the memory of the backend.
backendVars == <<outbox, record, api, flush, lst>>

ScriptInit == Init /\ scr = 0

\* One turn of loop: while it is 0 the cursor is read, and then processRange
\* asks for the new blocks.  The ABI its Contract is made from is three bare
\* names, of which ethers keeps none: queryFilter knows no event and throws
\* before anything is asked, and the turn ends in the catch.  So nothing is
\* stored, no cursor is saved, and a turn with a cursor changes nothing.
ScriptCycle ==
    /\ scr = 0
    /\ \E c \in {cursor["script"], Null} :
          GetCursor("script", c) /\ scr' = FirstBlock(c)
    /\ UNCHANGED <<chainVars, logs, cursor, backendVars, crashes>>

\* The script stops and is started again.
ScriptCrash ==
    /\ scr # 0
    /\ crashes < MaxCrashes
    /\ crashes' = crashes + 1
    /\ scr' = 0
    /\ UNCHANGED <<chainVars, logs, cursor, backendVars, faults>>

ScriptNext ==
    \/ \E S \in SUBSET Event : MineBlock(S) /\ UNCHANGED scr
    \/ ScriptCycle
    \/ ScriptCrash

\* The loop keeps turning; blocks need not be mined.
ScriptFairSpec ==
    ScriptInit /\ [][ScriptNext]_scriptVars /\ WF_scriptVars(ScriptCycle)

=============================================================================
