---------------------------- MODULE MCSolverChain ----------------------------
(***************************************************************************)
(* Three bytes that are 0 or 1 and conditions in a chain: y & z shares y   *)
(* with x < y, which shares x with x, which shares nothing with y & z.     *)
(* x = 0 and x >= y make y & z false, by way of y.  "never" is false for   *)
(* every x, though no constant.                                            *)
(***************************************************************************)
EXTENDS SolverChain

MCVar == {"x", "y", "z"}
MCVal == {0, 1}
MCCanonical == {"x", "x<y", "y&z", "never"}
MCCond == MCCanonical \cup {"!x", "x>=y", "!y&z", "always"}
MCNeg == [c \in MCCond |->
            CASE c = "x"     -> "!x"     [] c = "!x"     -> "x"
              [] c = "x<y"   -> "x>=y"   [] c = "x>=y"   -> "x<y"
              [] c = "y&z"   -> "!y&z"   [] c = "!y&z"   -> "y&z"
              [] c = "never" -> "always" [] c = "always" -> "never"]
MCAssign == [MCVar -> MCVal]
Makes(c, a) ==
  CASE c = "x"     -> a["x"] = 1
    [] c = "x<y"   -> a["x"] < a["y"]
    [] c = "y&z"   -> a["y"] = 1 /\ a["z"] = 1
    [] c = "never" -> FALSE
MCSat == [c \in MCCond |->
            {a \in MCAssign : IF c \in MCCanonical THEN Makes(c, a) ELSE ~Makes(MCNeg[c], a)}]
MCReads == [c \in MCCond |->
              IF c \in {"x", "!x", "never", "always"} THEN {"x"}
              ELSE IF c \in {"x<y", "x>=y"} THEN {"x", "y"}
              ELSE {"y", "z"}]
MCProgram == [o \in {"fork", "assume", "concretize", "prefer"} |->
                CASE o = "fork"       -> {"x", "x<y", "!y&z", "never"}
                  [] o = "assume"     -> {"!x", "x>=y", "y&z", "never"}
                  [] o = "concretize" -> {"x", "!y&z"}
                  [] o = "prefer"     -> {"x>=y", "y&z"}]
MCOptionSets == {{}, {"cex-cache-try-all", "cex-cache-exp", "ignore-solver-failures"}}

=============================================================================
