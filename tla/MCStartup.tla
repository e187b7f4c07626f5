------------------------------ MODULE MCStartup ------------------------------
EXTENDS Startup, TLC

Setting(n, s) == [num |-> n, suffix |-> s]

NoEnv == [name \in {"mem0", "mem", "sm0", "sm"} |-> Unset]

(* Every process comes with settings of its own: a limit for the device,    *)
(* only the fallback and one that does not fit, and for the tool a file     *)
(* that overrides one setting before a bad line.                            *)
MCEnv == [p \in {"a", "b", "c", "t"} |->
    CASE p = "a" -> [NoEnv EXCEPT !["mem0"] = Setting(3, "K"), !["sm"] = Setting(10, "none")]
      [] p = "b" -> [NoEnv EXCEPT !["mem0"] = Setting(9, "G"), !["mem"] = Setting(1, "M")]
      [] OTHER -> NoEnv]

MCOverride == <<[name |-> "mem", value |-> Setting(7, "other")], [name |-> "bad"],
                [name |-> "sm", value |-> Setting(50, "none")]>>

(* With a third process the slot of one can be moved by another.            *)
MCCast == [detect |-> {"a", "b"}, suspend |-> {"a", "b", "t"}, serial |-> {"a", "b", "c", "t"}]

MCOutsider == <<"o", 0>>
=============================================================================
