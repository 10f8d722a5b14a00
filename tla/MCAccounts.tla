----------------------------- MODULE MCAccounts -----------------------------
(* Accounts for TLC: everybody is interested in the first user.  With a     *)
(* viewer there are a second signup, of another name, another mail, or both,*)
(* or two patches, or a login.                                              *)
EXTENDS Accounts

MCUserOf == [p \in Login \cup Patch \cup Viewer |-> "s1"]

Forms(name, mail) ==
  [s \in Signup |-> IF s = "s1" THEN [name |-> "n", mail |-> "m"]
                                ELSE [name |-> name, mail |-> mail]]

Scene(others, name, mail) ==
  [cast |-> Viewer \cup {"s1"} \cup others, form |-> Forms(name, mail)]

MCScenes ==
  {Scene(Signup, name, mail) : name \in {"n", "n2"}, mail \in {"m", "m2"}}
    \cup {Scene(others, "n2", "m2") : others \in {Patch, Login}}
=============================================================================
