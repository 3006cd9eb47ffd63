-------------------------------- MODULE Strict --------------------------------
(***************************************************************************)
(* Two identities.  They change no value; they make TLC work out a value   *)
(* once where it would work it out again at each use.                      *)
(***************************************************************************)
LOCAL INSTANCE TLC

(* The function f, as a table. *)
Tabulated(f) == f @@ <<>>

(* F(value). *)
With(value, F(_)) == CHOOSE r \in {F(v) : v \in {value}} : TRUE
==============================================================================
