----------------------------- MODULE MCCommLink -----------------------------
(* The values the configuration gives to the constants of CommLink.        *)
EXTENDS CommLink

NoneOrAll == {{}, Devices}
=============================================================================
