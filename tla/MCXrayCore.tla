----------------------------- MODULE MCXrayCore -----------------------------
(* XrayCore on small instances.                                            *)
EXTENDS XrayCore
=============================================================================
