---------------------------- MODULE MCSdkClient -----------------------------
(***************************************************************************)
(* Instances of SdkClient for TLC: tabs of a browser.                      *)
(***************************************************************************)
EXTENDS SdkClient
=============================================================================
