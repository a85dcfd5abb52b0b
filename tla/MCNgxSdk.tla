------------------------------ MODULE MCNgxSdk ------------------------------
(* NgxSdk on two cameras: all of its constants are given by the              *)
(* configurations.                                                           *)
EXTENDS NgxSdk
=============================================================================
