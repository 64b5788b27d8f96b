---------------------------- MODULE MCHttpClient ----------------------------
(* HttpClient.tla for TLC: a GET, a PUT and a request whose type was never  *)
(* set.                                                                     *)
EXTENDS HttpClient, TLC

CONSTANTS get, put, odd

SomeKinds == (get :> "GET") @@ (put :> "PUT") @@ (odd :> "UNKNOWN")
=============================================================================
