---------------------- MODULE MCAsyncAccessTokenCache ----------------------
(* Three tasks of one cache whose counter holds two generations.           *)
EXTENDS AsyncAccessTokenCache
=============================================================================
