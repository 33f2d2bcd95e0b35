----------------------------- MODULE MCAsyncTcp -----------------------------
EXTENDS AsyncTcp
=============================================================================
