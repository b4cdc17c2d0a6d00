---------------------------- MODULE MCExplainScripts ----------------------------
\* Model checking of ExplainScripts.
EXTENDS ExplainScripts

Pools == {<<"clustered", "scattered">>, <<"scattered", "scattered", "clustered">>, <<"scattered">>}
=============================================================================
