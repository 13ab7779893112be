----------------------------- MODULE MCHarness -----------------------------
EXTENDS Harness

\* Low, just below a carry, and within two increments of the limit.
SomeStarts == {<<0, 1>>, <<0, 4>>, <<1, 1>>, <<1, 3>>}
=============================================================================
