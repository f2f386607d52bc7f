------------------------------- MODULE MCRaspy -------------------------------
EXTENDS Raspy

\* An autopilot, and another component of another system.
MCAutopilot == {<<1, 1>>}
MCTwoDevices == {<<1, 1>>, <<2, 7>>}
=============================================================================
