---------------------------- MODULE MCCredentials ----------------------------
EXTENDS Credentials

MCSeed == [users |-> [name \in Names |-> HashOnly], cap |-> 1, sip |-> 0]
=============================================================================
