------------------------------ MODULE MCHidTx ------------------------------
EXTENDS HidTx

\* A key, a second key and a modifier alone.
MCBindings ==
    {[mod |-> {}, key |-> {"a"}], [mod |-> {}, key |-> {"b"}],
     [mod |-> {"shift"}, key |-> {}]}
=============================================================================
