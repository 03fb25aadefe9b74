------------------------------ MODULE MCStartup ------------------------------
\* A default and a second account; WA_ACCOUNTS unset, naming one or both of them,
\* or invalid.
EXTENDS Startup

MCAccounts == {"default", "sales"}

MCDeclarations == {<<>>, <<"sales">>, <<"default", "sales">>, <<"sales", "sales">>, <<"", "sales">>}
=============================================================================
