-------------------------- MODULE MCAuthorExecution --------------------------
\* TLC instance of AuthorExecution.
EXTENDS AuthorExecution
=============================================================================
