---------------------------- MODULE MCSchemaCreate ----------------------------
\* Model checking of SchemaCreate.
EXTENDS SchemaCreate
=============================================================================
