---------------------------- MODULE MCSchemaInit ----------------------------
\* The runs of SchemaInit: two processes and two settings.
EXTENDS SchemaInit
CONSTANTS a1, a2
=============================================================================
