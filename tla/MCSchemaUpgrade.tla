--------------------------- MODULE MCSchemaUpgrade ---------------------------
EXTENDS SchemaUpgrade
=============================================================================
