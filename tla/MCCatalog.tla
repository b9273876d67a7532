----------------------------- MODULE MCCatalog -----------------------------
EXTENDS CatalogLog
=============================================================================
