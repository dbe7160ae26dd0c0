---------------------------- MODULE MCHierarchySync ----------------------------
EXTENDS HierarchySync
=============================================================================
