SPECIFICATION Spec
CONSTANTS
  Instances <- MCInstances
INVARIANTS QueuesAreRight NotWorse
PROPERTIES Terminates
