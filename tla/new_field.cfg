SPECIFICATION Spec
PROPERTY NewFieldsStay
